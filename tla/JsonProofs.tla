----------------------------- MODULE JsonProofs -----------------------------
(***************************************************************************)
(* Six properties of JsonFile, for every file, every configuration and     *)
(* every size of the memory: the parser keeps to its blocks (InBounds),    *)
(* the callback gets the beginning of a document (WellNested), the parser  *)
(* is done only at the end of one (DoneMeansComplete), the program goes on *)
(* with the numbers of the file (NumbersFaithful), a comment that is not   *)
(* refused is no more than a space (CommentsNeutral), and every text is    *)
(* what its type says (TextsWellFormed).                                   *)
(*                                                                         *)
(* InBounds alone is not inductive.  A character takes the place of the    *)
(* four digits it was written with, so that they must be in the buffer     *)
(* when it is decoded: HasDigits counts them in the states in between.     *)
(* Room adds the types the operators need.  What the buffer and the stack  *)
(* hold does not matter; they are sequences over some set.                 *)
(*                                                                         *)
(* For WellNested and DoneMeansComplete the stack matters, and the calls   *)
(* do: NestInv relates both to the state.  A value reaches the callback    *)
(* after its last byte, often only with the next comma, so that Position   *)
(* says of a state whether a key or a value may be pending in it, and of a *)
(* comment what it says of the state the comment ends in (Resumed).  The   *)
(* transition table enters as one lemma, Leading: from which states, and   *)
(* with what next, each action is taken.                                   *)
(*                                                                         *)
(* For NumbersFaithful the calls of a byte are followed one by one: what   *)
(* comes after a number in the same byte is no other (Tells), so that      *)
(* nothing is counted of what the program, having exited, does not see.    *)
(* InPlace ties each place of the list to the call that filled it, and     *)
(* LastOut is what erange stands for between two numbers.                  *)
(*                                                                         *)
(* For CommentsNeutral two parsers run side by side.  Outside a comment    *)
(* they are Twins, or the twin still holds a text that a comment ended     *)
(* (Pending); in a comment the twin is where the comment began             *)
(* (Suspended).  Everything the parser does keeps two parsers alike, and   *)
(* Emptied makes sure that no text is begun where a space is as good as    *)
(* nothing.  The byte that may begin a comment is the one the two do not   *)
(* share (BeginningChar): the table says where it is refused and a space   *)
(* is not (FirstMoves, FirstFound).                                        *)
(*                                                                         *)
(* For TextsWellFormed the buffer matters byte by byte.  TextIn says what  *)
(* it holds in every state: of a number which part of its form has been    *)
(* read (NumberForm), of a string how many bytes the last character still  *)
(* lacks and how many digits of a \uXXXX stand at its end (StringText), of *)
(* a text that waits that it is complete (Waits).  Left is a fold, and so  *)
(* known by the bytes it is taken over one at a time (LeftAppend); the     *)
(* four digits are taken off again in the same way (CutFour).  The table   *)
(* enters as TextMoves and TextKept.                                       *)
(***************************************************************************)
EXTENDS JsonFile, SequenceLemmas, FiniteSetTheorems, TLAPS

IsSeq(s) == \E S : s \in Seq(S)

Fields == {"config", "state", "save_state", "expecting_key",
           "utf8_multibyte_left", "unicode_multi", "type", "stack",
           "stack_size", "buffer", "buffer_size", "calls", "ret"}

HasFields(p) == Fields \subseteq DOMAIN p

(* What InBounds says of a parser, and that a stack has a place. *)
Sizes(p) ==
    /\ p.buffer_size \in Nat /\ p.stack_size \in Nat \ {0}
    /\ Len(p.buffer) < p.buffer_size
    /\ Len(p.stack) <= p.stack_size
    /\ p.config.max_nesting > 0 => p.stack_size = p.config.max_nesting
    /\ p.config.max_data > 0 => p.buffer_size <= p.config.max_data

Room(p) ==
    /\ HasFields(p)
    /\ p.config \in json_config
    /\ IsSeq(p.buffer) /\ IsSeq(p.stack)
    /\ Sizes(p)

(* The states in which digits of \uXXXX have been read. *)
Digital == {"U2", "U3", "U4"}

HasDigits(p) ==
    p.ret = "SUCCESS" =>
        /\ p.state = "U2" => Len(p.buffer) >= 1
        /\ p.state = "U3" => Len(p.buffer) >= 2
        /\ p.state = "U4" => Len(p.buffer) >= 3

ParserInv(p) == Room(p) /\ HasDigits(p)

(* q differs from p in nothing the room depends on. *)
Same(p, q) ==
    /\ HasFields(q)
    /\ q.config = p.config
    /\ q.buffer = p.buffer /\ q.buffer_size = p.buffer_size
    /\ q.stack = p.stack /\ q.stack_size = p.stack_size

(* The text in q is not longer than that in p. *)
Shrunk(p, q) ==
    /\ HasFields(q)
    /\ q.config = p.config
    /\ q.stack = p.stack /\ q.stack_size = p.stack_size
    /\ q.buffer_size = p.buffer_size
    /\ IsSeq(q.buffer) /\ Len(q.buffer) <= Len(p.buffer)

Short(s) == IsSeq(s) /\ Len(s) \in 1..4

-----------------------------------------------------------------------------
(* Sequences and characters *)

(* A sequence over some set is a sequence.                                 *)
LEMMA Member == \A S, s : s \in Seq(S) => IsSeq(s)
BY Zenon DEF IsSeq

(* The empty sequence is one and has no elements.                          *)
LEMMA NoElements == IsSeq(<<>>) /\ Len(<<>>) = 0
<1>1. <<>> \in Seq(Nat) /\ Len(<<>>) = 0  BY SMT
<1>2. IsSeq(<<>>)  BY <1>1, Member, Zenon
<1> QED BY <1>1, <1>2, Zenon

(* The length of a sequence is a number, and only the empty one has none.  *)
LEMMA LenNat ==
    ASSUME NEW s, IsSeq(s)
    PROVE  Len(s) \in Nat /\ (s # <<>> => Len(s) > 0)
BY DEF IsSeq

(* Appending makes a sequence one longer.                                  *)
LEMMA AppendSeq ==
    ASSUME NEW s, IsSeq(s), NEW x
    PROVE  IsSeq(Append(s, x)) /\ Len(Append(s, x)) = Len(s) + 1
<1>1. PICK S : s \in Seq(S)  BY DEF IsSeq
<1>2. s \in Seq(S \cup {x})  BY <1>1
<1>3. Append(s, x) \in Seq(S \cup {x})  BY <1>2
<1> QED BY <1>2, <1>3 DEF IsSeq

(* The first n elements of a sequence are a sequence of n elements.        *)
LEMMA PrefixSeq ==
    ASSUME NEW s, IsSeq(s), NEW n \in Nat, n <= Len(s)
    PROVE  IsSeq(SubSeq(s, 1, n)) /\ Len(SubSeq(s, 1, n)) = n
<1>1. PICK S : s \in Seq(S)  BY DEF IsSeq
<1>2. SubSeq(s, 1, n) \in Seq(S) /\ Len(SubSeq(s, 1, n)) = n  BY <1>1
<1> QED BY <1>2 DEF IsSeq

(* The length of a concatenation is the sum of the lengths.                *)
LEMMA ConcatSeq ==
    ASSUME NEW s, IsSeq(s), NEW t, IsSeq(t)
    PROVE  IsSeq(s \o t) /\ Len(s \o t) = Len(s) + Len(t)
<1>1. PICK S : s \in Seq(S)  BY DEF IsSeq
<1>2. PICK T : t \in Seq(T)  BY DEF IsSeq
<1>3. s \in Seq(S \cup T) /\ t \in Seq(S \cup T)  BY <1>1, <1>2
<1>4. s \o t \in Seq(S \cup T) /\ Len(s \o t) = Len(s) + Len(t)  BY <1>3
<1> QED BY <1>1, <1>2, <1>4 DEF IsSeq

(* A character has no more bytes than the four digits it is written with   *)
(* (json.c 1862-1912).                                                     *)
LEMMA UTF8Short ==
    ASSUME NEW uc
    PROVE  Short(UTF8Bytes(uc))
<1>1. \A a : Short(<<a>>)
  <2> TAKE a
  <2>1. <<a>> \in Seq({a})  OBVIOUS
  <2>2. Len(<<a>>) \in 1..4  OBVIOUS
  <2> QED BY <2>1, <2>2, Member, Zenon DEF Short
<1>2. \A a, b : Short(<<a, b>>)
  <2> TAKE a, b
  <2>1. <<a, b>> \in Seq({a, b})  OBVIOUS
  <2>2. Len(<<a, b>>) \in 1..4  OBVIOUS
  <2> QED BY <2>1, <2>2, Member, Zenon DEF Short
<1>3. \A a, b, c : Short(<<a, b, c>>)
  <2> TAKE a, b, c
  <2>1. <<a, b, c>> \in Seq({a, b, c})  OBVIOUS
  <2>2. Len(<<a, b, c>>) \in 1..4  OBVIOUS
  <2> QED BY <2>1, <2>2, Member, Zenon DEF Short
<1>4. \A a, b, c, d : Short(<<a, b, c, d>>)
  <2> TAKE a, b, c, d
  <2>1. <<a, b, c, d>> \in Seq({a, b, c, d})  OBVIOUS
  <2>2. Len(<<a, b, c, d>>) \in 1..4  OBVIOUS
  <2> QED BY <2>1, <2>2, Member, Zenon DEF Short
<1> QED BY <1>1, <1>2, <1>3, <1>4, SMT DEF UTF8Bytes

-----------------------------------------------------------------------------
(* The stack and the buffer *)

(* What leaves the blocks and the configuration alone keeps the room.      *)
LEMMA SameRoom == ASSUME NEW p, Room(p), NEW q, Same(p, q) PROVE Room(q)
BY DEF Room, Same, Sizes

(* An error changes nothing but what is returned.                          *)
LEMMA FailSame ==
    ASSUME NEW p, HasFields(p), NEW e
    PROVE  /\ Same(p, Fail(p, e))
           /\ Fail(p, e).ret = e /\ Fail(p, e).state = p.state
BY DEF Fail, Same, HasFields, Fields

(* A stack that could grow has a free place (json.c 1741-1754).            *)
LEMMA GrowStack ==
    ASSUME NEW p, Room(p)
    PROVE  LET q == state_grow(p)
           IN  /\ Room(q) /\ q.stack = p.stack /\ q.state = p.state
               /\ q.ret = "SUCCESS" /\ Len(p.stack) >= p.stack_size
                      => Len(q.stack) < q.stack_size
<1> DEFINE q == state_grow(p)
           big == [p EXCEPT !.stack_size = 2 * @]
<1>a. HasFields(p) /\ p.config.max_nesting \in Nat /\ p.stack_size \in Nat \ {0}
      /\ Len(p.stack) \in Nat /\ p.buffer_size \in Nat
  BY LenNat DEF Room, json_config, Sizes
<1>1. CASE \E e : e # "SUCCESS" /\ q = Fail(p, e)
  BY <1>1, <1>a, FailSame, SameRoom DEF Same
<1>2. CASE q = big /\ p.config.max_nesting = 0
  <2>1. /\ HasFields(q) /\ q.config = p.config /\ q.stack = p.stack
        /\ q.buffer = p.buffer /\ q.buffer_size = p.buffer_size
        /\ q.stack_size = 2 * p.stack_size /\ q.state = p.state
    BY <1>2, <1>a DEF HasFields, Fields
  <2>2. Len(p.stack) <= p.stack_size  BY DEF Room, Sizes
  <2>3. Len(p.stack) < 2 * p.stack_size /\ 2 * p.stack_size \in Nat \ {0}
    BY <1>a, <2>2
  <2>4. Sizes(q)  BY <2>1, <2>2, <2>3, <1>2, <1>a DEF Sizes, Room
  <2> QED BY <2>1, <2>3, <2>4 DEF Room
<1>3. \/ q = big /\ p.config.max_nesting = 0
      \/ \E e : e # "SUCCESS" /\ q = Fail(p, e)
  BY DEF state_grow
<1> QED BY <1>1, <1>2, <1>3

(* Opening a structure keeps the stack in its block (json.c 1756-1764).    *)
LEMMA PushState ==
    ASSUME NEW p, Room(p), NEW mode
    PROVE  Room(state_push(p, mode))
<1> DEFINE q == IF Len(p.stack) >= p.stack_size THEN state_grow(p) ELSE p
           r == [q EXCEPT !.stack = Append(@, mode)]
<1>1. Room(q) /\ (q.ret = "SUCCESS" => Len(q.stack) < q.stack_size)
  <2>1. Len(p.stack) \in Nat /\ p.stack_size \in Nat  BY LenNat DEF Room, Sizes
  <2> QED BY <2>1, GrowStack
<1> HIDE DEF q
<1>2. ASSUME q.ret = "SUCCESS"  PROVE Room(r)
  <2>1. /\ HasFields(r) /\ r.config = q.config
        /\ r.stack = Append(q.stack, mode)
        /\ r.buffer = q.buffer /\ r.buffer_size = q.buffer_size
        /\ r.stack_size = q.stack_size
    BY <1>1 DEF Room, HasFields, Fields
  <2>2. /\ IsSeq(r.stack) /\ Len(r.stack) = Len(q.stack) + 1
        /\ Len(q.stack) \in Nat /\ q.stack_size \in Nat
    BY <1>1, <2>1, AppendSeq, LenNat DEF Room, Sizes
  <2>3. Len(r.stack) <= q.stack_size  BY <1>1, <1>2, <2>2
  <2> HIDE DEF r
  <2> QED BY <1>1, <2>1, <2>2, <2>3 DEF Room, Sizes
<1>3. state_push(p, mode) = IF q.ret # "SUCCESS" THEN q ELSE r
  BY DEF state_push, q
<1> QED BY <1>1, <1>2, <1>3

(* Closing one does, too (json.c 1766-1773).                               *)
LEMMA PopState ==
    ASSUME NEW p, Room(p), NEW mode
    PROVE  Room(state_pop(p, mode))
<1> DEFINE r == [p EXCEPT !.stack = SubSeq(@, 1, Len(@) - 1)]
<1>a. HasFields(p) /\ IsSeq(p.stack)  BY DEF Room
<1>1. CASE p.stack = <<>>
  BY <1>1, <1>a, FailSame, SameRoom DEF state_pop
<1>2. CASE p.stack # <<>>
  <2>1. Len(p.stack) \in Nat /\ Len(p.stack) > 0 /\ p.stack_size \in Nat
        /\ Len(p.stack) <= p.stack_size
    BY <1>2, <1>a, LenNat DEF Room, Sizes
  <2>2. /\ HasFields(r) /\ r.config = p.config
        /\ r.stack = SubSeq(p.stack, 1, Len(p.stack) - 1)
        /\ r.buffer = p.buffer /\ r.buffer_size = p.buffer_size
        /\ r.stack_size = p.stack_size
    BY <1>a DEF HasFields, Fields
  <2> HIDE DEF r
  <2>a. Len(p.stack) - 1 \in Nat /\ Len(p.stack) - 1 <= Len(p.stack)  BY <2>1
  <2>3. IsSeq(r.stack) /\ Len(r.stack) = Len(p.stack) - 1
    BY <2>a, <2>2, <1>a, PrefixSeq
  <2>4. Len(r.stack) <= p.stack_size  BY <2>1, <2>3
  <2>5. Room(r)  BY <2>2, <2>3, <2>4 DEF Room, Sizes
  <2>6. Room(Fail(r, "POP_UNEXPECTED_MODE"))  BY <2>5, <2>2, FailSame, SameRoom
  <2> QED BY <1>2, <2>5, <2>6 DEF state_pop, r
<1> QED BY <1>1, <1>2

(* A buffer that could grow has place for a byte and the 0: the limit is   *)
(* reached only by a block that was smaller (json.c 1775-1792).            *)
LEMMA GrowBuffer ==
    ASSUME NEW p, Room(p)
    PROVE  LET q == buffer_grow(p)
           IN  /\ Room(q) /\ q.buffer = p.buffer /\ q.state = p.state
               /\ q.ret = "SUCCESS" /\ Len(p.buffer) + 1 >= p.buffer_size
                      => Len(q.buffer) + 1 < q.buffer_size
<1> DEFINE q == buffer_grow(p)
           max == p.config.max_data
           size == p.buffer_size
           newsize == IF max > 0 /\ 2 * size > max THEN max ELSE 2 * size
           big == [p EXCEPT !.buffer_size = newsize]
<1>a. /\ HasFields(p) /\ max \in Nat /\ size \in Nat
      /\ Len(p.buffer) \in Nat /\ Len(p.buffer) < size
      /\ max > 0 => size <= max
  BY LenNat DEF Room, json_config, Sizes
<1>1. CASE \E e : e # "SUCCESS" /\ q = Fail(p, e)
  BY <1>1, <1>a, FailSame, SameRoom DEF Same
<1>2. CASE q = big /\ ~ (max > 0 /\ size = max)
  <2>1. /\ HasFields(q) /\ q.config = p.config /\ q.stack = p.stack
        /\ q.buffer = p.buffer /\ q.stack_size = p.stack_size
        /\ q.buffer_size = newsize /\ q.state = p.state
    BY <1>2, <1>a DEF HasFields, Fields
  <2>2. /\ newsize \in Nat /\ newsize > size /\ (max > 0 => newsize <= max)
        /\ Len(p.buffer) < newsize
        /\ Len(p.buffer) + 1 < newsize
    BY <1>a, <1>2
  <2> HIDE DEF newsize, big, q
  <2>3. Sizes(q)  BY <2>1, <2>2 DEF Sizes, Room
  <2> QED BY <2>1, <2>2, <2>3 DEF Room, q
<1>3. \/ q = big /\ ~ (max > 0 /\ size = max)
      \/ \E e : e # "SUCCESS" /\ q = Fail(p, e)
  BY DEF buffer_grow
<1> QED BY <1>1, <1>2, <1>3

(* A byte in the buffer leaves room for the 0, and if all went well the    *)
(* text is a byte longer (json.c 1794-1804).                               *)
LEMMA PushBuffer ==
    ASSUME NEW p, Room(p), NEW c
    PROVE  LET q == buffer_push(p, c)
           IN  /\ Room(q)
               /\ q.ret = "SUCCESS" => Len(q.buffer) = Len(p.buffer) + 1
<1> DEFINE q == IF Len(p.buffer) + 1 >= p.buffer_size THEN buffer_grow(p) ELSE p
           r == [q EXCEPT !.buffer = Append(@, c)]
<1>a. Len(p.buffer) \in Nat /\ p.buffer_size \in Nat  BY LenNat DEF Room, Sizes
<1>1. /\ Room(q) /\ q.buffer = p.buffer
      /\ q.ret = "SUCCESS" => Len(q.buffer) + 1 < q.buffer_size
  BY <1>a, GrowBuffer
<1> HIDE DEF q
<1>2. ASSUME q.ret = "SUCCESS"
      PROVE  Room(r) /\ Len(r.buffer) = Len(p.buffer) + 1
  <2>1. /\ HasFields(r) /\ r.config = q.config /\ r.buffer = Append(q.buffer, c)
        /\ r.stack = q.stack /\ r.buffer_size = q.buffer_size
        /\ r.stack_size = q.stack_size
    BY <1>1 DEF Room, HasFields, Fields
  <2>2. IsSeq(r.buffer) /\ Len(r.buffer) = Len(q.buffer) + 1
    BY <1>1, <2>1, AppendSeq DEF Room
  <2>3. Len(r.buffer) < q.buffer_size  BY <1>1, <1>2, <2>2
  <2> HIDE DEF r
  <2> QED BY <1>1, <2>1, <2>2, <2>3 DEF Room, Sizes
<1>3. buffer_push(p, c) = IF q.ret # "SUCCESS" THEN q ELSE r
  BY DEF buffer_push, q
<1> QED BY <1>1, <1>2, <1>3

(* A text that is not longer than before fits.                             *)
LEMMA ShrunkRoom == ASSUME NEW p, Room(p), NEW q, Shrunk(p, q) PROVE Room(q)
<1>1. /\ Len(p.buffer) \in Nat /\ Len(q.buffer) \in Nat /\ p.buffer_size \in Nat
      /\ Len(p.buffer) < p.buffer_size /\ Len(q.buffer) <= Len(p.buffer)
  BY LenNat DEF Room, Sizes, Shrunk
<1>2. Len(q.buffer) < p.buffer_size  BY <1>1
<1> QED BY <1>2 DEF Room, Sizes, Shrunk

(* The character goes where its digits were; that there are four is what   *)
(* HasDigits is for (json.c 1862-1912).                                    *)
LEMMA DecodeRoom ==
    ASSUME NEW p, Room(p), Len(p.buffer) >= 4
    PROVE  LET q == decode_unicode_char(p)
           IN  Room(q) /\ q.state = p.state
<1> DEFINE n    == Len(p.buffer)
           kept == SubSeq(p.buffer, 1, n - 4)
           uval == 4096 * hex(p.buffer[n - 3]) + 256 * hex(p.buffer[n - 2])
                      + 16 * hex(p.buffer[n - 1]) + hex(p.buffer[n])
           pair == 65536 + 1024 * (p.unicode_multi % 1024) + (uval % 1024)
           cut  == [p EXCEPT !.buffer = kept]
           Ok(q) == Shrunk(p, q) /\ q.state = p.state
<1>a. HasFields(p) /\ IsSeq(p.buffer) /\ n \in Nat
  BY LenNat DEF Room
<1>1. IsSeq(kept) /\ Len(kept) = n - 4
  <2>1. n - 4 \in Nat /\ n - 4 <= n  BY <1>a
  <2> QED BY <2>1, <1>a, PrefixSeq
<1>2. ASSUME NEW uc
      PROVE  IsSeq(kept \o UTF8Bytes(uc)) /\ Len(kept \o UTF8Bytes(uc)) <= n
  <2>1. IsSeq(UTF8Bytes(uc)) /\ Len(UTF8Bytes(uc)) \in 1..4
    BY UTF8Short DEF Short
  <2>2. /\ IsSeq(kept \o UTF8Bytes(uc))
        /\ Len(kept \o UTF8Bytes(uc)) = Len(kept) + Len(UTF8Bytes(uc))
    BY <2>1, <1>1, ConcatSeq
  <2>3. \A a \in Nat, b \in 1..4 : a - 4 + b <= a  OBVIOUS
  <2>4. Len(kept \o UTF8Bytes(uc)) = n - 4 + Len(UTF8Bytes(uc))
    BY <2>2, <1>1, Zenon
  <2>5. n - 4 + Len(UTF8Bytes(uc)) <= n  BY <2>1, <2>3, <1>a, Zenon
  <2> QED BY <2>2, <2>4, <2>5, Zenon
<1>3. Len(kept) <= n  BY <1>a, <1>1
<1> HIDE DEF kept, uval, pair
<1>4. Ok(cut)
  BY <1>a, <1>1, <1>3 DEF Shrunk, HasFields, Fields
<1>5. ASSUME NEW e PROVE Ok(Fail(cut, e))
  BY <1>a, <1>1, <1>3 DEF Fail, Shrunk, HasFields, Fields
<1>6. ASSUME NEW m PROVE Ok([cut EXCEPT !.unicode_multi = m])
  BY <1>a, <1>1, <1>3 DEF Shrunk, HasFields, Fields
<1>7. ASSUME NEW s, IsSeq(s), Len(s) <= n
      PROVE  /\ Ok([p EXCEPT !.buffer = s])
             /\ Ok([p EXCEPT !.buffer = s, !.unicode_multi = 0])
  BY <1>a, <1>7 DEF Shrunk, HasFields, Fields
<1>8. \/ decode_unicode_char(p) = Fail(cut, "UNICODE_MISSING_LOW_SURROGATE")
      \/ decode_unicode_char(p) = [p EXCEPT !.buffer = kept \o UTF8Bytes(pair),
                                            !.unicode_multi = 0]
      \/ decode_unicode_char(p) = Fail(cut, "UNICODE_UNEXPECTED_LOW_SURROGATE")
      \/ decode_unicode_char(p) = [cut EXCEPT !.unicode_multi = uval]
      \/ decode_unicode_char(p) = [p EXCEPT !.buffer = kept \o UTF8Bytes(uval)]
  BY SMT DEF decode_unicode_char, kept, uval, pair
<1> HIDE DEF cut, Ok
<1>9. Ok(decode_unicode_char(p))
  <2>1. Ok([p EXCEPT !.buffer = kept \o UTF8Bytes(pair),
                     !.unicode_multi = 0])
    BY <1>2, <1>7
  <2>2. Ok([p EXCEPT !.buffer = kept \o UTF8Bytes(uval)])  BY <1>2, <1>7
  <2> QED BY <2>1, <2>2, <1>5, <1>6, <1>8
<1> QED BY <1>9, ShrunkRoom DEF Ok

-----------------------------------------------------------------------------
(* The actions *)

(* A callback leaves the parser alone.                                     *)
LEMMA CallbackSame ==
    ASSUME NEW p, HasFields(p), NEW type
    PROVE  /\ Same(p, do_callback(p, type))
           /\ Same(p, do_callback_withbuf(p, type))
<1>1. Same(p, do_callback(p, type))
  BY DEF do_callback, Same, HasFields, Fields
<1>2. Same(p, do_callback_withbuf(p, type))
  BY DEF do_callback_withbuf, Same, HasFields, Fields
<1> QED BY <1>1, <1>2

(* An emptied buffer fits.                                                 *)
LEMMA NothingLeft ==
    ASSUME NEW p, Room(p), NEW q, HasFields(q), q.config = p.config,
           q.stack = p.stack, q.stack_size = p.stack_size, q.buffer = <<>>,
           q.buffer_size = p.buffer_size
    PROVE  Room(q)
<1>1. Len(p.buffer) \in Nat  BY LenNat DEF Room
<1>2. IsSeq(q.buffer) /\ Len(q.buffer) <= Len(p.buffer)  BY <1>1, NoElements
<1> QED BY <1>2, ShrunkRoom DEF Shrunk

(* Giving the text in the buffer to the callback keeps the room.           *)
LEMMA DoBufferRoom ==
    ASSUME NEW p, Room(p)
    PROVE  Room(do_buffer(p))
<1> DEFINE q == IF p.type \in Texts THEN do_callback_withbuf(p, p.type) ELSE p
           r == [q EXCEPT !.buffer = <<>>]
<1>1. Room(q)
  BY CallbackSame, SameRoom DEF Room
<1> HIDE DEF q
<1>2. /\ HasFields(r) /\ r.config = q.config /\ r.stack = q.stack
      /\ r.stack_size = q.stack_size /\ r.buffer = <<>>
      /\ r.buffer_size = q.buffer_size
  BY <1>1 DEF Room, HasFields, Fields
<1> HIDE DEF r
<1>3. Room(r)  BY <1>1, <1>2, NothingLeft
<1> QED BY <1>3 DEF do_buffer, q, r

(* A character read keeps the room, and the digits of the next start anew  *)
(* (json.c 1954-1959).                                                     *)
LEMMA ActUc ==
    ASSUME NEW p, Room(p), Len(p.buffer) >= 4
    PROVE  LET q == act_uc(p)
           IN  Room(q) /\ (q.ret = "SUCCESS" => q.state \notin Digital)
<1> DEFINE q == decode_unicode_char(p)
<1>1. Room(q)  BY DecodeRoom
<1> HIDE DEF q
<1>2. ASSUME NEW s
      PROVE  /\ Same(q, [q EXCEPT !.state = s])
             /\ [q EXCEPT !.state = s].state = s
  BY <1>1 DEF Room, Same, HasFields, Fields
<1>3. CASE q.ret # "SUCCESS"
  BY <1>1, <1>3 DEF act_uc, q
<1>4. CASE q.ret = "SUCCESS"
  <2>1. act_uc(p) = [q EXCEPT !.state = IF q.unicode_multi # 0 THEN "D1"
                                                               ELSE "_S"]
    BY <1>4 DEF act_uc, q
  <2> QED BY <2>1, <1>1, <1>2, SameRoom DEF Digital
<1> QED BY <1>3, <1>4

(* So do the other actions; those that set the state themselves set none   *)
(* in which digits are expected (json.c 1961-2031).                        *)
LEMMA ActOthers ==
    ASSUME NEW p, Room(p)
    PROVE  /\ \A allowed \in BOOLEAN : Room(act_comment(p, allowed))
           /\ Room(act_ce(p)) /\ act_ce(p).state \notin Digital
           /\ Room(act_ob(p)) /\ Room(act_oe(p)) /\ Room(act_ab(p))
           /\ Room(act_ae(p))
           /\ Room(act_se(p)) /\ act_se(p).state \notin Digital
           /\ Room(act_sp(p))
           /\ act_sp(p).ret = "SUCCESS" => act_sp(p).state \notin Digital
<1>a. HasFields(p)  BY DEF Room
<1>1. \A allowed \in BOOLEAN : Room(act_comment(p, allowed))
  <2>1. Same(p, [p EXCEPT !.save_state = p.state])
    BY <1>a DEF Same, HasFields, Fields
  <2> QED BY <2>1, <1>a, FailSame, SameRoom DEF act_comment
<1>2. Room(act_ce(p)) /\ act_ce(p).state \notin Digital
  <2>1. Same(p, act_ce(p))  BY <1>a DEF act_ce, Same, HasFields, Fields
  <2>2. act_ce(p).state = IF p.save_state \in {"GO", "OK", "_O", "_K", "CO",
                                             "_V", "_A"}
                        THEN p.save_state ELSE "OK"
    BY <1>a DEF act_ce, HasFields, Fields
  <2> QED BY <2>1, <2>2, SameRoom DEF Digital
<1>3. Room(act_ob(p))
  <2> DEFINE q == state_push(do_callback(p, "OBJECT_BEGIN"), "OBJECT")
  <2>1. Room(q)  BY <1>a, CallbackSame, SameRoom, PushState
  <2> HIDE DEF q
  <2>2. Same(q, [q EXCEPT !.expecting_key = TRUE])
    BY <2>1 DEF Room, Same, HasFields, Fields
  <2>3. act_ob(p) = q \/ act_ob(p) = [q EXCEPT !.expecting_key = TRUE]
    BY DEF act_ob, q
  <2> QED BY <2>1, <2>2, <2>3, SameRoom
<1>4. Room(act_oe(p))
  <2> DEFINE q == state_pop(p, "OBJECT")
             r == do_callback(q, "OBJECT_END")
  <2>1. Room(q) /\ Room(r)
    <3>1. Room(q) BY PopState
    <3> QED BY <3>1, CallbackSame, SameRoom DEF Room
  <2> HIDE DEF q, r
  <2>2. Same(r, [r EXCEPT !.expecting_key = FALSE])
    BY <2>1 DEF Room, Same, HasFields, Fields
  <2>3. act_oe(p) = q \/ act_oe(p) = [r EXCEPT !.expecting_key = FALSE]
    BY DEF act_oe, q, r
  <2> QED BY <2>1, <2>2, <2>3, SameRoom
<1>5. Room(act_ab(p))
  BY <1>a, CallbackSame, SameRoom, PushState DEF act_ab
<1>6. Room(act_ae(p))
  <2> DEFINE q == state_pop(p, "ARRAY")
  <2>1. Room(q)  BY PopState
  <2> HIDE DEF q
  <2>2. Room(do_callback(q, "ARRAY_END"))
    BY <2>1, CallbackSame, SameRoom DEF Room
  <2> QED BY <2>1, <2>2 DEF act_ae, q
<1>7. Room(act_se(p)) /\ act_se(p).state \notin Digital
  <2> DEFINE q == do_callback_withbuf(p, IF p.expecting_key THEN "KEY"
                                                             ELSE "STRING")
             r == act_se(p)
  <2>1. Room(q)  BY <1>a, CallbackSame, SameRoom
  <2>2. r = [q EXCEPT !.buffer = <<>>,
                      !.state = IF p.expecting_key THEN "CO" ELSE "OK",
                      !.expecting_key = FALSE]
    BY DEF act_se
  <2> HIDE DEF q, r
  <2>3. /\ HasFields(r) /\ r.config = q.config /\ r.stack = q.stack
        /\ r.stack_size = q.stack_size /\ r.buffer = <<>>
        /\ r.buffer_size = q.buffer_size
        /\ r.state = IF p.expecting_key THEN "CO" ELSE "OK"
    BY <2>1, <2>2 DEF Room, HasFields, Fields
  <2>4. Room(r)  BY <2>1, <2>3, NothingLeft
  <2> QED BY <2>3, <2>4 DEF r, Digital
<1>8. /\ Room(act_sp(p))
      /\ act_sp(p).ret = "SUCCESS" => act_sp(p).state \notin Digital
  <2> DEFINE q == [p EXCEPT !.expecting_key = TRUE, !.state = "_K"]
             r == [p EXCEPT !.state = "_V"]
  <2>1. Same(p, q) /\ q.state = "_K"  BY <1>a DEF Same, HasFields, Fields
  <2>2. Same(p, r) /\ r.state = "_V"  BY <1>a DEF Same, HasFields, Fields
  <2>3. act_sp(p) \in {Fail(p, "COMMA_OUT_OF_STRUCTURE"), q, r}
    BY DEF act_sp
  <2> HIDE DEF q, r
  <2> QED BY <2>1, <2>2, <2>3, <1>a, FailSame, SameRoom DEF Digital
<1> QED BY <1>1, <1>2, <1>3, <1>4, <1>5, <1>6, <1>7, <1>8

(* Whatever action is called keeps the room.                               *)
LEMMA CalledRoom ==
    ASSUME NEW p, Room(p), NEW a \in Actions,
           a = "UC" => Len(p.buffer) >= 4
    PROVE  LET q == Called(p, a)
           IN  /\ Room(q)
               /\ a \notin DOMAIN ActionState /\ q.ret = "SUCCESS"
                      => q.state \notin Digital
<1> DEFINE Ok(q) == /\ Room(q)
                    /\ a \notin DOMAIN ActionState /\ q.ret = "SUCCESS"
                           => q.state \notin Digital
<1>a. DOMAIN ActionState = {"KS", "AB", "AE", "OB", "OE", "CB", "YB", "FA",
                            "TR", "NU", "DE", "DF", "MX", "ZX", "IX"}
  BY DEF ActionState
<1>b. /\ p.config.allow_c_comments \in BOOLEAN
      /\ p.config.allow_yaml_comments \in BOOLEAN
  BY DEF Room, json_config
<1>1. CASE a = "SP"
  <2>1. Called(p, a) = act_sp(p)  BY <1>1, Zenon DEF Called
  <2> QED BY <2>1, ActOthers
<1>2. CASE a = "AB"
  <2>1. Called(p, a) = act_ab(p)  BY <1>2, Zenon DEF Called
  <2> QED BY <2>1, <1>2, <1>a, ActOthers
<1>3. CASE a = "AE"
  <2>1. Called(p, a) = act_ae(p)  BY <1>3, Zenon DEF Called
  <2> QED BY <2>1, <1>3, <1>a, ActOthers
<1>4. CASE a = "OB"
  <2>1. Called(p, a) = act_ob(p)  BY <1>4, Zenon DEF Called
  <2> QED BY <2>1, <1>4, <1>a, ActOthers
<1>5. CASE a = "OE"
  <2>1. Called(p, a) = act_oe(p)  BY <1>5, Zenon DEF Called
  <2> QED BY <2>1, <1>5, <1>a, ActOthers
<1>6. CASE a = "CB"
  <2>1. Called(p, a) = act_comment(p, p.config.allow_c_comments)
    BY <1>6, Zenon DEF Called
  <2> QED BY <2>1, <1>6, <1>a, <1>b, ActOthers
<1>7. CASE a = "YB"
  <2>1. Called(p, a) = act_comment(p, p.config.allow_yaml_comments)
    BY <1>7, Zenon DEF Called
  <2> QED BY <2>1, <1>7, <1>a, <1>b, ActOthers
<1>8. CASE a = "CE"
  <2>1. Called(p, a) = act_ce(p)  BY <1>8, Zenon DEF Called
  <2> QED BY <2>1, ActOthers
<1>9. CASE a = "SE"
  <2>1. Called(p, a) = act_se(p)  BY <1>9, Zenon DEF Called
  <2> QED BY <2>1, ActOthers
<1>10. CASE a = "UC"
  <2>1. Called(p, a) = act_uc(p)  BY <1>10, Zenon DEF Called
  <2> QED BY <2>1, <1>10, ActUc
<1>11. CASE a \in {"KS", "FA", "TR", "NU", "DE", "DF", "MX", "ZX", "IX"}
  <2>1. Called(p, a) = p  BY <1>11, Zenon DEF Called
  <2> QED BY <2>1, <1>11, <1>a
<1>12. a \in {"SP", "AB", "AE", "OB", "OE", "CB", "YB", "CE", "SE", "UC", "KS",
              "FA", "TR", "NU", "DE", "DF", "MX", "ZX", "IX"}
  BY DEF Actions
<1> HIDE DEF Ok
<1>13. Ok(Called(p, a))
  BY <1>1, <1>2, <1>3, <1>4, <1>5, <1>6, <1>7, <1>8, <1>9, <1>10, <1>11, <1>12
     DEF Ok
<1> QED BY <1>13 DEF Ok

(* After an action no digits are expected (json.c 2061-2074).              *)
LEMMA DoActionRoom ==
    ASSUME NEW p, Room(p), NEW a \in Actions,
           a = "UC" => Len(p.buffer) >= 4
    PROVE  LET q == do_action(p, a)
           IN  Room(q) /\ (q.ret = "SUCCESS" => q.state \notin Digital)
<1> DEFINE q == Called(IF a \in DoBuffer THEN do_buffer(p) ELSE p, a)
           state == IF a \in DOMAIN ActionState THEN ActionState[a] ELSE q.state
           type  == IF a \in DOMAIN ActionType THEN ActionType[a] ELSE "NONE"
           r == [q EXCEPT !.state = state, !.type = type]
<1>1. /\ Room(q)
      /\ a \notin DOMAIN ActionState /\ q.ret = "SUCCESS"
             => q.state \notin Digital
  <2>1. CASE a \in DoBuffer
    <3>1. a # "UC" /\ Room(do_buffer(p))  BY <2>1, DoBufferRoom DEF DoBuffer
    <3> QED BY <2>1, <3>1, CalledRoom
  <2>2. CASE a \notin DoBuffer
    BY <2>2, CalledRoom
  <2> QED BY <2>1, <2>2
<1>2. \A b \in DOMAIN ActionState : ActionState[b] \notin Digital
  BY DEF ActionState, Digital
<1>3. do_action(p, a) = IF q.ret # "SUCCESS" THEN q
                        ELSE [q EXCEPT !.state = IF a \in DOMAIN ActionState
                                                 THEN ActionState[a] ELSE @,
                                       !.type = type]
  BY DEF do_action
<1> HIDE DEF q, type
<1>4. r = [q EXCEPT !.state = IF a \in DOMAIN ActionState
                              THEN ActionState[a] ELSE @,
                    !.type = type]
  OBVIOUS
<1>5. Same(q, r) /\ r.state = state
  BY <1>1 DEF Room, Same, HasFields, Fields
<1> HIDE DEF r
<1>6. Room(r)  BY <1>1, <1>5, SameRoom
<1>7. q.ret = "SUCCESS" => r.state \notin Digital  BY <1>1, <1>2, <1>5
<1>8. do_action(p, a) = IF q.ret # "SUCCESS" THEN q ELSE r  BY <1>3, <1>4
<1> HIDE DEF state
<1> QED BY <1>1, <1>6, <1>7, <1>8

(* Keeping a byte keeps the room (json.c 2191-2199).                       *)
LEMMA KeptRoom ==
    ASSUME NEW p, Room(p), NEW ch, NEW class
    PROVE  LET q == Kept(p, ch, class)
           IN  /\ Room(q)
               /\ q.ret = "SUCCESS"
                  /\ buffer_policy_table(p.state, class) = "append"
                      => Len(q.buffer) = Len(p.buffer) + 1
BY PushBuffer DEF Kept, buffer_push_escape

-----------------------------------------------------------------------------
(* The tables and the moves *)

(* Only hexadecimal digits lead from one state of \uXXXX to the next, and  *)
(* none of these states can be entered in the middle.                      *)
LEMMA Moves ==
    \A m \in Table :
        /\ m[3] = "U2" => m[1] = "U1" /\ m[2] = Hex
        /\ m[3] = "U3" => m[1] = "U2" /\ m[2] = Hex
        /\ m[3] = "U4" => m[1] = "U3" /\ m[2] = Hex
        /\ m[3] = "UC" => m[1] = "U4" /\ m[2] = Hex
<1> DEFINE P(m) ==
        /\ m[3] = "U2" => m[1] = "U1" /\ m[2] = Hex
        /\ m[3] = "U3" => m[1] = "U2" /\ m[2] = Hex
        /\ m[3] = "U4" => m[1] = "U3" /\ m[2] = Hex
        /\ m[3] = "UC" => m[1] = "U4" /\ m[2] = Hex
<1>1. \A m \in StartRows : P(m)    BY DEF StartRows, Blank, Closers, Move
<1>2. \A m \in ObjectRows : P(m)   BY DEF ObjectRows, Blank, Move
<1>3. \A m \in ValueRows : P(m)    BY DEF ValueRows, Blank, Values, Move
<1>4. \A m \in StringRows : P(m)   BY DEF StringRows, Move
<1>5. \A m \in UnicodeRows : P(m)  BY DEF UnicodeRows, Move
<1>6. \A m \in IntegerRows : P(m)  BY DEF IntegerRows, Blank, Closers, Move
<1>7. \A m \in RealRows : P(m)     BY DEF RealRows, Blank, Closers, Move
<1>8. \A m \in TrueRows \cup FalseRows \cup NullRows : P(m)
  BY DEF TrueRows, FalseRows, NullRows, Move
<1>9. \A m \in CommentRows \cup OtherRows : P(m)
  BY DEF CommentRows, OtherRows, Move
<1> HIDE DEF P
<1>10. \A m \in Table : P(m)
  BY <1>1, <1>2, <1>3, <1>4, <1>5, <1>6, <1>7, <1>8, <1>9 DEF Table
<1> QED BY <1>10 DEF P

(* What the table says for a state and a class is a move of it.            *)
LEMMA TableLookup ==
    ASSUME NEW s, NEW c, state_transition_table(s, c) # "__"
    PROVE  \E m \in Table :
               m[1] = s /\ c \in m[2] /\ m[3] = state_transition_table(s, c)
BY DEF state_transition_table

(* Those digits are kept in the buffer.                                    *)
LEMMA HexKept ==
    \A s \in {"U1", "U2", "U3", "U4"}, c \in Hex :
        buffer_policy_table(s, c) = "append"
BY DEF buffer_policy_table, Buffered

(* An error keeps the invariant: no state after it matters.                *)
LEMMA FailInv ==
    ASSUME NEW p, Room(p), NEW e, e # "SUCCESS"
    PROVE  ParserInv(Fail(p, e))
<1>1. Room(Fail(p, e)) /\ Fail(p, e).ret = e
  BY FailSame, SameRoom DEF Room
<1> QED BY <1>1 DEF ParserInv, HasDigits

(* So does a move of the table with all it calls.                          *)
LEMMA MovedInv ==
    ASSUME NEW p, ParserInv(p), p.ret = "SUCCESS", NEW ch, NEW class
    PROVE  ParserInv(Moved(p, ch, class))
<1> DEFINE next == state_transition_table(p.state, class)
           q    == Kept(p, ch, class)
           r    == [q EXCEPT !.state = next]
           From(s) == p.state = s /\ class \in Hex
<1>a. Room(p) /\ Len(p.buffer) \in Nat  BY LenNat DEF ParserInv, Room
<1>1. /\ Room(q)
      /\ buffer_policy_table(p.state, class) = "append" /\ q.ret = "SUCCESS"
             => Len(q.buffer) = Len(p.buffer) + 1
  BY <1>a, KeptRoom
<1>2. /\ next = "U2" => From("U1")
      /\ next = "U3" => From("U2")
      /\ next = "U4" => From("U3")
      /\ next = "UC" => From("U4")
  <2> HIDE DEF next
  <2>1. ASSUME next # "__"
        PROVE  \E m \in Table : m[1] = p.state /\ class \in m[2] /\ m[3] = next
    BY <2>1, TableLookup DEF next
  <2> QED BY <2>1, Moves
<1>3. ASSUME q.ret = "SUCCESS"
      PROVE  /\ next = "U2" => Len(q.buffer) >= 1
             /\ next = "U3" => Len(q.buffer) >= 2
             /\ next = "U4" => Len(q.buffer) >= 3
             /\ next = "UC" => Len(q.buffer) >= 4
  <2>1. (\E s \in {"U1", "U2", "U3", "U4"} : From(s))
            => Len(q.buffer) = Len(p.buffer) + 1
    BY <1>1, <1>3, HexKept
  <2>2. /\ p.state = "U2" => Len(p.buffer) >= 1
        /\ p.state = "U3" => Len(p.buffer) >= 2
        /\ p.state = "U4" => Len(p.buffer) >= 3
    BY DEF ParserInv, HasDigits
  <2>3. Len(q.buffer) \in Nat  BY <1>1, LenNat DEF Room
  <2> DEFINE before == Len(p.buffer)
             after  == Len(q.buffer)
  <2>4. before \in Nat /\ after \in Nat  BY <1>a, <2>3
  <2> HIDE DEF next, q
  <2>5. next = "U2" => after = before + 1  BY <1>2, <2>1
  <2>6. next = "U3" => after = before + 1 /\ before >= 1  BY <1>2, <2>1, <2>2
  <2>7. next = "U4" => after = before + 1 /\ before >= 2  BY <1>2, <2>1, <2>2
  <2>8. next = "UC" => after = before + 1 /\ before >= 3  BY <1>2, <2>1, <2>2
  <2> HIDE DEF before, after
  <2>9. /\ next = "U2" => after >= 1
        /\ next = "U3" => after >= 2
        /\ next = "U4" => after >= 3
        /\ next = "UC" => after >= 4
    BY <2>4, <2>5, <2>6, <2>7, <2>8
  <2> QED BY <2>9 DEF after
<1> HIDE DEF next, q
<1>4. CASE next = "__"
  <2>1. Moved(p, ch, class) = Fail(p, "UNEXPECTED_CHAR")
    BY <1>4 DEF Moved, next
  <2> QED BY <2>1, <1>a, FailInv
<1>5. CASE next # "__" /\ q.ret # "SUCCESS"
  <2>1. Moved(p, ch, class) = q  BY <1>5 DEF Moved, next, q
  <2> QED BY <2>1, <1>1, <1>5 DEF ParserInv, HasDigits
<1>6. CASE next # "__" /\ q.ret = "SUCCESS" /\ next \in Actions
  <2>1. Moved(p, ch, class) = do_action(q, next)
    BY <1>6 DEF Moved, next, q, IS_STATE_ACTION
  <2>2. /\ Room(do_action(q, next))
        /\ do_action(q, next).ret = "SUCCESS"
               => do_action(q, next).state \notin Digital
    BY <1>1, <1>3, <1>6, DoActionRoom
  <2> QED BY <2>1, <2>2 DEF ParserInv, HasDigits, Digital
<1>7. CASE next # "__" /\ q.ret = "SUCCESS" /\ next \notin Actions
  <2>1. Moved(p, ch, class) = r
    BY <1>7 DEF Moved, next, q, IS_STATE_ACTION
  <2>2. Same(q, r) /\ r.state = next
    BY <1>1 DEF Room, Same, HasFields, Fields
  <2> HIDE DEF r
  <2>3. Room(r) /\ r.buffer = q.buffer  BY <2>2, <1>1, SameRoom DEF Same
  <2> QED BY <2>1, <2>2, <2>3, <1>3, <1>7 DEF ParserInv, HasDigits
<1> QED BY <1>4, <1>5, <1>6, <1>7

(* So does a byte, whatever it is (json.c 2145-2213).                      *)
LEMMA CharInv ==
    ASSUME NEW p, ParserInv(p), p.ret = "SUCCESS", NEW ch
    PROVE  ParserInv(json_parser_char(p, ch))
<1>a. HasFields(p) /\ Room(p)  BY DEF ParserInv, Room
<1>1. ASSUME NEW n
      PROVE  LET q == [p EXCEPT !.utf8_multibyte_left = n]
             IN  ParserInv(q) /\ q.ret = "SUCCESS" /\ HasFields(q)
  <2> DEFINE q == [p EXCEPT !.utf8_multibyte_left = n]
  <2>1. Same(p, q) /\ q.ret = p.ret /\ q.state = p.state
    BY <1>a DEF Same, HasFields, Fields
  <2> HIDE DEF q
  <2>2. Room(q) /\ q.buffer = p.buffer /\ HasFields(q)
    BY <1>a, <2>1, SameRoom DEF Same
  <2>3. ParserInv(q)  BY <2>1, <2>2 DEF ParserInv, HasDigits
  <2> QED BY <2>1, <2>2, <2>3 DEF q
<1>2. CASE p.utf8_multibyte_left > 0
  <2> DEFINE q == [p EXCEPT !.utf8_multibyte_left = @ - 1]
  <2>0. q = [p EXCEPT !.utf8_multibyte_left = p.utf8_multibyte_left - 1]
    OBVIOUS
  <2>1. ParserInv(q) /\ q.ret = "SUCCESS"  BY <2>0, <1>1
  <2>2. \/ json_parser_char(p, ch) = Fail(p, "UTF8")
        \/ json_parser_char(p, ch) = Moved(q, ch, "OTHER")
    BY <1>2 DEF json_parser_char
  <2> HIDE DEF q
  <2>3. ParserInv(Moved(q, ch, "OTHER"))  BY <2>1, MovedInv
  <2> QED BY <2>2, <2>3, <1>a, FailInv
<1>3. CASE ~ (p.utf8_multibyte_left > 0)
  <2> DEFINE left == utf8_header_table(ch)
             q    == [p EXCEPT !.utf8_multibyte_left = left]
  <2>1. ParserInv(q) /\ q.ret = "SUCCESS" /\ HasFields(q)  BY <1>1
  <2>2. \/ json_parser_char(p, ch) = Fail(q, "UTF8")
        \/ json_parser_char(p, ch) = Moved(q, ch, "OTHER")
        \/ json_parser_char(p, ch) = Fail(q, "BAD_CHAR")
        \/ json_parser_char(p, ch) = Moved(q, ch, character_class(ch))
    BY <1>3 DEF json_parser_char
  <2> HIDE DEF q
  <2>3. \A class : ParserInv(Moved(q, ch, class))  BY <2>1, MovedInv
  <2>4. \A e : e # "SUCCESS" => ParserInv(Fail(q, e))
    BY <2>1, FailInv DEF ParserInv
  <2> QED BY <2>2, <2>3, <2>4
<1> QED BY <1>2, <1>3

-----------------------------------------------------------------------------
(* Documents: what the invariant says of the states, by their kind         *)

Modes == {"ARRAY", "OBJECT"}

StringStates  == {"_S", "E0", "U1", "U2", "U3", "U4", "D1", "D2"}
NumberStates  == {"M0", "Z0", "I0", "R1", "R2", "X1", "X2", "X3"}
LiteralStates == {"T1", "T2", "T3", "F1", "F2", "F3", "F4", "N1", "N2", "N3"}
CommentStates == {"C1", "C2", "C3", "Y1"}
BlankStates   == {"GO", "_O", "_K", "CO", "_V", "_A"}

States == StringStates \cup NumberStates \cup LiteralStates \cup CommentStates
             \cup BlankStates \cup {"OK"}

(* The types of a value whose text is still in the buffer. *)
Scalars == {"FALSE", "TRUE", "NULL", "FLOAT", "INT"}

Top(stack) == stack[Len(stack)]

After(calls) == IF calls = <<>> THEN "NONE" ELSE calls[Len(calls)].type

InObject(p) == p.stack # <<>> /\ Top(p.stack) = "OBJECT"
InArray(p)  == p.stack # <<>> /\ Top(p.stack) = "ARRAY"

KeyFits(p)   == InObject(p) /\ After(p.calls) # "KEY"
ValueFits(p) == InArray(p) \/ (InObject(p) /\ After(p.calls) = "KEY")

(* The state, or the one in which a comment ends. *)
Resumed(p) == IF p.state \notin CommentStates THEN p.state
              ELSE IF p.save_state \in BlankStates THEN p.save_state
              ELSE "OK"

(* What there is between the callback, the stack and a state in which no   *)
(* text is waiting in the buffer, or one that is.                          *)
Position(p, s) ==
    /\ (s \in BlankStates \/ p.state \in CommentStates) => p.type = "NONE"
    /\ s = "GO" => p.calls = <<>> /\ p.stack = <<>>
    /\ s \in {"_O", "_K"} => KeyFits(p)
    /\ s = "CO" => InObject(p) /\ After(p.calls) = "KEY"
    /\ s = "_A" => InArray(p)
    /\ s \in {"_V"} \cup NumberStates \cup LiteralStates => ValueFits(p)
    /\ s \in NumberStates => p.type \in Scalars
    /\ s \in StringStates => IF p.expecting_key THEN KeyFits(p) ELSE ValueFits(p)
    /\ s = "OK" => IF p.type \in Scalars THEN ValueFits(p)
                   ELSE /\ p.type = "NONE"
                        /\ p.calls # <<>> /\ After(p.calls) # "KEY"
    /\ s \in {"_O", "_K"} => p.expecting_key
    /\ s \notin {"_O", "_K"} \cup StringStates => ~p.expecting_key

Nested(calls) ==
    \A i \in DOMAIN calls : MayFollow(SubSeq(calls, 1, i - 1), calls[i].type)

(* What is true in any case, and what is true until an error. *)
Core(p) ==
    /\ HasFields(p)
    /\ p.expecting_key \in BOOLEAN
    /\ IsSeq(p.calls) /\ Nested(p.calls)

Whole(p) == Core(p) /\ p.stack \in Seq(Modes) /\ p.stack = Open(p.calls)

NestInv(p) ==
    /\ Core(p)
    /\ p.ret = "SUCCESS" =>
           Whole(p) /\ p.state \in States /\ Position(p, Resumed(p))

(* q differs from p in nothing a document depends on. *)
SameDoc(p, q) ==
    /\ HasFields(q)
    /\ q.calls = p.calls /\ q.stack = p.stack
    /\ q.expecting_key = p.expecting_key
    /\ q.type = p.type /\ q.save_state = p.save_state

-----------------------------------------------------------------------------
(* What was opened and not closed *)

OpenSteps(f, calls) ==
    /\ f \in [0..Len(calls) -> Seq(Modes)]
    /\ f[0] = <<>>
    /\ \A n \in 1..Len(calls) : f[n] = OpenAfter(f[n - 1], calls[n].type)

(* Closing more than was opened changes nothing.                           *)
LEMMA OpenAfterType ==
    ASSUME NEW open \in Seq(Modes), NEW type
    PROVE  OpenAfter(open, type) \in Seq(Modes)
<1>1. Append(open, "ARRAY") \in Seq(Modes) /\ Append(open, "OBJECT") \in Seq(Modes)
  BY DEF Modes
<1>2. Front(open) \in Seq(Modes)
  <2>1. CASE open = <<>>
    <3>1. Front(open) = <<>>
      BY <2>1 DEF Front
    <3> QED BY <3>1
  <2>2. CASE open # <<>>
    <3>1. Len(open) \in Nat /\ Len(open) > 0
      BY <2>2
    <3>2. Len(open) - 1 \in Nat /\ Len(open) - 1 <= Len(open)
      BY <3>1
    <3> QED BY <3>1, <3>2 DEF Front
  <2> QED BY <2>1, <2>2
<1> QED BY <1>1, <1>2 DEF OpenAfter

(* The recursion that Open is defined by has a solution.                   *)
LEMMA OpenExists ==
    ASSUME NEW calls, IsSeq(calls)
    PROVE  \E f : OpenSteps(f, calls) /\ Open(calls) = f[Len(calls)]
<1> DEFINE N == Len(calls)
           S == Seq(Modes)
           step == [p \in Nat \X S |-> OpenAfter(p[2], calls[p[1] + 1].type)]
           Rule(h) == [n \in 0..N |-> IF n = 0 THEN <<>>
                                      ELSE OpenAfter(h[n - 1], calls[n].type)]
           open == CHOOSE h : h = Rule(h)
<1>0. N \in Nat
  BY LenNat
<1>1. <<>> \in S
  OBVIOUS
<1>2. step \in [Nat \X S -> S]
  BY OpenAfterType
<1>3. PICK g \in [Nat -> S] : Recurs(g, <<>>, step)
  <2> HIDE DEF step, S
  <2> QED BY <1>1, <1>2, Recursion
<1>4. g[0] = <<>> /\ \A n \in Nat : g[n + 1] = step[<<n, g[n]>>]
  <2> HIDE DEF step, S
  <2> QED BY <1>3 DEF Recurs
<1>5. ASSUME NEW n \in Nat
      PROVE  g[n + 1] = OpenAfter(g[n], calls[n + 1].type)
  <2>1. g[n] \in S /\ <<n, g[n]>> \in Nat \X S
    <3> HIDE DEF S
    <3> QED BY <1>3
  <2>2. step[<<n, g[n]>>] = OpenAfter(g[n], calls[n + 1].type)
    <3> HIDE DEF S
    <3> QED BY <2>1
  <2> QED BY <1>4, <2>2
<1> HIDE DEF step
<1> DEFINE f == [n \in 0..N |-> g[n]]
<1>6. ASSUME NEW n \in 0..N
      PROVE  f[n] = IF n = 0 THEN <<>> ELSE OpenAfter(f[n - 1], calls[n].type)
  <2>1. CASE n = 0
    BY <1>4, <2>1
  <2>2. CASE n # 0
    <3>1. n - 1 \in Nat /\ n - 1 \in 0..N /\ (n - 1) + 1 = n
      BY <1>0, <2>2
    <3>2. f[n] = g[n] /\ f[n - 1] = g[n - 1]
      BY <3>1
    <3>3. g[n] = OpenAfter(g[n - 1], calls[n].type)
      <4>1. g[(n - 1) + 1] = OpenAfter(g[n - 1], calls[(n - 1) + 1].type)
        BY <1>5, <3>1
      <4> QED BY <3>1, <4>1
    <3> HIDE DEF f
    <3> QED BY <2>2, <3>2, <3>3
  <2> QED BY <2>1, <2>2
<1>7. f = Rule(f)
  <2>1. f = [n \in 0..N |-> f[n]]
    OBVIOUS
  <2> HIDE DEF f
  <2> QED BY <1>6, <2>1
<1>8. open = Rule(open)
  <2>1. \E h : h = Rule(h)
    <3> HIDE DEF f, Rule
    <3> QED BY <1>7
  <2> HIDE DEF Rule
  <2> QED BY <2>1, Zenon
<1>9. Open(calls) = open[N]
  BY Zenon DEF Open
<1> HIDE DEF open
<1>10. /\ DOMAIN open = 0..N
       /\ open = [n \in 0..N |-> open[n]]
       /\ \A n \in 0..N : open[n] = IF n = 0 THEN <<>>
                                   ELSE OpenAfter(open[n - 1], calls[n].type)
  <2>1. DOMAIN open = 0..N /\ open = [n \in 0..N |-> open[n]]
    BY <1>8
  <2>2. ASSUME NEW n \in 0..N
        PROVE  open[n] = IF n = 0 THEN <<>>
                         ELSE OpenAfter(open[n - 1], calls[n].type)
    BY <1>8
  <2> QED BY <2>1, <2>2
<1>11. open[0] = <<>>
  <2>1. 0 \in 0..N
    BY <1>0
  <2> QED BY <1>10, <2>1
<1>12. ASSUME NEW n \in 1..N PROVE open[n] = OpenAfter(open[n - 1], calls[n].type)
  <2>1. n \in 0..N /\ n # 0
    BY <1>0
  <2> QED BY <1>10, <2>1
<1> DEFINE P == {n \in Nat : n <= N => open[n] \in S}
<1>13. 0 \in P
  BY <1>1, <1>11
<1>14. ASSUME NEW n \in Nat, n \in P PROVE n + 1 \in P
  <2> SUFFICES ASSUME n + 1 <= N PROVE open[n + 1] \in S
    OBVIOUS
  <2>1. n + 1 \in 1..N /\ (n + 1) - 1 = n /\ open[n] \in S
    BY <1>0, <1>14
  <2>2. open[n + 1] = OpenAfter(open[n], calls[n + 1].type)
    BY <1>12, <2>1
  <2> QED BY <2>1, <2>2, OpenAfterType
<1>15. \A n \in Nat : n \in P
  <2> HIDE DEF P
  <2> QED BY <1>13, <1>14, Induction
<1>16. open \in [0..N -> S]
  <2>1. \A n \in 0..N : open[n] \in S
    BY <1>0, <1>15
  <2> HIDE DEF S
  <2> QED BY <1>10, <2>1
<1>17. OpenSteps(open, calls)
  BY <1>11, <1>12, <1>16 DEF OpenSteps
<1> QED BY <1>9, <1>17

(* It has no other.                                                        *)
LEMMA OpenUnique ==
    ASSUME NEW calls, IsSeq(calls), NEW more, IsSeq(more),
           Len(calls) <= Len(more),
           \A n \in 1..Len(calls) : more[n] = calls[n],
           NEW f, OpenSteps(f, calls), NEW g, OpenSteps(g, more)
    PROVE  f[Len(calls)] = g[Len(calls)]
<1> DEFINE N == Len(calls)
           P == {n \in Nat : n <= N => f[n] = g[n]}
<1>0. N \in Nat /\ Len(more) \in Nat
  BY LenNat
<1>1. 0 \in P
  BY DEF OpenSteps
<1>2. ASSUME NEW n \in Nat, n \in P PROVE n + 1 \in P
  <2> SUFFICES ASSUME n + 1 <= N PROVE f[n + 1] = g[n + 1]
    OBVIOUS
  <2>1. n + 1 \in 1..N /\ n + 1 \in 1..Len(more) /\ (n + 1) - 1 = n /\ f[n] = g[n]
    BY <1>0, <1>2
  <2>2. f[n + 1] = OpenAfter(f[n], calls[n + 1].type)
    BY <2>1 DEF OpenSteps
  <2>3. g[n + 1] = OpenAfter(g[n], more[n + 1].type)
    BY <2>1 DEF OpenSteps
  <2> QED BY <2>1, <2>2, <2>3
<1>3. \A n \in Nat : n \in P
  <2> HIDE DEF P
  <2> QED BY <1>1, <1>2, Induction
<1> QED BY <1>0, <1>3

(* Before the first event nothing is open.                                 *)
LEMMA OpenNone == Open(<<>>) = <<>>
<1>1. IsSeq(<<>>) /\ Len(<<>>) = 0
  BY NoElements
<1>2. PICK f : OpenSteps(f, <<>>) /\ Open(<<>>) = f[Len(<<>>)]
  BY <1>1, OpenExists
<1> QED BY <1>1, <1>2 DEF OpenSteps

(* One more event opens or closes one structure or none.                   *)
LEMMA OpenAppend ==
    ASSUME NEW calls, IsSeq(calls), NEW e
    PROVE  /\ Open(calls) \in Seq(Modes)
           /\ Open(Append(calls, e)) = OpenAfter(Open(calls), e.type)
<1> DEFINE more == Append(calls, e)
           N    == Len(calls)
<1>1. PICK S : calls \in Seq(S)
  BY DEF IsSeq
<1>2. /\ N \in Nat /\ IsSeq(more) /\ Len(more) = N + 1
      /\ more[N + 1] = e
      /\ \A n \in 1..N : more[n] = calls[n]
  BY <1>1, AppendSeq, LenNat
<1> HIDE DEF more
<1>3. PICK f : OpenSteps(f, calls) /\ Open(calls) = f[N]
  BY OpenExists
<1>4. PICK g : OpenSteps(g, more) /\ Open(more) = g[Len(more)]
  BY <1>2, OpenExists
<1>5. f[N] = g[N]
  BY <1>2, <1>3, <1>4, OpenUnique
<1>6. g[N + 1] = OpenAfter(g[N], e.type)
  <2>1. N + 1 \in 1..Len(more) /\ (N + 1) - 1 = N
    BY <1>2
  <2>2. g[N + 1] = OpenAfter(g[(N + 1) - 1], more[N + 1].type)
    BY <1>4, <2>1 DEF OpenSteps
  <2> QED BY <1>2, <2>1, <2>2
<1>7. f[N] \in Seq(Modes)
  BY <1>2, <1>3 DEF OpenSteps
<1> QED BY <1>2, <1>3, <1>4, <1>5, <1>6, <1>7 DEF more

(* An event that may come next leaves the calls well nested.               *)
LEMMA NestedAppend ==
    ASSUME NEW calls, IsSeq(calls), Nested(calls), NEW e, MayFollow(calls, e.type)
    PROVE  Nested(Append(calls, e))
<1> DEFINE more == Append(calls, e)
           N    == Len(calls)
<1>1. PICK S : calls \in Seq(S)
  BY DEF IsSeq
<1>2. calls \in Seq(S \cup {e}) /\ N \in Nat
  BY <1>1
<1>3. /\ more \in Seq(S \cup {e}) /\ Len(more) = N + 1
      /\ DOMAIN more = 1..N+1 /\ DOMAIN calls = 1..N
      /\ more[N + 1] = e
      /\ \A n \in 1..N : more[n] = calls[n]
  BY <1>2
<1>4. ASSUME NEW i \in 1..N+1
      PROVE  SubSeq(more, 1, i - 1) = SubSeq(calls, 1, i - 1)
  <2>1. i - 1 \in Nat /\ i - 1 <= N /\ i - 1 <= N + 1
    BY <1>2
  <2>2. /\ SubSeq(more, 1, i - 1) \in Seq(S \cup {e})
        /\ Len(SubSeq(more, 1, i - 1)) = i - 1
        /\ \A k \in 1..i-1 : SubSeq(more, 1, i - 1)[k] = more[k]
    <3> HIDE DEF more
    <3> QED BY <1>2, <1>3, <2>1
  <2>3. /\ SubSeq(calls, 1, i - 1) \in Seq(S \cup {e})
        /\ Len(SubSeq(calls, 1, i - 1)) = i - 1
        /\ \A k \in 1..i-1 : SubSeq(calls, 1, i - 1)[k] = calls[k]
    BY <1>2, <2>1
  <2>4. \A k \in 1..i-1 : more[k] = calls[k]
    BY <1>2, <1>3
  <2> HIDE DEF more
  <2> QED BY <2>1, <2>2, <2>3, <2>4, SeqEqual
<1>5. SubSeq(calls, 1, N) = calls
  BY <1>2
<1>6. ASSUME NEW i \in 1..N+1
      PROVE  MayFollow(SubSeq(more, 1, i - 1), more[i].type)
  <2>1. CASE i = N + 1
    <3>1. i - 1 = N
      BY <1>2, <2>1
    <3> HIDE DEF more
    <3> QED BY <1>3, <1>4, <1>5, <2>1, <3>1
  <2>2. CASE i # N + 1
    <3>1. i \in 1..N
      BY <1>2, <2>2
    <3> HIDE DEF more
    <3> QED BY <1>3, <1>4, <3>1 DEF Nested
  <2> QED BY <2>1, <2>2
<1> HIDE DEF more
<1> QED BY <1>3, <1>6 DEF Nested, more

-----------------------------------------------------------------------------
(* The actions and the document *)

(* An error is nothing to the document.                                    *)
LEMMA FailDoc ==
    ASSUME NEW p, HasFields(p), NEW e
    PROVE  SameDoc(p, Fail(p, e)) /\ Fail(p, e).ret = e
BY DEF Fail, SameDoc, HasFields, Fields

(* After an error only the calls matter. *)
LEMMA BrokenNest ==
    ASSUME NEW p, Core(p), NEW q, HasFields(q), q.calls = p.calls,
           q.expecting_key = p.expecting_key, q.ret # "SUCCESS"
    PROVE  NestInv(q)
BY DEF NestInv, Core

(* Which events may come next where. *)
LEMMA Fits ==
    ASSUME NEW p, Whole(p)
    PROVE  /\ ValueFits(p) =>
                 \A type \in Scalars \cup Begins \cup {"STRING"} :
                     MayFollow(p.calls, type)
           /\ KeyFits(p) => /\ MayFollow(p.calls, "KEY")
                            /\ MayFollow(p.calls, "OBJECT_END")
           /\ InArray(p) => MayFollow(p.calls, "ARRAY_END")
           /\ p.calls = <<>> => \A type \in Begins : MayFollow(p.calls, type)
<1> DEFINE open  == Open(p.calls)
           after == IF p.calls = <<>> THEN "NONE" ELSE Last(p.calls).type
<1>1. p.stack = open /\ after = After(p.calls)
  BY DEF Whole, After, Last
<1>2. ASSUME NEW type
      PROVE  MayFollow(p.calls, type) =
               IF open = <<>> THEN p.calls = <<>> /\ type \in Begins
               ELSE CASE type = "ARRAY_END" -> Last(open) = "ARRAY"
                      [] type \in {"OBJECT_END", "KEY"} ->
                             Last(open) = "OBJECT" /\ after # "KEY"
                      [] OTHER -> Last(open) = "ARRAY" \/ after = "KEY"
  BY DEF MayFollow
<1>3. Last(open) = Top(open)
  BY DEF Last, Top
<1>4. p.calls = <<>> => open = <<>>
  BY OpenNone
<1> HIDE DEF open, after
<1>5. ASSUME ValueFits(p), NEW type \in Scalars \cup Begins \cup {"STRING"}
      PROVE  MayFollow(p.calls, type)
  <2>1. open # <<>> /\ (Last(open) = "ARRAY" \/ after = "KEY")
    BY <1>1, <1>3, <1>5 DEF ValueFits, InArray, InObject
  <2>2. type \notin {"ARRAY_END", "OBJECT_END", "KEY"}
    BY DEF Scalars, Begins
  <2> QED BY <1>2, <2>1, <2>2
<1>6. ASSUME KeyFits(p)
      PROVE  MayFollow(p.calls, "KEY") /\ MayFollow(p.calls, "OBJECT_END")
  BY <1>1, <1>2, <1>3, <1>6 DEF KeyFits, InObject
<1>7. ASSUME InArray(p)
      PROVE  MayFollow(p.calls, "ARRAY_END")
  BY <1>1, <1>2, <1>3, <1>7 DEF InArray
<1>8. ASSUME p.calls = <<>>, NEW type \in Begins
      PROVE  MayFollow(p.calls, type)
  BY <1>2, <1>4, <1>8
<1> QED BY <1>5, <1>6, <1>7, <1>8

(* One more event for the callback. *)
LEMMA OneMore ==
    ASSUME NEW p, Whole(p), NEW e, MayFollow(p.calls, e.type),
           NEW q, HasFields(q), q.calls = Append(p.calls, e),
           q.expecting_key \in BOOLEAN
    PROVE  /\ Core(q) /\ q.calls # <<>> /\ After(q.calls) = e.type
           /\ Open(q.calls) = OpenAfter(p.stack, e.type)
           /\ Open(q.calls) \in Seq(Modes)
<1>1. PICK S : p.calls \in Seq(S)
  BY DEF IsSeq, Whole, Core
<1>2. Len(q.calls) = Len(p.calls) + 1 /\ q.calls[Len(q.calls)] = e
      /\ IsSeq(q.calls) /\ Len(p.calls) \in Nat
  BY <1>1, AppendSeq DEF Whole, Core
<1>3. q.calls # <<>>
  BY <1>2, NoElements
<1>4. Nested(q.calls)
  BY NestedAppend DEF Whole, Core
<1>5. Open(q.calls) = OpenAfter(p.stack, e.type) /\ p.stack \in Seq(Modes)
  BY OpenAppend DEF Whole, Core
<1>6. OpenAfter(p.stack, e.type) \in Seq(Modes)
  BY <1>5, OpenAfterType
<1> QED BY <1>2, <1>3, <1>4, <1>5, <1>6 DEF Core, After

(* An event has its type.                                                  *)
LEMMA EventType == \A type, data : Event(type, data).type = type
BY DEF Event

(* Giving the callback the text that waits in the buffer (json.c           *)
(* 1845-1860).                                                             *)
LEMMA BufferDoc ==
    ASSUME NEW p, Whole(p), p.type \in Scalars \cup {"NONE"},
           p.type \in Scalars => ValueFits(p)
    PROVE  LET q == do_buffer(p)
           IN  /\ Whole(q) /\ q.stack = p.stack
               /\ q.expecting_key = p.expecting_key
               /\ q.state = p.state /\ q.save_state = p.save_state
               /\ q.config = p.config /\ q.ret = p.ret
               /\ IF p.type \in Scalars
                  THEN q.calls # <<>> /\ After(q.calls) \notin {"KEY"}
                  ELSE q.calls = p.calls
<1> DEFINE q == do_buffer(p)
           c == do_callback_withbuf(p, p.type)
<1>0. HasFields(p)
  BY DEF Whole, Core
<1>1. CASE p.type = "NONE"
  <2>1. p.type \notin Texts /\ p.type \notin Scalars
    BY <1>1 DEF Texts, Scalars
  <2>2. q = [p EXCEPT !.buffer = <<>>]
    BY <2>1 DEF do_buffer
  <2>3. /\ HasFields(q) /\ q.calls = p.calls /\ q.stack = p.stack
        /\ q.expecting_key = p.expecting_key /\ q.state = p.state
        /\ q.save_state = p.save_state /\ q.ret = p.ret /\ q.config = p.config
    BY <1>0, <2>2 DEF HasFields, Fields
  <2> HIDE DEF q
  <2>4. Whole(q)
    BY <2>3 DEF Whole, Core
  <2> QED BY <2>1, <2>3, <2>4 DEF q
<1>2. CASE p.type \in Scalars
  <2>1. p.type \in Texts
    BY <1>2 DEF Texts, Scalars
  <2>2. q = [c EXCEPT !.buffer = <<>>]
    BY <2>1 DEF do_buffer
  <2> DEFINE e == Event(p.type, p.buffer)
  <2>3. /\ HasFields(c) /\ c.calls = Append(p.calls, e) /\ c.stack = p.stack
        /\ c.expecting_key = p.expecting_key /\ c.state = p.state
        /\ c.save_state = p.save_state /\ c.ret = p.ret /\ c.config = p.config
    BY <1>0 DEF do_callback_withbuf, HasFields, Fields
  <2> HIDE DEF c
  <2>4. /\ HasFields(q) /\ q.calls = Append(p.calls, e) /\ q.stack = p.stack
        /\ q.expecting_key = p.expecting_key /\ q.state = p.state
        /\ q.save_state = p.save_state /\ q.ret = p.ret /\ q.config = p.config
    BY <2>2, <2>3 DEF HasFields, Fields
  <2>5. e.type = p.type /\ e.type \notin {"KEY"} \cup Begins \cup Ends
    BY <1>2, EventType DEF Scalars, Begins, Ends
  <2> HIDE DEF q, e
  <2>6. MayFollow(p.calls, e.type)
    BY <1>2, <2>5, Fits
  <2>7. /\ Core(q) /\ q.calls # <<>> /\ After(q.calls) = e.type
        /\ Open(q.calls) = OpenAfter(p.stack, e.type)
    BY <2>4, <2>6, OneMore DEF Whole, Core
  <2>8. OpenAfter(p.stack, e.type) = p.stack
    BY <2>5 DEF OpenAfter, Begins
  <2>9. Whole(q)
    BY <2>4, <2>7, <2>8 DEF Whole
  <2> QED BY <1>2, <2>4, <2>5, <2>7, <2>9 DEF q
<1> QED BY <1>1, <1>2

(* What an action leaves of what it called. *)
LEMMA ActionForm ==
    ASSUME NEW p, NEW a,
           HasFields(Called(IF a \in DoBuffer THEN do_buffer(p) ELSE p, a))
    PROVE  LET q == Called(IF a \in DoBuffer THEN do_buffer(p) ELSE p, a)
               r == do_action(p, a)
           IN  /\ q.ret # "SUCCESS" => r = q
               /\ q.ret = "SUCCESS" =>
                     /\ HasFields(r) /\ r.ret = q.ret
                     /\ r.calls = q.calls /\ r.stack = q.stack
                     /\ r.expecting_key = q.expecting_key
                     /\ r.save_state = q.save_state
                     /\ r.state = IF a \in DOMAIN ActionState
                                  THEN ActionState[a] ELSE q.state
                     /\ r.type = IF a \in DOMAIN ActionType
                                 THEN ActionType[a] ELSE "NONE"
BY DEF do_action, HasFields, Fields

(* What actions_map holds (json.c 2041-2059).                              *)
LEMMA ActionTables ==
    /\ DOMAIN ActionState = {"KS", "AB", "AE", "OB", "OE", "CB", "YB", "FA",
                             "TR", "NU", "DE", "DF", "MX", "ZX", "IX"}
    /\ DOMAIN ActionType = {"FA", "TR", "NU", "DE", "DF", "MX", "ZX", "IX"}
    /\ ActionState["KS"] = "_V"
    /\ ActionState["AB"] = "_A" /\ ActionState["OB"] = "_O"
    /\ \A a \in {"AE", "OE", "FA", "TR", "NU"} : ActionState[a] = "OK"
    /\ \A a \in {"CB", "YB"} : ActionState[a] \in CommentStates
    /\ \A a \in {"DE", "DF", "MX", "ZX", "IX"} : ActionState[a] \in NumberStates
    /\ \A a \in DOMAIN ActionType : ActionType[a] \in Scalars
BY DEF ActionState, ActionType, CommentStates, NumberStates, Scalars

(* The kinds of states have none in common. *)
LEMMA Kinds ==
    /\ \A s \in NumberStates : s \notin CommentStates \cup BlankStates
                                 \cup StringStates \cup LiteralStates \cup {"OK"}
    /\ \A s \in StringStates : s \notin CommentStates \cup BlankStates
                                 \cup LiteralStates \cup {"OK"}
    /\ \A s \in LiteralStates : s \notin CommentStates \cup BlankStates \cup {"OK"}
    /\ \A s \in BlankStates : s \notin CommentStates \cup {"OK"}
    /\ "OK" \notin CommentStates
    /\ BlankStates = {"GO", "_O", "_K", "CO", "_V", "_A"}
BY DEF NumberStates, StringStates, LiteralStates, CommentStates, BlankStates

(* A parser without an error in a state that is not a comment. *)
At(p, s) == NestInv(p) /\ p.ret = "SUCCESS" /\ p.state = s /\ s \notin CommentStates

(* Outside a comment the state is where it stands.                         *)
LEMMA AtPosition ==
    ASSUME NEW p, NEW s, At(p, s)
    PROVE  Whole(p) /\ HasFields(p) /\ s \in States /\ Position(p, s)
BY DEF At, NestInv, Resumed, Whole, Core

(* To be at a place of a document is to hold the invariant there.          *)
LEMMA NestAt ==
    ASSUME NEW p, Whole(p), p.state \in States \ CommentStates,
           Position(p, p.state)
    PROVE  NestInv(p)
BY DEF NestInv, Resumed, Whole

(* The colon after a key (json.c 2033-2037). *)
LEMMA DoColon ==
    ASSUME NEW p, At(p, "CO") PROVE NestInv(do_action(p, "KS"))
<1> DEFINE r == do_action(p, "KS")
<1>1. Whole(p) /\ HasFields(p) /\ Position(p, "CO") /\ p.ret = "SUCCESS"
  BY AtPosition DEF At
<1>2. "KS" \notin DoBuffer /\ Called(p, "KS") = p
  BY DEF DoBuffer, Called
<1>3. /\ HasFields(r) /\ r.calls = p.calls /\ r.stack = p.stack
      /\ r.expecting_key = p.expecting_key /\ r.state = "_V" /\ r.type = "NONE"
  BY <1>1, <1>2, ActionForm, ActionTables
<1> HIDE DEF r
<1>4. InObject(p) /\ After(p.calls) = "KEY" /\ ~p.expecting_key
  BY <1>1, Kinds DEF Position, StringStates
<1>5. Whole(r) /\ ValueFits(r)
  BY <1>1, <1>3, <1>4 DEF Whole, Core, ValueFits, InObject
<1>6. Position(r, "_V")
  BY <1>3, <1>4, <1>5 DEF Position, BlankStates, NumberStates, LiteralStates,
                          StringStates
<1> QED BY <1>3, <1>5, <1>6, NestAt, Kinds DEF r, States, BlankStates

(* A value that is a word: true, false, null (json.c 2041-2054). *)
LEMMA DoLiteral ==
    ASSUME NEW p, NEW s \in LiteralStates, At(p, s), NEW a \in {"TR", "FA", "NU"}
    PROVE  NestInv(do_action(p, a))
<1> DEFINE r == do_action(p, a)
<1>1. Whole(p) /\ HasFields(p) /\ Position(p, s) /\ p.ret = "SUCCESS"
  BY AtPosition DEF At
<1>2. a \notin DoBuffer /\ Called(p, a) = p
  BY DEF DoBuffer, Called
<1>3. /\ HasFields(r) /\ r.calls = p.calls /\ r.stack = p.stack
      /\ r.expecting_key = p.expecting_key /\ r.state = "OK"
      /\ r.type \in Scalars
  BY <1>1, <1>2, ActionForm, ActionTables
<1> HIDE DEF r
<1>4. ValueFits(p) /\ ~p.expecting_key
  BY <1>1, Kinds DEF Position
<1>5. Whole(r) /\ ValueFits(r)
  BY <1>1, <1>3, <1>4 DEF Whole, Core, ValueFits, InObject, InArray
<1>6. Position(r, "OK") /\ r.state \notin CommentStates
  BY <1>3, <1>4, <1>5, Kinds DEF Position, NumberStates, LiteralStates,
     StringStates
<1> QED BY <1>3, <1>5, <1>6, NestAt DEF r, States

(* A number begins, or goes on as a float (json.c 2041-2054). *)
LEMMA DoNumber ==
    ASSUME NEW p, NEW s \in NumberStates \cup {"_V", "_A"}, At(p, s),
           NEW a \in {"DE", "DF", "MX", "ZX", "IX"}
    PROVE  NestInv(do_action(p, a))
<1> DEFINE r == do_action(p, a)
<1>1. Whole(p) /\ HasFields(p) /\ Position(p, s) /\ p.ret = "SUCCESS"
  BY AtPosition DEF At
<1>2. a \notin DoBuffer /\ Called(p, a) = p
  BY DEF DoBuffer, Called
<1>3. /\ HasFields(r) /\ r.calls = p.calls /\ r.stack = p.stack
      /\ r.expecting_key = p.expecting_key /\ r.state \in NumberStates
      /\ r.type \in Scalars
  BY <1>1, <1>2, ActionForm, ActionTables
<1> HIDE DEF r
<1>4. ValueFits(p) /\ ~p.expecting_key
  BY <1>1, Kinds DEF Position, ValueFits, StringStates
<1>5. Whole(r) /\ ValueFits(r)
  BY <1>1, <1>3, <1>4 DEF Whole, Core, ValueFits, InObject, InArray
<1>6. Position(r, r.state) /\ r.state \notin CommentStates
  BY <1>3, <1>4, <1>5, Kinds DEF Position
<1> QED BY <1>3, <1>5, <1>6, NestAt DEF r, States

(* A character decoded changes only the buffer and the state (json.c       *)
(* 1862-1912, 1954-1959).                                                  *)
LEMMA DecodeDoc ==
    ASSUME NEW p, HasFields(p)
    PROVE  SameDoc(p, decode_unicode_char(p))
<1> DEFINE n == Len(p.buffer)
           kept == SubSeq(p.buffer, 1, n - 4)
           q == [p EXCEPT !.buffer = kept]
<1>1. HasFields(q) /\ SameDoc(p, q)
  BY DEF SameDoc, HasFields, Fields
<1>2. \A e : SameDoc(p, Fail(q, e))
  <2> HIDE DEF q
  <2> QED BY <1>1, FailDoc DEF SameDoc
<1>3. \A b : SameDoc(p, [p EXCEPT !.buffer = b, !.unicode_multi = 0])
  BY DEF SameDoc, HasFields, Fields
<1>4. \A b : SameDoc(p, [p EXCEPT !.buffer = b])
  BY DEF SameDoc, HasFields, Fields
<1>5. \A u : SameDoc(p, [q EXCEPT !.unicode_multi = u])
  <2> HIDE DEF q
  <2> QED BY <1>1 DEF SameDoc, HasFields, Fields
<1> DEFINE uval == 4096 * hex(p.buffer[n - 3]) + 256 * hex(p.buffer[n - 2])
                      + 16 * hex(p.buffer[n - 1]) + hex(p.buffer[n])
           pair == 65536 + 1024 * (p.unicode_multi % 1024) + (uval % 1024)
           d    == decode_unicode_char(p)
<1>6. \/ \E e : d = Fail(q, e)
      \/ d = [p EXCEPT !.buffer = kept \o UTF8Bytes(pair), !.unicode_multi = 0]
      \/ d = [q EXCEPT !.unicode_multi = uval]
      \/ d = [p EXCEPT !.buffer = kept \o UTF8Bytes(uval)]
  BY DEF decode_unicode_char
<1> HIDE DEF d, q, kept, uval, pair
<1>7. SameDoc(p, d)
  BY <1>2, <1>3, <1>4, <1>5, <1>6
<1> QED BY <1>7 DEF d

(* A character is decoded (json.c 1954-1959).                              *)
LEMMA DoUnicode ==
    ASSUME NEW p, NEW s \in StringStates, At(p, s)
    PROVE  NestInv(do_action(p, "UC"))
<1> DEFINE d == decode_unicode_char(p)
           q == act_uc(p)
           r == do_action(p, "UC")
<1>1. Whole(p) /\ HasFields(p) /\ Position(p, s) /\ p.ret = "SUCCESS"
  BY AtPosition DEF At
<1>2. "UC" \notin DoBuffer /\ Called(p, "UC") = q
  BY DEF DoBuffer, Called
<1>3. SameDoc(p, d)
  BY <1>1, DecodeDoc
<1>4. /\ SameDoc(p, q)
      /\ q.ret = "SUCCESS" => q.state \in {"_S", "D1"}
  <2> HIDE DEF d
  <2>1. \A t : SameDoc(p, [d EXCEPT !.state = t])
               /\ [d EXCEPT !.state = t].state = t
    BY <1>3 DEF SameDoc, HasFields, Fields
  <2> QED BY <1>3, <2>1 DEF act_uc, d
<1> HIDE DEF q
<1>5. CASE q.ret # "SUCCESS"
  <2>1. r = q
    BY <1>2, <1>4, <1>5, ActionForm DEF SameDoc
  <2> QED BY <1>1, <1>4, <1>5, <2>1, BrokenNest DEF SameDoc, Whole
<1>6. CASE q.ret = "SUCCESS"
  <2>1. /\ HasFields(r) /\ r.calls = p.calls /\ r.stack = p.stack
        /\ r.expecting_key = p.expecting_key /\ r.state \in {"_S", "D1"}
    BY <1>2, <1>4, <1>6, ActionForm, ActionTables DEF SameDoc
  <2> HIDE DEF r
  <2>2. Whole(r)
    BY <1>1, <2>1 DEF Whole, Core
  <2>3. IF r.expecting_key THEN KeyFits(r) ELSE ValueFits(r)
    BY <1>1, <2>1 DEF Position, KeyFits, ValueFits, InObject, InArray
  <2>4. r.state \in StringStates /\ r.state \in States
    BY <2>1 DEF StringStates, States
  <2>5. Position(r, r.state) /\ r.state \notin CommentStates
    BY <2>3, <2>4, Kinds DEF Position
  <2> QED BY <2>2, <2>4, <2>5, NestAt DEF r
<1> QED BY <1>5, <1>6

(* A string or key ends (json.c 2005-2018). *)
LEMMA DoString ==
    ASSUME NEW p, At(p, "_S") PROVE NestInv(do_action(p, "SE"))
<1> DEFINE type == IF p.expecting_key THEN "KEY" ELSE "STRING"
           e == Event(type, p.buffer)
           c == do_callback_withbuf(p, type)
           q == act_se(p)
           r == do_action(p, "SE")
<1>1. Whole(p) /\ HasFields(p) /\ Position(p, "_S") /\ p.ret = "SUCCESS"
      /\ p.expecting_key \in BOOLEAN
  BY AtPosition DEF At, Whole, Core
<1>2. "SE" \notin DoBuffer /\ Called(p, "SE") = q
  BY DEF DoBuffer, Called
<1>3. /\ HasFields(c) /\ c.calls = Append(p.calls, e) /\ c.stack = p.stack
      /\ c.ret = "SUCCESS"
  BY <1>1 DEF do_callback_withbuf, HasFields, Fields
<1>4. q = [c EXCEPT !.buffer = <<>>,
                    !.state = IF p.expecting_key THEN "CO" ELSE "OK",
                    !.expecting_key = FALSE]
  BY DEF act_se
<1> HIDE DEF c, e
<1>5. /\ HasFields(q) /\ q.calls = Append(p.calls, e) /\ q.stack = p.stack
      /\ q.expecting_key = FALSE /\ q.ret = "SUCCESS"
      /\ q.state = IF p.expecting_key THEN "CO" ELSE "OK"
  BY <1>3, <1>4 DEF HasFields, Fields
<1> HIDE DEF q
<1>6. /\ HasFields(r) /\ r.calls = Append(p.calls, e) /\ r.stack = p.stack
      /\ r.expecting_key = FALSE /\ r.type = "NONE"
      /\ r.state = IF p.expecting_key THEN "CO" ELSE "OK"
  BY <1>2, <1>5, ActionForm, ActionTables
<1> HIDE DEF r
<1>7. IF p.expecting_key THEN KeyFits(p) ELSE ValueFits(p)
  BY <1>1 DEF Position, StringStates
<1>8. e.type = type
  BY EventType DEF e
<1>9. MayFollow(p.calls, e.type)
  BY <1>1, <1>7, <1>8, Fits
<1>10. /\ Core(r) /\ r.calls # <<>> /\ After(r.calls) = type
       /\ Open(r.calls) = OpenAfter(p.stack, type)
  BY <1>1, <1>6, <1>8, <1>9, OneMore
<1>11. OpenAfter(p.stack, type) = p.stack
  BY DEF OpenAfter, Ends
<1>12. Whole(r)
  BY <1>1, <1>6, <1>10, <1>11 DEF Whole
<1>13. r.state = "CO" => InObject(r)
  BY <1>6, <1>7 DEF KeyFits, InObject
<1>14. Position(r, r.state)
  BY <1>6, <1>10, <1>13, Kinds DEF Position, NumberStates, LiteralStates,
     StringStates, Scalars
<1> QED BY <1>6, <1>12, <1>14, NestAt, Kinds DEF r, States

(* Opening pushes one structure or is an error (json.c 1756-1764).         *)
LEMMA PushDoc ==
    ASSUME NEW p, HasFields(p), NEW mode
    PROVE  LET q == state_push(p, mode)
           IN  /\ HasFields(q) /\ q.calls = p.calls
               /\ q.expecting_key = p.expecting_key
               /\ q.save_state = p.save_state
               /\ q.ret = "SUCCESS" => q.stack = Append(p.stack, mode)
<1> DEFINE g == IF Len(p.stack) >= p.stack_size THEN state_grow(p) ELSE p
           r == [g EXCEPT !.stack = Append(@, mode)]
<1>1. SameDoc(p, g)
  <2>1. \A e : SameDoc(p, Fail(p, e))
    BY FailDoc
  <2>2. SameDoc(p, p) /\ SameDoc(p, [p EXCEPT !.stack_size = 2 * @])
    BY DEF SameDoc, HasFields, Fields
  <2>3. g = p \/ (\E e : g = Fail(p, e)) \/ g = [p EXCEPT !.stack_size = 2 * @]
    BY DEF state_grow
  <2> HIDE DEF g
  <2> QED BY <2>1, <2>2, <2>3
<1>2. state_push(p, mode) = IF g.ret # "SUCCESS" THEN g ELSE r
  BY DEF state_push
<1> HIDE DEF g
<1>3. /\ HasFields(r) /\ r.calls = g.calls /\ r.stack = Append(g.stack, mode)
      /\ r.expecting_key = g.expecting_key /\ r.save_state = g.save_state
  BY <1>1 DEF SameDoc, HasFields, Fields
<1> HIDE DEF r
<1> QED BY <1>1, <1>2, <1>3 DEF SameDoc

(* Closing pops the last one or is an error (json.c 1766-1773).            *)
LEMMA PopDoc ==
    ASSUME NEW p, HasFields(p), p.ret = "SUCCESS", NEW mode
    PROVE  LET q == state_pop(p, mode)
           IN  /\ HasFields(q) /\ q.calls = p.calls
               /\ q.expecting_key = p.expecting_key
               /\ q.save_state = p.save_state
               /\ q.ret = "SUCCESS" => /\ p.stack # <<>> /\ Top(p.stack) = mode
                                       /\ q.stack = Front(p.stack)
<1> DEFINE r == [p EXCEPT !.stack = SubSeq(@, 1, Len(@) - 1)]
           q == state_pop(p, mode)
<1>1. /\ HasFields(r) /\ r.calls = p.calls /\ r.stack = Front(p.stack)
      /\ r.expecting_key = p.expecting_key /\ r.save_state = p.save_state
      /\ r.ret = "SUCCESS"
  BY DEF HasFields, Fields, Front
<1>2. q = IF p.stack = <<>> THEN Fail(p, "POP_EMPTY")
          ELSE IF Top(p.stack) # mode THEN Fail(r, "POP_UNEXPECTED_MODE") ELSE r
  BY DEF state_pop, Top
<1> HIDE DEF r, q
<1>3. CASE p.stack = <<>>
  <2>1. q = Fail(p, "POP_EMPTY")
    BY <1>2, <1>3
  <2> QED BY <2>1, FailDoc DEF SameDoc, q
<1>4. CASE p.stack # <<>> /\ Top(p.stack) # mode
  <2>1. q = Fail(r, "POP_UNEXPECTED_MODE")
    BY <1>2, <1>4
  <2> QED BY <1>1, <2>1, FailDoc DEF SameDoc, q
<1>5. CASE p.stack # <<>> /\ Top(p.stack) = mode
  BY <1>1, <1>2, <1>5 DEF q
<1> QED BY <1>3, <1>4, <1>5

(* A structure begins (json.c 1981-1999). *)
LEMMA DoOpen ==
    ASSUME NEW p, NEW s \in {"GO", "_V", "_A"}, At(p, s), NEW a \in {"AB", "OB"}
    PROVE  NestInv(do_action(p, a))
<1> DEFINE type == IF a = "AB" THEN "ARRAY_BEGIN" ELSE "OBJECT_BEGIN"
           mode == IF a = "AB" THEN "ARRAY" ELSE "OBJECT"
           e == Event(type, <<>>)
           c == do_callback(p, type)
           h == state_push(c, mode)
           q == Called(p, a)
           r == do_action(p, a)
<1>1. Whole(p) /\ HasFields(p) /\ Position(p, s) /\ p.ret = "SUCCESS"
      /\ p.expecting_key = FALSE
  BY AtPosition, Kinds DEF At, Position, Whole, Core
<1>2. a \notin DoBuffer
      /\ q = IF a = "OB" /\ h.ret = "SUCCESS"
             THEN [h EXCEPT !.expecting_key = TRUE] ELSE h
  BY DEF DoBuffer, Called, act_ab, act_ob
<1>3. HasFields(c) /\ c.calls = Append(p.calls, e) /\ c.stack = p.stack
      /\ c.expecting_key = FALSE
  BY <1>1 DEF do_callback, HasFields, Fields
<1> HIDE DEF c, e
<1>4. /\ HasFields(h) /\ h.calls = Append(p.calls, e)
      /\ h.expecting_key = FALSE
      /\ h.ret = "SUCCESS" => h.stack = Append(p.stack, mode)
  BY <1>3, PushDoc
<1> HIDE DEF h
<1>5. /\ HasFields(q) /\ q.calls = Append(p.calls, e)
      /\ q.expecting_key \in BOOLEAN
      /\ q.ret = "SUCCESS" => /\ q.stack = Append(p.stack, mode)
                              /\ q.expecting_key = (a = "OB")
  BY <1>2, <1>4 DEF HasFields, Fields
<1> HIDE DEF q
<1>6. e.type = type /\ type \in Begins
  BY EventType DEF e, Begins
<1>7. MayFollow(p.calls, e.type)
  <2>1. p.calls = <<>> \/ ValueFits(p)
    BY <1>1 DEF Position, ValueFits
  <2> QED BY <1>1, <1>6, <2>1, Fits
<1>8. /\ Core(q) /\ q.calls # <<>> /\ After(q.calls) = type
      /\ Open(q.calls) = OpenAfter(p.stack, type)
  BY <1>1, <1>5, <1>6, <1>7, OneMore
<1>9. CASE q.ret # "SUCCESS"
  <2>1. r = q
    BY <1>2, <1>5, <1>9, ActionForm DEF q
  <2> QED BY <1>8, <1>9, <2>1 DEF NestInv
<1>10. CASE q.ret = "SUCCESS"
  <2>1. /\ HasFields(r) /\ r.calls = q.calls /\ r.stack = Append(p.stack, mode)
        /\ r.expecting_key = (a = "OB") /\ r.type = "NONE"
        /\ r.state = IF a = "AB" THEN "_A" ELSE "_O"
    <3>0. /\ HasFields(Called(IF a \in DoBuffer THEN do_buffer(p) ELSE p, a))
          /\ q = Called(IF a \in DoBuffer THEN do_buffer(p) ELSE p, a)
          /\ a \in DOMAIN ActionState /\ a \notin DOMAIN ActionType
      BY <1>2, <1>5, ActionTables DEF q
    <3>1. /\ HasFields(r) /\ r.calls = q.calls /\ r.stack = q.stack
          /\ r.expecting_key = q.expecting_key
          /\ r.state = ActionState[a] /\ r.type = "NONE"
      BY <1>10, <3>0, ActionForm
    <3> HIDE DEF r, mode
    <3> QED BY <1>5, <1>10, <3>1, ActionTables
  <2> HIDE DEF r
  <2>2. OpenAfter(p.stack, type) = Append(p.stack, mode)
    <3>1. CASE a = "AB"
      BY <3>1 DEF OpenAfter, Ends
    <3>2. CASE a = "OB"
      BY <3>2 DEF OpenAfter, Ends
    <3> QED BY <3>1, <3>2
  <2>3. /\ p.stack \in Seq(Modes) /\ mode \in Modes
    BY <1>1 DEF Whole, Modes
  <2>4. /\ r.stack \in Seq(Modes) /\ r.stack # <<>> /\ Top(r.stack) = mode
    <3> DEFINE t == Append(p.stack, mode)
    <3>1. /\ t \in Seq(Modes) /\ Len(t) = Len(p.stack) + 1
          /\ t[Len(p.stack) + 1] = mode /\ Len(p.stack) \in Nat
      <4> HIDE DEF mode
      <4> QED BY <2>3
    <3>2. t # <<>>
      BY <3>1, NoElements
    <3> HIDE DEF mode, t
    <3>3. t[Len(t)] = mode
      BY <3>1
    <3> QED BY <2>1, <3>1, <3>2, <3>3 DEF Top, t
  <2>5. Whole(r)
    <3>1. Core(r)
      BY <1>8, <2>1 DEF Core
    <3>2. r.stack = Open(r.calls)
      <4> HIDE DEF mode, type
      <4> QED BY <1>5, <1>8, <2>1, <2>2
    <3> QED BY <2>4, <3>1, <3>2 DEF Whole
  <2>6. /\ a = "AB" => InArray(r)
        /\ a = "OB" => KeyFits(r)
    BY <1>8, <2>1, <2>4 DEF InArray, KeyFits, InObject
  <2>7. Position(r, r.state)
    BY <2>1, <2>6, Kinds DEF Position, NumberStates, LiteralStates, StringStates
  <2> QED BY <2>1, <2>5, <2>7, NestAt, Kinds DEF r, States, BlankStates
<1> QED BY <1>9, <1>10

(* After a value, given to the callback if it was not yet, or where there  *)
(* is nothing in the buffer. *)
LEMMA Flushed ==
    ASSUME NEW p, NEW s \in BlankStates \cup NumberStates \cup {"OK"}, At(p, s)
    PROVE  LET b == do_buffer(p)
           IN  /\ Whole(b) /\ b.stack = p.stack
               /\ b.expecting_key = p.expecting_key
               /\ b.state = s /\ b.config = p.config /\ b.ret = "SUCCESS"
               /\ s \in BlankStates => b.calls = p.calls
               /\ s \notin BlankStates =>
                     /\ b.calls # <<>> /\ After(b.calls) # "KEY"
                     /\ b.expecting_key = FALSE
<1>1. Whole(p) /\ Position(p, s) /\ p.ret = "SUCCESS" /\ p.state = s
      /\ p.expecting_key \in BOOLEAN
  BY AtPosition DEF At, Whole, Core
<1>2. CASE s \in BlankStates
  <2>1. p.type = "NONE" /\ p.type \notin Scalars
    BY <1>1, <1>2 DEF Position, Scalars
  <2> QED BY <1>1, <1>2, <2>1, BufferDoc
<1>3. CASE s \in NumberStates \cup {"OK"}
  <2>1. s \notin BlankStates /\ s \notin StringStates /\ s \notin {"_O", "_K"}
    BY <1>3, Kinds
  <2>2. p.expecting_key = FALSE
    BY <1>1, <2>1 DEF Position
  <2>3. /\ p.type \in Scalars \cup {"NONE"}
        /\ p.type \in Scalars => ValueFits(p)
        /\ p.type \notin Scalars => p.calls # <<>> /\ After(p.calls) # "KEY"
    BY <1>1, <1>3, Kinds DEF Position
  <2> QED BY <1>1, <2>1, <2>2, <2>3, BufferDoc
<1> QED BY <1>2, <1>3

(* A structure ends (json.c 1989-1995, 2001-2003). *)
LEMMA DoClose ==
    ASSUME NEW p, NEW a \in {"AE", "OE"},
           NEW s \in {"OK", IF a = "AE" THEN "_A" ELSE "_O"} \cup NumberStates,
           At(p, s)
    PROVE  NestInv(do_action(p, a))
<1> DEFINE type == IF a = "AE" THEN "ARRAY_END" ELSE "OBJECT_END"
           mode == IF a = "AE" THEN "ARRAY" ELSE "OBJECT"
           e == Event(type, <<>>)
           b == do_buffer(p)
           h == state_pop(b, mode)
           c == do_callback(h, type)
           q == Called(b, a)
           r == do_action(p, a)
<1>0. s \in BlankStates \cup NumberStates \cup {"OK"}
  BY Kinds
<1>1. /\ Whole(b) /\ HasFields(b) /\ b.ret = "SUCCESS"
      /\ s \in BlankStates => b.calls = p.calls /\ b.stack = p.stack
      /\ s \notin BlankStates => /\ After(b.calls) # "KEY"
                                 /\ b.expecting_key = FALSE
      /\ b.expecting_key = p.expecting_key
  BY <1>0, Flushed DEF Whole, Core
<1>2. Position(p, s)
  BY AtPosition
<1>3. /\ After(b.calls) # "KEY" \/ a = "AE"
      /\ b.expecting_key = FALSE \/ a = "OE"
  <2>1. CASE s \notin BlankStates
    BY <1>1, <2>1
  <2>2. CASE s \in BlankStates
    <3>1. s = IF a = "AE" THEN "_A" ELSE "_O"
      BY <2>2, Kinds
    <3>2. CASE a = "AE"
      <4>1. ~p.expecting_key /\ p.expecting_key \in BOOLEAN
        BY <1>2, <3>1, <3>2, AtPosition, Kinds DEF Position, Whole, Core
      <4> QED BY <1>1, <3>2, <4>1
    <3>3. CASE a = "OE"
      <4>1. KeyFits(p)
        BY <1>2, <3>1, <3>3 DEF Position
      <4> QED BY <1>1, <2>2, <3>3, <4>1 DEF KeyFits
    <3> QED BY <3>2, <3>3
  <2> QED BY <2>1, <2>2
<1>4. a \in DoBuffer /\ q = IF h.ret # "SUCCESS" THEN h
                            ELSE IF a = "OE"
                            THEN [c EXCEPT !.expecting_key = FALSE] ELSE c
  BY DEF DoBuffer, Called, act_ae, act_oe
<1> HIDE DEF b
<1>5. /\ HasFields(h) /\ h.calls = b.calls
      /\ h.expecting_key = b.expecting_key
      /\ h.ret = "SUCCESS" => /\ b.stack # <<>> /\ Top(b.stack) = mode
                              /\ h.stack = Front(b.stack)
  BY <1>1, PopDoc
<1> HIDE DEF h
<1>6. /\ HasFields(c) /\ c.calls = Append(h.calls, e) /\ c.stack = h.stack
      /\ c.expecting_key = h.expecting_key /\ c.ret = h.ret
  BY <1>5 DEF do_callback, HasFields, Fields
<1> HIDE DEF c, e
<1>7. CASE h.ret # "SUCCESS"
  <2>1. q = h
    BY <1>4, <1>7
  <2>2. r = q
    BY <1>4, <1>5, <1>7, <2>1, ActionForm DEF b
  <2> QED BY <1>1, <1>5, <1>7, <2>1, <2>2, BrokenNest DEF Whole
<1>8. CASE h.ret = "SUCCESS"
  <2>1. /\ HasFields(q) /\ q.calls = Append(b.calls, e)
        /\ q.stack = Front(b.stack) /\ q.expecting_key = FALSE
        /\ q.ret = "SUCCESS"
    BY <1>3, <1>4, <1>5, <1>6, <1>8 DEF HasFields, Fields
  <2>2. e.type = type /\ type \in Ends /\ type # "KEY"
        /\ type \notin Begins
    BY EventType DEF e, Ends, Begins
  <2>3. MayFollow(b.calls, e.type)
    <3>1. CASE a = "AE"
      <4>1. InArray(b)
        BY <1>5, <1>8, <3>1 DEF InArray
      <4> QED BY <1>1, <2>2, <3>1, <4>1, Fits
    <3>2. CASE a = "OE"
      <4>1. KeyFits(b)
        BY <1>3, <1>5, <1>8, <3>2 DEF InObject, KeyFits
      <4> QED BY <1>1, <2>2, <3>2, <4>1, Fits
    <3> QED BY <3>1, <3>2
  <2> HIDE DEF q
  <2>4. /\ Core(q) /\ q.calls # <<>> /\ After(q.calls) = e.type
        /\ Open(q.calls) = OpenAfter(b.stack, e.type)
        /\ Open(q.calls) \in Seq(Modes)
    BY <1>1, <2>1, <2>3, OneMore
  <2>5. OpenAfter(b.stack, e.type) = Front(b.stack)
    BY <2>2 DEF OpenAfter, Begins
  <2>6. /\ HasFields(r) /\ r.calls = q.calls /\ r.stack = q.stack
        /\ r.expecting_key = q.expecting_key
        /\ r.state = "OK" /\ r.type = "NONE"
    <3>1. /\ q = Called(IF a \in DoBuffer THEN do_buffer(p) ELSE p, a)
          /\ a \in DOMAIN ActionState /\ a \notin DOMAIN ActionType
          /\ ActionState[a] = "OK"
      BY <1>4, ActionTables DEF q, b
    <3> QED BY <2>1, <3>1, ActionForm
  <2> HIDE DEF r
  <2>7. Whole(r)
    BY <2>1, <2>4, <2>5, <2>6 DEF Whole, Core
  <2>8. Position(r, "OK") /\ r.calls # <<>>
    <3> HIDE DEF type
    <3>1. After(r.calls) # "KEY" /\ r.calls # <<>> /\ r.expecting_key = FALSE
      BY <2>1, <2>2, <2>4, <2>6
    <3>2. "OK" \notin BlankStates \cup NumberStates \cup LiteralStates
                         \cup StringStates \cup CommentStates
          /\ r.type \notin Scalars
      BY <2>6, Kinds DEF Scalars
    <3> QED BY <2>6, <3>1, <3>2 DEF Position
  <2> QED BY <2>6, <2>7, <2>8, NestAt, Kinds DEF r, States
<1> QED BY <1>7, <1>8

(* A comma (json.c 2020-2031). *)
LEMMA DoComma ==
    ASSUME NEW p, NEW s \in NumberStates \cup {"OK"}, At(p, s)
    PROVE  NestInv(do_action(p, "SP"))
<1> DEFINE b == do_buffer(p)
           q == act_sp(b)
           r == do_action(p, "SP")
<1>1. /\ Whole(b) /\ HasFields(b) /\ b.ret = "SUCCESS"
      /\ After(b.calls) # "KEY" /\ b.expecting_key = FALSE
  <2>1. s \in BlankStates \cup NumberStates \cup {"OK"} /\ s \notin BlankStates
    BY Kinds
  <2> QED BY <2>1, Flushed DEF Whole, Core
<1>2. "SP" \in DoBuffer /\ Called(b, "SP") = q
  BY DEF DoBuffer, Called
<1> HIDE DEF b
<1>3. CASE b.stack = <<>>
  <2>1. q = Fail(b, "COMMA_OUT_OF_STRUCTURE")
    BY <1>3 DEF act_sp
  <2>2. SameDoc(b, q) /\ q.ret # "SUCCESS"
    BY <1>1, <2>1, FailDoc
  <2> HIDE DEF q
  <2>3. r = q
    BY <1>2, <2>2, ActionForm DEF b, SameDoc
  <2> QED BY <1>1, <2>2, <2>3, BrokenNest DEF SameDoc, Whole
<1>4. CASE b.stack # <<>>
  <2>1. /\ HasFields(q) /\ q.calls = b.calls /\ q.stack = b.stack
        /\ q.ret = "SUCCESS"
        /\ \/ Top(b.stack) = "OBJECT" /\ q.expecting_key = TRUE /\ q.state = "_K"
           \/ /\ Top(b.stack) # "OBJECT"
              /\ q.expecting_key = FALSE /\ q.state = "_V"
    BY <1>1, <1>4 DEF act_sp, Top, HasFields, Fields
  <2> HIDE DEF q
  <2>2. /\ HasFields(r) /\ r.calls = q.calls /\ r.stack = q.stack
        /\ r.expecting_key = q.expecting_key
        /\ r.state = q.state /\ r.type = "NONE"
    <3>1. /\ q = Called(IF "SP" \in DoBuffer THEN do_buffer(p) ELSE p, "SP")
          /\ "SP" \notin DOMAIN ActionState /\ "SP" \notin DOMAIN ActionType
      BY <1>2, ActionTables DEF b
    <3> QED BY <2>1, <3>1, ActionForm
  <2> HIDE DEF r
  <2>3. Whole(r)
    BY <1>1, <2>1, <2>2 DEF Whole, Core
  <2>4. Top(b.stack) \in Modes
    <3>1. b.stack \in Seq(Modes) /\ Len(b.stack) \in 1..Len(b.stack)
      <4>1. b.stack \in Seq(Modes)
        BY <1>1 DEF Whole
      <4> QED BY <1>4, <4>1
    <3> QED BY <3>1 DEF Top
  <2>5. /\ r.state = "_K" => KeyFits(r)
        /\ r.state = "_V" => ValueFits(r)
    BY <1>1, <1>4, <2>1, <2>2, <2>4
       DEF KeyFits, ValueFits, InObject, InArray, Modes
  <2>6. Position(r, r.state) /\ r.state \in {"_K", "_V"}
    BY <2>1, <2>2, <2>5, Kinds DEF Position
  <2> QED BY <2>3, <2>6, NestAt, Kinds DEF r, States, BlankStates
<1> QED BY <1>3, <1>4

(* A comment begins (json.c 1961-1968, 1972-1979). *)
LEMMA DoComment ==
    ASSUME NEW p, NEW s \in BlankStates \cup NumberStates \cup {"OK"}, At(p, s),
           NEW a \in {"CB", "YB"}
    PROVE  NestInv(do_action(p, a))
<1> DEFINE b == do_buffer(p)
           q == Called(b, a)
           r == do_action(p, a)
<1>1. /\ Whole(b) /\ HasFields(b) /\ b.ret = "SUCCESS" /\ b.state = s
      /\ b.stack = p.stack /\ b.expecting_key = p.expecting_key
      /\ s \in BlankStates => b.calls = p.calls
      /\ s \notin BlankStates => /\ b.calls # <<>> /\ After(b.calls) # "KEY"
                                 /\ b.expecting_key = FALSE
  BY Flushed DEF Whole, Core
<1>2. a \in DoBuffer /\ \E allowed : q = act_comment(b, allowed)
  BY DEF DoBuffer, Called
<1> HIDE DEF b
<1>3. \/ q = Fail(b, "COMMENT_NOT_ALLOWED")
      \/ q = [b EXCEPT !.save_state = b.state]
  BY <1>2 DEF act_comment
<1> HIDE DEF q
<1>4. CASE q = Fail(b, "COMMENT_NOT_ALLOWED")
  <2>1. SameDoc(b, q) /\ q.ret # "SUCCESS"
    BY <1>1, <1>4, FailDoc
  <2>2. r = q
    BY <1>2, <2>1, ActionForm DEF q, b, SameDoc
  <2> QED BY <1>1, <2>1, <2>2, BrokenNest DEF SameDoc, Whole
<1>5. CASE q = [b EXCEPT !.save_state = b.state]
  <2>1. /\ HasFields(q) /\ q.calls = b.calls /\ q.stack = b.stack
        /\ q.expecting_key = b.expecting_key /\ q.save_state = s
        /\ q.ret = "SUCCESS"
    BY <1>1, <1>5 DEF HasFields, Fields
  <2>2. /\ HasFields(r) /\ r.calls = q.calls /\ r.stack = q.stack
        /\ r.expecting_key = q.expecting_key /\ r.save_state = q.save_state
        /\ r.state \in CommentStates /\ r.type = "NONE"
    <3>1. /\ q = Called(IF a \in DoBuffer THEN do_buffer(p) ELSE p, a)
          /\ a \in DOMAIN ActionState /\ a \notin DOMAIN ActionType
          /\ ActionState[a] \in CommentStates
      BY <1>2, ActionTables DEF q, b
    <3> QED BY <2>1, <3>1, ActionForm
  <2> HIDE DEF r
  <2>3. Whole(r) /\ r.stack = p.stack
    BY <1>1, <2>1, <2>2 DEF Whole, Core
  <2>4. Position(p, s)
    BY AtPosition
  <2>5. CASE s \in BlankStates
    <3>1. Resumed(r) = s
      BY <2>1, <2>2, <2>5 DEF Resumed
    <3>2. /\ r.calls = p.calls /\ r.stack = p.stack
          /\ r.expecting_key = p.expecting_key
      BY <1>1, <2>1, <2>2, <2>5
    <3>3. /\ KeyFits(p) => KeyFits(r)
          /\ ValueFits(p) => ValueFits(r)
          /\ InArray(p) => InArray(r)
          /\ InObject(p) => InObject(r)
      BY <3>2 DEF KeyFits, ValueFits, InObject, InArray
    <3>4. Position(r, s)
      BY <2>2, <2>4, <2>5, <3>2, <3>3, Kinds DEF Position
    <3> QED BY <2>2, <2>3, <3>1, <3>4 DEF NestInv, r, Whole, States
  <2>6. CASE s \notin BlankStates
    <3>1. Resumed(r) = "OK"
      BY <2>1, <2>2, <2>6 DEF Resumed
    <3>2. r.type \notin Scalars
      BY <2>2 DEF Scalars
    <3>3. Position(r, "OK")
      BY <1>1, <2>1, <2>2, <2>6, <3>2, Kinds DEF Position
    <3> QED BY <2>2, <2>3, <3>1, <3>3 DEF NestInv, r, Whole, States
  <2> QED BY <2>5, <2>6
<1> QED BY <1>3, <1>4, <1>5

(* A comment ends (json.c 1970-1977). *)
LEMMA DoCommentEnd ==
    ASSUME NEW p, NestInv(p), p.ret = "SUCCESS", p.state \in CommentStates
    PROVE  NestInv(do_action(p, "CE"))
<1> DEFINE s == Resumed(p)
           q == act_ce(p)
           r == do_action(p, "CE")
<1>1. Whole(p) /\ HasFields(p) /\ Position(p, s)
  BY DEF NestInv, Whole, Core
<1>2. "CE" \notin DoBuffer /\ Called(p, "CE") = q
  BY DEF DoBuffer, Called
<1>3. s = IF p.save_state \in BlankStates THEN p.save_state ELSE "OK"
  BY DEF Resumed
<1>4. q = [p EXCEPT !.state = s]
  BY <1>3 DEF act_ce, BlankStates
<1> HIDE DEF s
<1>5. /\ HasFields(q) /\ q.calls = p.calls /\ q.stack = p.stack
      /\ q.expecting_key = p.expecting_key /\ q.state = s /\ q.ret = "SUCCESS"
  BY <1>1, <1>4 DEF HasFields, Fields
<1> HIDE DEF q
<1>6. /\ HasFields(r) /\ r.calls = p.calls /\ r.stack = p.stack
      /\ r.expecting_key = p.expecting_key /\ r.state = s /\ r.type = "NONE"
  BY <1>2, <1>5, ActionForm, ActionTables
<1> HIDE DEF r
<1>7. Whole(r)
  BY <1>1, <1>6 DEF Whole, Core
<1>8. s \in BlankStates \cup {"OK"} /\ s \notin CommentStates
      /\ s \notin NumberStates
  BY <1>3, Kinds
<1>9. /\ KeyFits(p) => KeyFits(r)
      /\ ValueFits(p) => ValueFits(r)
      /\ InArray(p) => InArray(r)
      /\ InObject(p) => InObject(r)
  BY <1>6 DEF KeyFits, ValueFits, InObject, InArray
<1>10. p.type = "NONE"
  BY <1>1 DEF Position
<1>11. Position(r, s)
  BY <1>1, <1>6, <1>8, <1>9, <1>10 DEF Position
<1> QED BY <1>6, <1>7, <1>8, <1>11, NestAt DEF r, States

-----------------------------------------------------------------------------
(* The tables and the document *)

(* From which states a move may lead where. *)
Leads(s, n) ==
    /\ s \in States
    /\ n \notin Actions =>
          \/ n = s
          \/ s \in {"_V", "_A"} /\ n \in {"_S"} \cup LiteralStates
          \/ s \in {"_O", "_K"} /\ n = "_S"
          \/ s \in StringStates /\ n \in StringStates
          \/ s \in NumberStates /\ n \in NumberStates \cup {"OK"}
          \/ s \in LiteralStates /\ n \in LiteralStates
          \/ s \in CommentStates /\ n \in CommentStates
    /\ n = "KS" => s = "CO"
    /\ n = "SP" => s \in NumberStates \cup {"OK"}
    /\ n = "AE" => s \in {"OK", "_A"} \cup NumberStates
    /\ n = "OE" => s \in {"OK", "_O"} \cup NumberStates
    /\ n \in {"AB", "OB"} => s \in {"GO", "_V", "_A"}
    /\ n \in {"CB", "YB"} => s \in BlankStates \cup NumberStates \cup {"OK"}
    /\ n = "CE" => s \in CommentStates
    /\ n \in {"TR", "FA", "NU"} => s \in LiteralStates
    /\ n \in {"DE", "DF", "MX", "ZX", "IX"} => s \in NumberStates \cup {"_V", "_A"}
    /\ n = "SE" => s = "_S"
    /\ n = "UC" => s \in StringStates

(* The transition table leads nowhere else (json.c 257-1559).              *)
LEMMA Leading == \A m \in Table : Leads(m[1], m[3])
<1> DEFINE P(m) == Leads(m[1], m[3])
<1> USE DEF Leads, Actions, States, StringStates, NumberStates, LiteralStates,
            CommentStates, BlankStates, Move
<1>1. \A m \in StartRows : P(m)    BY DEF StartRows, Blank, Closers
<1>2. \A m \in ObjectRows : P(m)   BY DEF ObjectRows, Blank
<1>3. \A m \in ValueRows : P(m)    BY DEF ValueRows, Blank, Values
<1>4. \A m \in StringRows : P(m)   BY DEF StringRows
<1>5. \A m \in UnicodeRows : P(m)  BY DEF UnicodeRows
<1>6. \A m \in IntegerRows : P(m)  BY DEF IntegerRows, Blank, Closers
<1>7. \A m \in RealRows : P(m)     BY DEF RealRows, Blank, Closers
<1>8. \A m \in TrueRows \cup FalseRows \cup NullRows : P(m)
  BY DEF TrueRows, FalseRows, NullRows
<1>9. \A m \in CommentRows \cup OtherRows : P(m)
  BY DEF CommentRows, OtherRows
<1> HIDE DEF P
<1>10. \A m \in Table : P(m)
  BY <1>1, <1>2, <1>3, <1>4, <1>5, <1>6, <1>7, <1>8, <1>9 DEF Table
<1> QED BY <1>10 DEF P

(* Keeping a byte in the buffer is nothing to the document. *)
LEMMA KeptDoc ==
    ASSUME NEW p, HasFields(p), NEW ch, NEW class
    PROVE  LET q == Kept(p, ch, class)
           IN  SameDoc(p, q) /\ (q.ret = "SUCCESS" => q.state = p.state)
<1> DEFINE Ok(q) == SameDoc(p, q) /\ (q.ret = "SUCCESS" => q.state = p.state)
<1>1. Ok(p)
  BY DEF SameDoc
<1>2. ASSUME NEW c PROVE Ok(buffer_push(p, c))
  <2> DEFINE g == IF Len(p.buffer) + 1 >= p.buffer_size THEN buffer_grow(p) ELSE p
             r == [g EXCEPT !.buffer = Append(@, c)]
  <2>1. /\ SameDoc(p, g) /\ g.state = p.state
    <3>1. \A e : SameDoc(p, Fail(p, e)) /\ Fail(p, e).state = p.state
      BY FailDoc, FailSame
    <3>2. \A n : /\ SameDoc(p, [p EXCEPT !.buffer_size = n])
                 /\ [p EXCEPT !.buffer_size = n].state = p.state
      BY DEF SameDoc, HasFields, Fields
    <3>3. g = p \/ (\E e : g = Fail(p, e))
                \/ (\E n : g = [p EXCEPT !.buffer_size = n])
      BY DEF buffer_grow
    <3> HIDE DEF g
    <3> QED BY <1>1, <3>1, <3>2, <3>3
  <2>2. buffer_push(p, c) = IF g.ret # "SUCCESS" THEN g ELSE r
    BY DEF buffer_push
  <2> HIDE DEF g
  <2>3. SameDoc(p, r) /\ r.state = g.state
    BY <2>1 DEF SameDoc, HasFields, Fields
  <2> HIDE DEF r
  <2> QED BY <2>1, <2>2, <2>3
<1> QED BY <1>1, <1>2 DEF Kept, buffer_push_escape

(* A move to a state. *)
LEMMA PlainMove ==
    ASSUME NEW p, NestInv(p), p.ret = "SUCCESS", NEW n, n \notin Actions,
           Leads(p.state, n), NEW r, SameDoc(p, r), r.state = n
    PROVE  NestInv(r)
<1> DEFINE s == p.state
<1>1. Whole(p) /\ Position(p, Resumed(p)) /\ s \in States
  BY DEF NestInv
<1>2. /\ r.calls = p.calls /\ r.stack = p.stack /\ r.type = p.type
      /\ r.expecting_key = p.expecting_key /\ r.save_state = p.save_state
  BY DEF SameDoc
<1>3. Whole(r)
  BY <1>1, <1>2 DEF Whole, Core, SameDoc
<1>4. /\ KeyFits(p) => KeyFits(r)
      /\ ValueFits(p) => ValueFits(r)
      /\ InArray(p) => InArray(r) /\ ValueFits(r)
      /\ InObject(p) => InObject(r)
  BY <1>2 DEF KeyFits, ValueFits, InObject, InArray
<1>5. CASE s \in CommentStates
  <2>1. n \in CommentStates
    BY <1>5, Kinds DEF Leads
  <2>2. Resumed(r) = Resumed(p)
    BY <1>2, <1>5, <2>1 DEF Resumed
  <2>3. Position(r, Resumed(r))
    <3> DEFINE t == Resumed(p)
    <3>1. Position(p, t) /\ Resumed(r) = t
      BY <1>1, <2>2
    <3> HIDE DEF t
    <3> QED BY <1>2, <1>4, <1>5, <2>1, <3>1 DEF Position
  <2> QED BY <1>3, <2>1, <2>3 DEF NestInv, Whole, States
<1>6. CASE s \notin CommentStates
  <2>1. Position(p, s)
    BY <1>1, <1>6 DEF Resumed
  <2>2. n \in States \ CommentStates /\ Position(r, n)
    <3>1. CASE n = s
      <4>1. Position(r, s)
        BY <1>2, <1>4, <1>6, <2>1, <3>1 DEF Position
      <4> QED BY <1>1, <1>6, <3>1, <4>1
    <3>2. CASE s \in {"_V", "_A"} /\ n \in LiteralStates
      <4>1. ValueFits(r) /\ ~r.expecting_key
        BY <1>2, <1>4, <2>1, <3>2, Kinds DEF Position
      <4>2. n \notin BlankStates \cup NumberStates \cup StringStates
                       \cup CommentStates \cup {"OK"}
        BY <3>2, Kinds
      <4> QED BY <3>2, <4>1, <4>2, Kinds DEF Position, States
    <3>3. CASE s \in {"_V", "_A", "_O", "_K"} \cup StringStates
               /\ n \in StringStates
      <4>1. IF r.expecting_key THEN KeyFits(r) ELSE ValueFits(r)
        BY <1>2, <1>4, <2>1, <3>3, Kinds DEF Position
      <4>2. n \notin BlankStates \cup NumberStates \cup LiteralStates
                       \cup CommentStates \cup {"OK"}
        BY <3>3, Kinds
      <4> QED BY <3>3, <4>1, <4>2, Kinds DEF Position, States
    <3>4. CASE s \in NumberStates /\ n \in NumberStates \cup {"OK"}
      <4>1. ValueFits(r) /\ ~r.expecting_key /\ r.type \in Scalars
        BY <1>2, <1>4, <2>1, <3>4, Kinds DEF Position
      <4>2. n \notin BlankStates \cup StringStates \cup CommentStates
        BY <3>4, Kinds
      <4> QED BY <3>4, <4>1, <4>2, Kinds DEF Position, States
    <3>5. CASE s \in LiteralStates /\ n \in LiteralStates
      <4>1. ValueFits(r) /\ ~r.expecting_key
        BY <1>2, <1>4, <2>1, <3>5, Kinds DEF Position
      <4>2. n \notin BlankStates \cup NumberStates \cup StringStates
                       \cup CommentStates \cup {"OK"}
        BY <3>5, Kinds
      <4> QED BY <3>5, <4>1, <4>2, Kinds DEF Position, States
    <3>6. "_S" \in StringStates
      BY DEF StringStates
    <3> QED BY <1>6, <3>1, <3>2, <3>3, <3>4, <3>5, <3>6 DEF Leads
  <2> QED BY <1>3, <2>2, NestAt
<1> QED BY <1>5, <1>6

(* A byte of some class keeps the invariant (json.c 2178-2210).            *)
LEMMA MovedNest ==
    ASSUME NEW p, NestInv(p), p.ret = "SUCCESS", NEW ch, NEW class
    PROVE  NestInv(Moved(p, ch, class))
<1> DEFINE n == state_transition_table(p.state, class)
           q == Kept(p, ch, class)
           r == [q EXCEPT !.state = n]
<1>1. Whole(p) /\ Core(p) /\ HasFields(p)
  BY DEF NestInv, Whole, Core
<1>2. SameDoc(p, q) /\ (q.ret = "SUCCESS" => q.state = p.state)
  BY <1>1, KeptDoc
<1>3. n # "__" => Leads(p.state, n)
  BY TableLookup, Leading
<1>4. Moved(p, ch, class) = IF n = "__" THEN Fail(p, "UNEXPECTED_CHAR")
                            ELSE IF q.ret # "SUCCESS" THEN q
                            ELSE IF n \in Actions THEN do_action(q, n) ELSE r
  BY DEF Moved, IS_STATE_ACTION
<1>5. SameDoc(p, r) /\ r.state = n
  BY <1>2 DEF SameDoc, HasFields, Fields
<1> HIDE DEF n, q, r
<1>6. CASE n = "__"
  <2>1. SameDoc(p, Fail(p, "UNEXPECTED_CHAR"))
        /\ Fail(p, "UNEXPECTED_CHAR").ret # "SUCCESS"
    BY <1>1, FailDoc
  <2> QED BY <1>1, <1>4, <1>6, <2>1, BrokenNest DEF SameDoc
<1>7. CASE n # "__" /\ q.ret # "SUCCESS"
  BY <1>1, <1>2, <1>4, <1>7, BrokenNest DEF SameDoc
<1>8. CASE n # "__" /\ q.ret = "SUCCESS" /\ n \notin Actions
  BY <1>3, <1>4, <1>5, <1>8, PlainMove
<1>9. CASE n # "__" /\ q.ret = "SUCCESS" /\ n \in Actions
  <2>1. NestInv(q) /\ q.ret = "SUCCESS" /\ q.state = p.state
    <3>1. q.calls = p.calls /\ q.stack = p.stack /\ q.type = p.type
          /\ q.expecting_key = p.expecting_key /\ q.save_state = p.save_state
          /\ q.state = p.state /\ HasFields(q)
      BY <1>2, <1>9 DEF SameDoc
    <3>2. Whole(q) /\ Core(q) /\ Resumed(q) = Resumed(p)
      BY <1>1, <3>1 DEF Whole, Core, Resumed
    <3>3. Position(q, Resumed(q))
      <4> DEFINE t == Resumed(p)
      <4>1. Position(p, t) /\ Resumed(q) = t
        BY <3>2 DEF NestInv
      <4> HIDE DEF t
      <4> QED BY <3>1, <4>1 DEF Position, KeyFits, ValueFits, InObject, InArray
    <3> QED BY <1>9, <3>1, <3>2, <3>3 DEF NestInv
  <2>2. ASSUME p.state \notin CommentStates PROVE At(q, p.state)
    BY <2>1, <2>2 DEF At
  <2> DEFINE s == p.state
  <2>3. Leads(s, n)
    BY <1>3, <1>9
  <2>4. s \notin CommentStates => At(q, s)
    BY <2>2
  <2>5. q.state = s
    BY <2>1
  <2> HIDE DEF s
  <2>6. NestInv(do_action(q, n))
    <3>1. CASE n = "KS"
      BY <2>3, <2>4, <3>1, DoColon, Kinds DEF Leads
    <3>2. CASE n = "SP"
      BY <2>3, <2>4, <3>2, DoComma, Kinds DEF Leads
    <3>3. CASE n = "AE"
      BY <2>3, <2>4, <3>3, DoClose, Kinds DEF Leads
    <3>4. CASE n = "OE"
      BY <2>3, <2>4, <3>4, DoClose, Kinds DEF Leads
    <3>5. CASE n \in {"AB", "OB"}
      BY <2>3, <2>4, <3>5, DoOpen, Kinds DEF Leads
    <3>6. CASE n \in {"CB", "YB"}
      BY <2>3, <2>4, <3>6, DoComment, Kinds DEF Leads
    <3>7. CASE n = "CE"
      BY <2>1, <2>3, <2>5, <3>7, DoCommentEnd DEF Leads
    <3>8. CASE n \in {"TR", "FA", "NU"}
      BY <2>3, <2>4, <3>8, DoLiteral, Kinds DEF Leads
    <3>9. CASE n \in {"DE", "DF", "MX", "ZX", "IX"}
      BY <2>3, <2>4, <3>9, DoNumber, Kinds DEF Leads
    <3>10. CASE n = "SE"
      BY <2>3, <2>4, <3>10, DoString, Kinds DEF Leads, StringStates
    <3>11. CASE n = "UC"
      BY <2>3, <2>4, <3>11, DoUnicode, Kinds DEF Leads
    <3> QED BY <1>9, <3>1, <3>2, <3>3, <3>4, <3>5, <3>6, <3>7, <3>8, <3>9,
               <3>10, <3>11 DEF Actions
  <2> QED BY <1>4, <1>9, <2>6
<1> QED BY <1>6, <1>7, <1>8, <1>9

(* So does any byte (json.c 2145-2213).                                    *)
LEMMA CharNest ==
    ASSUME NEW p, NestInv(p), p.ret = "SUCCESS", NEW ch
    PROVE  NestInv(json_parser_char(p, ch))
<1> DEFINE With(n) == [p EXCEPT !.utf8_multibyte_left = n]
<1>1. HasFields(p) /\ Core(p)
  BY DEF NestInv, Core
<1>2. ASSUME NEW n PROVE NestInv(With(n)) /\ With(n).ret = "SUCCESS"
  <2> DEFINE q == With(n)
  <2>1. q.calls = p.calls /\ q.stack = p.stack /\ q.type = p.type
        /\ q.expecting_key = p.expecting_key /\ q.save_state = p.save_state
        /\ q.state = p.state /\ HasFields(q) /\ q.ret = "SUCCESS"
    BY <1>1 DEF HasFields, Fields
  <2> HIDE DEF q
  <2>2. Whole(p) /\ Whole(q) /\ Core(q) /\ Resumed(q) = Resumed(p)
    BY <2>1 DEF NestInv, Whole, Core, Resumed
  <2>3. Position(q, Resumed(q))
    <3> DEFINE t == Resumed(p)
    <3>1. Position(p, t) /\ Resumed(q) = t
      BY <2>2 DEF NestInv
    <3> HIDE DEF t
    <3> QED BY <2>1, <3>1 DEF Position, KeyFits, ValueFits, InObject, InArray
  <2> QED BY <2>1, <2>2, <2>3 DEF NestInv, q
<1> DEFINE m == p.utf8_multibyte_left - 1
           left == utf8_header_table(ch)
<1>3. \/ json_parser_char(p, ch) = Fail(p, "UTF8")
      \/ json_parser_char(p, ch) = Moved(With(m), ch, "OTHER")
      \/ json_parser_char(p, ch) = Fail(With(left), "UTF8")
      \/ json_parser_char(p, ch) = Moved(With(left), ch, "OTHER")
      \/ json_parser_char(p, ch) = Fail(With(left), "BAD_CHAR")
      \/ json_parser_char(p, ch) = Moved(With(left), ch, character_class(ch))
  BY DEF json_parser_char
<1> HIDE DEF m, left, With
<1>4. \A n, class : NestInv(Moved(With(n), ch, class))
  BY <1>2, MovedNest
<1>5. ASSUME NEW q, NestInv(q), NEW e, e # "SUCCESS" PROVE NestInv(Fail(q, e))
  <2>1. HasFields(q) /\ Core(q)
    BY <1>5 DEF NestInv, Core
  <2>2. SameDoc(q, Fail(q, e)) /\ Fail(q, e).ret # "SUCCESS"
    BY <1>5, <2>1, FailDoc
  <2> HIDE DEF Fail
  <2> QED BY <2>1, <2>2, BrokenNest DEF SameDoc
<1> QED BY <1>2, <1>3, <1>4, <1>5

-----------------------------------------------------------------------------
(* The specification *)

(* The parser starts with room, whatever its configuration                 *)
(* (json.c 2080-2121).                                                     *)
LEMMA InitInv ==
    ASSUME NEW config \in Configs
    PROVE  ParserInv(json_parser_init(config))
<1> DEFINE p == json_parser_init(config)
           size == InitialBufferSize(config)
<1>1. /\ config \in json_config
      /\ config.max_data \in Nat /\ config.max_nesting \in Nat
      /\ config.buffer_initial_size \in Nat
  BY JsonConfigAssumption DEF json_config
<1>2. /\ size \in Nat /\ 0 < size
      /\ config.max_data > 0 => size <= config.max_data
  BY <1>1, JsonConfigAssumption DEF InitialBufferSize
<1> HIDE DEF size
<1>3. /\ HasFields(p) /\ p.config = config /\ p.buffer = <<>> /\ p.stack = <<>>
      /\ p.buffer_size = size /\ p.state = "GO"
      /\ p.stack_size = IF config.max_nesting > 0 THEN config.max_nesting
                                                  ELSE DEFAULT_STACK_SIZE
  BY DEF json_parser_init, HasFields, Fields, size
<1> HIDE DEF p
<1>4. p.stack_size \in Nat \ {0}
      /\ (config.max_nesting > 0 => p.stack_size = config.max_nesting)
  BY <1>1, <1>3, JsonConfigAssumption
<1>5. Len(p.buffer) = 0 /\ Len(p.stack) = 0 /\ IsSeq(p.buffer) /\ IsSeq(p.stack)
  BY <1>3, NoElements
<1>6. Sizes(p)  BY <1>1, <1>2, <1>3, <1>4, <1>5 DEF Sizes
<1>7. Room(p)  BY <1>1, <1>3, <1>5, <1>6 DEF Room
<1> QED BY <1>3, <1>7 DEF ParserInv, HasDigits, p

(* The parser writes no byte past the end of a block, whatever a file      *)
(* holds and however its limits are set (json.c 1741-1804, 1862-1912).     *)
THEOREM ParserInBounds == FileSpec => []InBounds
<1>1. FileInit => ParserInv(parser)
  BY InitInv DEF FileInit
<1>2. ParserInv(parser) /\ [FileNext]_filevars => ParserInv(parser)'
  <2> SUFFICES ASSUME ParserInv(parser), [FileNext]_filevars
               PROVE  ParserInv(parser')
    OBVIOUS
  <2>1. CASE Write  BY <2>1 DEF Write
  <2>2. CASE PrintEvent  BY <2>2 DEF PrintEvent
  <2>3. CASE Read
    <3>1. /\ parser.ret = "SUCCESS"
          /\ parser' = json_parser_char(parser, Head(unread))
      BY <2>3 DEF Read, Reading
    <3> QED BY <3>1, CharInv
  <2>4. CASE UNCHANGED filevars  BY <2>4 DEF filevars
  <2> QED BY <2>1, <2>2, <2>3, <2>4 DEF FileNext
<1>3. ParserInv(parser) => InBounds
  BY DEF ParserInv, Room, Sizes, InBounds
<1> QED BY <1>1, <1>2, <1>3, PTL DEF FileSpec
-----------------------------------------------------------------------------
(* Documents *)

(* At the beginning nothing is open and nothing was called.                *)
LEMMA InitNest ==
    ASSUME NEW config \in Configs
    PROVE  NestInv(json_parser_init(config))
<1> DEFINE p == json_parser_init(config)
<1>1. /\ HasFields(p) /\ p.state = "GO" /\ p.save_state = "GO" /\ p.type = "NONE"
      /\ p.expecting_key = FALSE /\ p.stack = <<>> /\ p.calls = <<>>
  BY DEF json_parser_init, HasFields, Fields
<1> HIDE DEF p
<1>2. IsSeq(p.calls) /\ DOMAIN p.calls = {}
  BY <1>1, NoElements
<1>3. Core(p)
  BY <1>1, <1>2 DEF Core, Nested
<1>4. p.stack \in Seq(Modes) /\ p.stack = Open(p.calls)
  BY <1>1, OpenNone
<1>5. Resumed(p) = "GO" /\ p.state \in States
  BY <1>1 DEF Resumed, CommentStates, States, BlankStates
<1>6. Position(p, "GO")
  BY <1>1 DEF Position, BlankStates, StringStates, NumberStates, LiteralStates
<1> QED BY <1>3, <1>4, <1>5, <1>6 DEF NestInv, Whole, p

(* The parser of a file is at a place of a document, as long as it goes on. *)
LEMMA NestInvariance == FileSpec => []NestInv(parser)
<1>1. FileInit => NestInv(parser)
  BY InitNest DEF FileInit
<1>2. NestInv(parser) /\ [FileNext]_filevars => NestInv(parser)'
  <2> SUFFICES ASSUME NestInv(parser), [FileNext]_filevars
               PROVE  NestInv(parser')
    OBVIOUS
  <2>1. CASE Write  BY <2>1 DEF Write
  <2>2. CASE PrintEvent  BY <2>2 DEF PrintEvent
  <2>3. CASE Read
    <3>1. /\ parser.ret = "SUCCESS"
          /\ parser' = json_parser_char(parser, Head(unread))
      BY <2>3 DEF Read, Reading
    <3> QED BY <3>1, CharNest
  <2>4. CASE UNCHANGED filevars  BY <2>4 DEF filevars
  <2> QED BY <2>1, <2>2, <2>3, <2>4 DEF FileNext
<1> QED BY <1>1, <1>2, PTL DEF FileSpec

(* Whatever a file holds, and with or without an error, what the callback  *)
(* got is the beginning of a document (json.c 1766-1773, 1981-2030).       *)
THEOREM CallsAreNested == FileSpec => []WellNested
<1>1. NestInv(parser) => WellNested
  BY DEF NestInv, Core, Nested, WellNested
<1> QED BY <1>1, NestInvariance, PTL

(* The stack is what was opened and not closed, and the parser is done     *)
(* only at the end of a document, or in a comment before it                *)
(* (json.c 2135-2139).                                                     *)
THEOREM DoneIsComplete == FileSpec => []DoneMeansComplete
<1>1. NestInv(parser) => DoneMeansComplete
  <2> SUFFICES ASSUME NestInv(parser), parser.ret = "SUCCESS"
               PROVE  /\ parser.stack = Open(parser.calls)
                      /\ json_parser_is_done(parser) =>
                             \/ IsComplete(parser.calls)
                             \/ parser.calls = <<>> /\ InComment(parser)
    BY DEF DoneMeansComplete
  <2> DEFINE s == Resumed(parser)
  <2>1. /\ parser.stack = Open(parser.calls)
        /\ parser.state \in States /\ Position(parser, s)
    BY DEF NestInv, Whole
  <2>2. ASSUME parser.stack = <<>>, parser.state # "GO"
        PROVE  \/ IsComplete(parser.calls)
               \/ parser.calls = <<>> /\ InComment(parser)
    <3>1. ~ KeyFits(parser) /\ ~ ValueFits(parser)
          /\ ~ InObject(parser) /\ ~ InArray(parser)
      BY <2>2 DEF KeyFits, ValueFits, InObject, InArray
    <3>2. s \in States \ CommentStates
      BY <2>1 DEF Resumed, States, CommentStates, BlankStates, StringStates,
                  NumberStates, LiteralStates
    <3>3. s = "GO" => parser.calls = <<>> /\ InComment(parser)
      BY <2>1, <2>2 DEF Position, Resumed, InComment, CommentStates
    <3>4. s = "OK" => parser.calls # <<>>
      BY <2>1, <3>1 DEF Position
    <3>5. s \in {"GO", "OK"}
      <4> HIDE DEF s
      <4> QED BY <2>1, <3>1, <3>2 DEF Position, States, CommentStates, BlankStates,
                  StringStates, NumberStates, LiteralStates
    <3> QED BY <2>1, <2>2, <3>3, <3>4, <3>5 DEF IsComplete
  <2> QED BY <2>1, <2>2 DEF json_parser_is_done
<1> QED BY <1>1, NestInvariance, PTL
-----------------------------------------------------------------------------
(* The calls of one byte *)

Numbers == {"INT", "FLOAT"}

(* What one byte may add to the calls: at most a text that waited in the   *)
(* buffer, and an event that is no number.                                 *)
Tells(before, after) ==
    \/ after = before
    \/ \E e : after = Append(before, e)
    \/ \E d, e : after = Append(Append(before, d), e) /\ e.type \notin Numbers

(* The text in the buffer is one event, if it is any (json.c 1845-1860).   *)
LEMMA BufferTells ==
    ASSUME NEW p, HasFields(p)
    PROVE  LET q == do_buffer(p)
           IN  /\ HasFields(q) /\ q.ret = p.ret
               /\ q.calls = p.calls \/ \E e : q.calls = Append(p.calls, e)
<1> DEFINE c == IF p.type \in Texts THEN do_callback_withbuf(p, p.type) ELSE p
           q == [c EXCEPT !.buffer = <<>>]
<1>1. /\ HasFields(c) /\ c.ret = p.ret
      /\ c.calls = p.calls \/ c.calls = Append(p.calls, Event(p.type, p.buffer))
  BY DEF do_callback_withbuf, HasFields, Fields
<1> HIDE DEF c
<1>2. HasFields(q) /\ q.ret = c.ret /\ q.calls = c.calls
  BY <1>1 DEF HasFields, Fields
<1>3. do_buffer(p) = q
  BY DEF do_buffer, c
<1> HIDE DEF q
<1> QED BY <1>1, <1>2, <1>3

(* A callback is one event.                                                *)
LEMMA CallbackTells ==
    ASSUME NEW p, HasFields(p), NEW type
    PROVE  /\ HasFields(do_callback(p, type))
           /\ do_callback(p, type).ret = p.ret
           /\ do_callback(p, type).calls = Append(p.calls, Event(type, <<>>))
           /\ HasFields(do_callback_withbuf(p, type))
           /\ \E e : do_callback_withbuf(p, type).calls = Append(p.calls, e)
<1>1. /\ HasFields(do_callback(p, type))
      /\ do_callback(p, type).ret = p.ret
      /\ do_callback(p, type).calls = Append(p.calls, Event(type, <<>>))
  BY DEF do_callback, HasFields, Fields
<1>2. /\ HasFields(do_callback_withbuf(p, type))
      /\ do_callback_withbuf(p, type).calls
             = Append(p.calls, Event(type, p.buffer))
  BY DEF do_callback_withbuf, HasFields, Fields
<1> QED BY <1>1, <1>2

(* What is called for an action tells at most one event, and one that is   *)
(* no number if the buffer may have told one before (json.c 1954-2037).    *)
LEMMA CalledTells ==
    ASSUME NEW p, HasFields(p), p.ret = "SUCCESS", NEW a \in Actions
    PROVE  LET q == Called(p, a)
           IN  /\ HasFields(q)
               /\ \/ q.calls = p.calls
                  \/ \E e : /\ q.calls = Append(p.calls, e)
                            /\ a \in DoBuffer => e.type \notin Numbers
<1> DEFINE Ok(q) == /\ HasFields(q)
                    /\ \/ q.calls = p.calls
                       \/ \E e : /\ q.calls = Append(p.calls, e)
                                 /\ a \in DoBuffer => e.type \notin Numbers
<1>f. \A q, e : HasFields(q) => HasFields(Fail(q, e)) /\ Fail(q, e).calls = q.calls
  BY FailDoc DEF SameDoc
<1>1. CASE a = "SP"
  <2>1. Called(p, a) = act_sp(p)  BY <1>1, Zenon DEF Called
  <2> DEFINE k == [p EXCEPT !.expecting_key = TRUE, !.state = "_K"]
             v == [p EXCEPT !.state = "_V"]
  <2>2. act_sp(p) \in {Fail(p, "COMMA_OUT_OF_STRUCTURE"), k, v}
    BY DEF act_sp
  <2>3. HasFields(k) /\ k.calls = p.calls /\ HasFields(v) /\ v.calls = p.calls
    BY DEF HasFields, Fields
  <2> HIDE DEF k, v
  <2> QED BY <2>1, <2>2, <2>3, <1>f
<1>2. CASE a = "AB"
  <2> DEFINE c == do_callback(p, "ARRAY_BEGIN")
  <2>1. Called(p, a) = state_push(c, "ARRAY")
    BY <1>2, Zenon DEF Called, act_ab
  <2>2. HasFields(c) /\ c.calls = Append(p.calls, Event("ARRAY_BEGIN", <<>>))
    BY CallbackTells
  <2>3. a \notin DoBuffer  BY <1>2 DEF DoBuffer
  <2> HIDE DEF c
  <2>4. HasFields(state_push(c, "ARRAY")) /\ state_push(c, "ARRAY").calls = c.calls
    BY <2>2, PushDoc
  <2> QED BY <2>1, <2>2, <2>3, <2>4
<1>3. CASE a = "AE"
  <2> DEFINE q == state_pop(p, "ARRAY")
  <2>1. Called(p, a) = IF q.ret # "SUCCESS" THEN q ELSE do_callback(q, "ARRAY_END")
    BY <1>3, Zenon DEF Called, act_ae
  <2>2. HasFields(q) /\ q.calls = p.calls
    BY PopDoc
  <2> HIDE DEF q
  <2>3. /\ HasFields(do_callback(q, "ARRAY_END"))
        /\ do_callback(q, "ARRAY_END").calls = Append(p.calls, Event("ARRAY_END", <<>>))
    BY <2>2, CallbackTells
  <2>4. Event("ARRAY_END", <<>>).type \notin Numbers
    BY EventType DEF Numbers
  <2> QED BY <2>1, <2>2, <2>3, <2>4
<1>4. CASE a = "OB"
  <2> DEFINE c == do_callback(p, "OBJECT_BEGIN")
             q == state_push(c, "OBJECT")
             r == [q EXCEPT !.expecting_key = TRUE]
  <2>1. Called(p, a) = IF q.ret # "SUCCESS" THEN q ELSE r
    BY <1>4, Zenon DEF Called, act_ob
  <2>2. HasFields(c) /\ c.calls = Append(p.calls, Event("OBJECT_BEGIN", <<>>))
    BY CallbackTells
  <2>3. a \notin DoBuffer  BY <1>4 DEF DoBuffer
  <2>4. HasFields(q) /\ q.calls = c.calls
    <3> HIDE DEF c
    <3> QED BY <2>2, PushDoc
  <2> HIDE DEF c, q
  <2>5. HasFields(r) /\ r.calls = q.calls
    BY <2>4 DEF HasFields, Fields
  <2> HIDE DEF r
  <2> QED BY <2>1, <2>2, <2>3, <2>4, <2>5
<1>5. CASE a = "OE"
  <2> DEFINE q == state_pop(p, "OBJECT")
             c == do_callback(q, "OBJECT_END")
             r == [c EXCEPT !.expecting_key = FALSE]
  <2>1. Called(p, a) = IF q.ret # "SUCCESS" THEN q ELSE r
    BY <1>5, Zenon DEF Called, act_oe
  <2>2. HasFields(q) /\ q.calls = p.calls
    BY PopDoc
  <2>3. HasFields(c) /\ c.calls = Append(p.calls, Event("OBJECT_END", <<>>))
    <3> HIDE DEF q
    <3> QED BY <2>2, CallbackTells
  <2>4. Event("OBJECT_END", <<>>).type \notin Numbers
    BY EventType DEF Numbers
  <2> HIDE DEF q, c
  <2>5. HasFields(r) /\ r.calls = c.calls
    BY <2>3 DEF HasFields, Fields
  <2> HIDE DEF r
  <2> QED BY <2>1, <2>2, <2>3, <2>4, <2>5
<1>6. CASE a \in {"CB", "YB"}
  <2>0. \/ Called(p, a) = act_comment(p, p.config.allow_c_comments)
        \/ Called(p, a) = act_comment(p, p.config.allow_yaml_comments)
    BY <1>6, SMT DEF Called
  <2>1. PICK allowed : Called(p, a) = act_comment(p, allowed)
    BY <2>0, Zenon
  <2> DEFINE r == [p EXCEPT !.save_state = p.state]
  <2>2. act_comment(p, allowed) \in {Fail(p, "COMMENT_NOT_ALLOWED"), r}
    BY DEF act_comment
  <2>3. HasFields(r) /\ r.calls = p.calls
    BY DEF HasFields, Fields
  <2> HIDE DEF r
  <2> QED BY <2>1, <2>2, <2>3, <1>f
<1>7. CASE a = "CE"
  <2>1. PICK s : Called(p, a) = [p EXCEPT !.state = s]
    BY <1>7, Zenon DEF Called, act_ce
  <2> DEFINE r == [p EXCEPT !.state = s]
  <2>2. HasFields(r) /\ r.calls = p.calls
    BY DEF HasFields, Fields
  <2> HIDE DEF r
  <2>3. Called(p, a) = r
    BY <2>1 DEF r
  <2> QED BY <2>2, <2>3
<1>8. CASE a = "SE"
  <2> DEFINE c == do_callback_withbuf(p, IF p.expecting_key THEN "KEY"
                                                          ELSE "STRING")
             r == [c EXCEPT !.buffer = <<>>,
                            !.state = IF p.expecting_key THEN "CO" ELSE "OK",
                            !.expecting_key = FALSE]
  <2>1. Called(p, a) = r
    BY <1>8, Zenon DEF Called, act_se
  <2>2. HasFields(c) /\ \E e : c.calls = Append(p.calls, e)
    BY CallbackTells
  <2>3. a \notin DoBuffer  BY <1>8 DEF DoBuffer
  <2> HIDE DEF c
  <2>4. HasFields(r) /\ r.calls = c.calls
    BY <2>2 DEF HasFields, Fields
  <2> HIDE DEF r
  <2> QED BY <2>1, <2>2, <2>3, <2>4
<1>9. CASE a = "UC"
  <2> DEFINE d == decode_unicode_char(p)
             r == [d EXCEPT !.state = IF d.unicode_multi # 0 THEN "D1" ELSE "_S"]
  <2>1. Called(p, a) = IF d.ret # "SUCCESS" THEN d ELSE r
    BY <1>9, Zenon DEF Called, act_uc
  <2>2. HasFields(d) /\ d.calls = p.calls
    BY DecodeDoc DEF SameDoc
  <2> HIDE DEF d
  <2>3. HasFields(r) /\ r.calls = d.calls
    BY <2>2 DEF HasFields, Fields
  <2> HIDE DEF r
  <2> QED BY <2>1, <2>2, <2>3
<1>10. CASE a \in {"KS", "FA", "TR", "NU", "DE", "DF", "MX", "ZX", "IX"}
  <2>1. Called(p, a) = p  BY <1>10, Zenon DEF Called
  <2> QED BY <2>1
<1>11. a \in {"SP", "AB", "AE", "OB", "OE", "CB", "YB", "CE", "SE", "UC", "KS",
              "FA", "TR", "NU", "DE", "DF", "MX", "ZX", "IX"}
  BY DEF Actions
<1> HIDE DEF Ok
<1>12. Ok(Called(p, a))
  BY <1>1, <1>2, <1>3, <1>4, <1>5, <1>6, <1>7, <1>8, <1>9, <1>10, <1>11 DEF Ok
<1> QED BY <1>12 DEF Ok

(* An action tells no more (json.c 2061-2074).                             *)
LEMMA ActionTells ==
    ASSUME NEW p, HasFields(p), p.ret = "SUCCESS", NEW a \in Actions
    PROVE  Tells(p.calls, do_action(p, a).calls)
<1> DEFINE b == IF a \in DoBuffer THEN do_buffer(p) ELSE p
           q == Called(b, a)
<1>1. /\ HasFields(b) /\ b.ret = "SUCCESS"
      /\ \/ b.calls = p.calls
         \/ a \in DoBuffer /\ \E e : b.calls = Append(p.calls, e)
  BY BufferTells
<1> HIDE DEF b
<1>2. /\ HasFields(q)
      /\ \/ q.calls = b.calls
         \/ \E e : /\ q.calls = Append(b.calls, e)
                   /\ a \in DoBuffer => e.type \notin Numbers
  BY <1>1, CalledTells
<1>3. do_action(p, a).calls = q.calls
  <2>1. HasFields(Called(IF a \in DoBuffer THEN do_buffer(p) ELSE p, a))
    BY <1>2 DEF b
  <2> QED BY <2>1, ActionForm DEF b
<1> HIDE DEF q
<1> QED BY <1>1, <1>2, <1>3 DEF Tells

(* Nor does a byte, whatever it is (json.c 2145-2213).                     *)
LEMMA CharTells ==
    ASSUME NEW p, HasFields(p), p.ret = "SUCCESS", NEW ch
    PROVE  Tells(p.calls, json_parser_char(p, ch).calls)
<1> DEFINE With(n) == [p EXCEPT !.utf8_multibyte_left = n]
<1>1. \A n : HasFields(With(n)) /\ With(n).ret = "SUCCESS"
             /\ With(n).calls = p.calls
  BY DEF HasFields, Fields
<1>2. ASSUME NEW o, HasFields(o), o.ret = "SUCCESS", o.calls = p.calls, NEW class
      PROVE  Tells(p.calls, Moved(o, ch, class).calls)
  <2> DEFINE n == state_transition_table(o.state, class)
             q == Kept(o, ch, class)
             r == [q EXCEPT !.state = n]
  <2>1. HasFields(q) /\ q.calls = p.calls
    BY <1>2, KeptDoc DEF SameDoc
  <2>2. Moved(o, ch, class) = IF n = "__" THEN Fail(o, "UNEXPECTED_CHAR")
                              ELSE IF q.ret # "SUCCESS" THEN q
                              ELSE IF n \in Actions THEN do_action(q, n) ELSE r
    BY DEF Moved, IS_STATE_ACTION
  <2> HIDE DEF n, q
  <2>3. r.calls = p.calls
    BY <2>1 DEF HasFields, Fields
  <2> HIDE DEF r
  <2>4. Fail(o, "UNEXPECTED_CHAR").calls = p.calls
    BY <1>2, FailDoc DEF SameDoc
  <2>5. q.ret = "SUCCESS" /\ n \in Actions => Tells(p.calls, do_action(q, n).calls)
    BY <2>1, ActionTells
  <2> QED BY <2>1, <2>2, <2>3, <2>4, <2>5 DEF Tells
<1>3. \A q, e : HasFields(q) /\ q.calls = p.calls => Fail(q, e).calls = p.calls
  BY FailDoc DEF SameDoc
<1> DEFINE m == p.utf8_multibyte_left - 1
           left == utf8_header_table(ch)
<1>4. \/ json_parser_char(p, ch) = Fail(p, "UTF8")
      \/ json_parser_char(p, ch) = Moved(With(m), ch, "OTHER")
      \/ json_parser_char(p, ch) = Fail(With(left), "UTF8")
      \/ json_parser_char(p, ch) = Moved(With(left), ch, "OTHER")
      \/ json_parser_char(p, ch) = Fail(With(left), "BAD_CHAR")
      \/ json_parser_char(p, ch) = Moved(With(left), ch, character_class(ch))
  BY DEF json_parser_char
<1> HIDE DEF m, left, With
<1>5. \A n, class : Tells(p.calls, Moved(With(n), ch, class).calls)
  BY <1>1, <1>2
<1>6. \A n, e : /\ Tells(p.calls, Fail(With(n), e).calls)
                 /\ Tells(p.calls, Fail(p, e).calls)
  BY <1>1, <1>3 DEF Tells
<1> HIDE DEF Tells
<1> QED BY <1>4, <1>5, <1>6

-----------------------------------------------------------------------------
(* The numbers of the program *)

(* The last float is out of range: converting it left ERANGE behind.       *)
LastOut(calls) ==
    \E i \in Calls(calls, {"FLOAT"}) :
        /\ FloatOutOfRange(calls[i].data)
        /\ \A k \in Calls(calls, {"FLOAT"}) : k <= i

(* The numbers have their places, and the list the values of the first.    *)
InPlace(list, calls) ==
    \A i \in Calls(calls, Numbers) :
        /\ Nth(calls, i) \in 1..Cardinality(Calls(calls, Numbers))
        /\ Nth(calls, i) <= Len(list) => list[Nth(calls, i)] = Value(calls[i])

(* What NumbersFaithful says, and what erange stands for until the exit.   *)
NumberInv(r, calls) ==
    /\ IsSeq(calls) /\ IsSeq(r.list)
    /\ {"erange", "list", "exited"} \subseteq DOMAIN r
    /\ ~ r.exited => (r.erange <=> LastOut(calls))
    /\ r.exited <=> Exits(calls) # {}
    /\ IsFiniteSet(Calls(calls, Numbers))
    /\ Len(r.list) + (IF r.exited THEN 1 ELSE 0)
           = Cardinality(Calls(calls, Numbers))
    /\ InPlace(r.list, calls)

(* The call e is in more at n, after the calls there were, and each of     *)
(* them is where it was.                                                   *)
OneMoreCall(calls, e, more, n) ==
    /\ n \in Nat /\ more[n] = e
    /\ \A types :
           /\ \A i \in Calls(calls, types) :
                  i \in Nat /\ i < n /\ more[i] = calls[i]
           /\ n \notin Calls(calls, types)
           /\ e.type \notin types => Calls(more, types) = Calls(calls, types)
           /\ e.type \in types => Calls(more, types) = Calls(calls, types) \cup {n}

(* The calls of a type after one more.                                     *)
LEMMA CallsAppend ==
    ASSUME NEW calls, IsSeq(calls), NEW e,
           NEW more, more = Append(calls, e), NEW n, n = Len(calls) + 1
    PROVE  OneMoreCall(calls, e, more, n)
<1>1. PICK S : calls \in Seq(S)
  BY DEF IsSeq
<1>2. /\ Len(calls) \in Nat
      /\ DOMAIN calls = 1..Len(calls)
      /\ DOMAIN more = 1..n
      /\ more[n] = e
      /\ \A i \in 1..Len(calls) : more[i] = calls[i]
  BY <1>1
<1>3. \A i \in 1..n : i \in 1..Len(calls) \/ i = n
  BY <1>2
<1>4. \A i \in 1..Len(calls) : i \in 1..n /\ i < n /\ i \in Nat
  BY <1>2
<1>5. n \in 1..n /\ n \in Nat /\ n \notin 1..Len(calls)
  BY <1>2
<1>6. \A types, i :
          i \in Calls(more, types)
             <=> i \in Calls(calls, types) \/ (i = n /\ e.type \in types)
  <2> TAKE types, i
  <2>1. i \in Calls(more, types) <=> i \in 1..n /\ more[i].type \in types
    BY <1>2 DEF Calls
  <2>2. i \in Calls(calls, types)
            <=> i \in 1..Len(calls) /\ calls[i].type \in types
    BY <1>2 DEF Calls
  <2> QED BY <1>2, <1>3, <1>4, <1>5, <2>1, <2>2
<1>7. ASSUME NEW types
      PROVE  /\ e.type \notin types => Calls(more, types) = Calls(calls, types)
             /\ e.type \in types =>
                    Calls(more, types) = Calls(calls, types) \cup {n}
  <2> DEFINE before == Calls(calls, types)
             after  == Calls(more, types)
  <2>1. \A i : i \in after <=> i \in before \/ (i = n /\ e.type \in types)
    BY <1>6, Zenon
  <2> HIDE DEF before, after
  <2>2. e.type \notin types => after = before
    BY <2>1
  <2>3. e.type \in types => after = before \cup {n}
    BY <2>1
  <2> QED BY <2>2, <2>3 DEF before, after
<1>8. \A types : /\ \A i \in Calls(calls, types) :
                       i \in Nat /\ i < n /\ more[i] = calls[i]
                 /\ n \notin Calls(calls, types)
  BY <1>2, <1>4, <1>5 DEF Calls
<1> QED BY <1>2, <1>5, <1>7, <1>8 DEF OneMoreCall

(* The program has to exit at e, which comes after calls.                  *)
ExitsAt(calls, e) ==
    \/ e.type = "FLOAT" /\ e.data \in RoundedToMin
    \/ e.type = "INT" /\ (IntOutOfRange(e.data) \/ LastOut(calls))

(* One more call is one to exit at or not, and leaves the others as they   *)
(* were.                                                                   *)
LEMMA ExitsAppend ==
    ASSUME NEW calls, NEW e, NEW more, NEW n, OneMoreCall(calls, e, more, n)
    PROVE  /\ ExitsAt(calls, e) => Exits(more) = Exits(calls) \cup {n}
           /\ ~ ExitsAt(calls, e) => Exits(more) = Exits(calls)
           /\ e.type = "FLOAT" => (LastOut(more) <=> FloatOutOfRange(e.data))
           /\ e.type # "FLOAT" => (LastOut(more) <=> LastOut(calls))
<1> DEFINE F == Calls(calls, {"FLOAT"})
           G == Calls(more, {"FLOAT"})
           I == Calls(calls, {"INT"})
           J == Calls(more, {"INT"})
<1>1. /\ n \in Nat /\ more[n] = e
      /\ \A i \in F : i \in Nat /\ i < n /\ more[i] = calls[i]
      /\ e.type # "FLOAT" => G = F
      /\ e.type = "FLOAT" => G = F \cup {n}
  BY DEF OneMoreCall
<1>2. /\ \A i \in I : i \in Nat /\ i < n /\ more[i] = calls[i]
      /\ e.type # "INT" => J = I
      /\ e.type = "INT" => J = I \cup {n}
  BY DEF OneMoreCall
<1>3. /\ \A i : AfterRange(calls, i) <=>
                  \E k \in F : /\ k < i /\ FloatOutOfRange(calls[k].data)
                               /\ \A m \in F : m < i => m <= k
      /\ \A i : AfterRange(more, i) <=>
                  \E k \in G : /\ k < i /\ FloatOutOfRange(more[k].data)
                               /\ \A m \in G : m < i => m <= k
      /\ LastOut(calls) <=> \E i \in F : /\ FloatOutOfRange(calls[i].data)
                                         /\ \A k \in F : k <= i
      /\ LastOut(more) <=> \E i \in G : /\ FloatOutOfRange(more[i].data)
                                        /\ \A k \in G : k <= i
  BY Zenon DEF AfterRange, LastOut
<1>4. /\ \A i : i \in Exits(calls) <=>
                  \/ i \in F /\ calls[i].data \in RoundedToMin
                  \/ i \in I /\ (IntOutOfRange(calls[i].data) \/ AfterRange(calls, i))
      /\ \A i : i \in Exits(more) <=>
                  \/ i \in G /\ more[i].data \in RoundedToMin
                  \/ i \in J /\ (IntOutOfRange(more[i].data) \/ AfterRange(more, i))
  BY Zenon DEF Exits
<1> HIDE DEF F, G, I, J
<1>5. ASSUME NEW i \in I PROVE AfterRange(more, i) <=> AfterRange(calls, i)
  BY <1>1, <1>2, <1>3, <1>5
<1>6. e.type # "FLOAT" => (AfterRange(more, n) <=> LastOut(calls))
  BY <1>1, <1>3
<1>7. e.type = "FLOAT" => (LastOut(more) <=> FloatOutOfRange(e.data))
  <2>1. \A i \in F : ~ (n <= i)
    BY <1>1
  <2>2. n <= n /\ \A i \in F : i <= n
    BY <1>1
  <2> QED BY <1>1, <1>3, <2>1, <2>2
<1>8. e.type # "FLOAT" => (LastOut(more) <=> LastOut(calls))
  BY <1>1, <1>3
<1>9. ASSUME NEW i
      PROVE  i \in Exits(more) <=> i \in Exits(calls) \/ (i = n /\ ExitsAt(calls, e))
  <2>1. n \notin F /\ n \notin I
    BY <1>1, <1>2
  <2>2. i \in G /\ more[i].data \in RoundedToMin
            <=> \/ i \in F /\ calls[i].data \in RoundedToMin
                \/ i = n /\ e.type = "FLOAT" /\ e.data \in RoundedToMin
    BY <1>1, Zenon
  <2>3. i \in J /\ (IntOutOfRange(more[i].data) \/ AfterRange(more, i))
            <=> \/ i \in I /\ (IntOutOfRange(calls[i].data) \/ AfterRange(calls, i))
                \/ i = n /\ e.type = "INT" /\ (IntOutOfRange(e.data) \/ LastOut(calls))
    <3>1. e.type = "INT" => (AfterRange(more, n) <=> LastOut(calls))
      BY <1>6
    <3>2. i \in I => i # n /\ more[i] = calls[i]
                     /\ (AfterRange(more, i) <=> AfterRange(calls, i))
      BY <1>2, <1>5, <2>1
    <3> QED BY <1>1, <1>2, <3>1, <3>2, Zenon
  <2> QED BY <1>4, <2>2, <2>3, Zenon DEF ExitsAt
<1> DEFINE A == Exits(calls)
           B == Exits(more)
<1>10. \A i : i \in B <=> i \in A \/ (i = n /\ ExitsAt(calls, e))
  BY <1>9
<1> HIDE DEF A, B
<1>11. /\ ExitsAt(calls, e) => B = A \cup {n}
       /\ ~ ExitsAt(calls, e) => B = A
  BY <1>10
<1> QED BY <1>7, <1>8, <1>11 DEF A, B

(* The places of the numbers there were do not change.                     *)
LEMMA NthAppend ==
    ASSUME NEW calls, NEW e, NEW more, NEW n, OneMoreCall(calls, e, more, n)
    PROVE  /\ \A i \in Calls(calls, Numbers) :
                  Nth(more, i) = Nth(calls, i) /\ more[i] = calls[i]
           /\ e.type \in Numbers => Nth(more, n) = Cardinality(Calls(more, Numbers))
<1> DEFINE C == Calls(calls, Numbers)
           D == Calls(more, Numbers)
<1>1. /\ n \in Nat
      /\ \A i \in C : i \in Nat /\ i < n /\ more[i] = calls[i]
      /\ e.type \notin Numbers => D = C
      /\ e.type \in Numbers => D = C \cup {n}
  BY DEF OneMoreCall
<1>2. /\ \A i : Nth(calls, i) = Cardinality({k \in C : k <= i})
      /\ \A i : Nth(more, i) = Cardinality({k \in D : k <= i})
  <2>1. Numbers = {"INT", "FLOAT"}
    BY DEF Numbers
  <2> QED BY <2>1, Zenon DEF Nth
<1> HIDE DEF C, D
<1>3. ASSUME NEW i \in C PROVE Nth(more, i) = Nth(calls, i)
  <2>1. ~ (n <= i)
    BY <1>1, <1>3
  <2>2. {k \in D : k <= i} = {k \in C : k <= i}
    BY <1>1, <2>1
  <2> QED BY <1>2, <2>2
<1>4. e.type \in Numbers => Nth(more, n) = Cardinality(D)
  <2>1. ASSUME e.type \in Numbers PROVE {k \in D : k <= n} = D
    <3>1. \A k \in D : k <= n
      BY <1>1, <2>1
    <3> QED BY <3>1
  <2> QED BY <1>2, <2>1
<1> QED BY <1>1, <1>3, <1>4 DEF C, D

(* An event that is no number changes nothing of it, not even after the    *)
(* exit (dump.c 98-144).                                                   *)
LEMMA OtherNumber ==
    ASSUME NEW r, NEW calls, NumberInv(r, calls), NEW e, e.type \notin Numbers
    PROVE  callback_append(r, e) = r /\ NumberInv(r, Append(calls, e))
<1> DEFINE more == Append(calls, e)
           n    == Len(calls) + 1
<1>1. callback_append(r, e) = r
  BY DEF callback_append, Numbers
<1>2. IsSeq(calls) /\ IsSeq(more)
  BY AppendSeq DEF NumberInv
<1>3. more = Append(calls, e) /\ n = Len(calls) + 1
  OBVIOUS
<1> HIDE DEF more, n
<1>4. OneMoreCall(calls, e, more, n)
  BY <1>2, <1>3, CallsAppend
<1>5. e.type # "FLOAT" /\ e.type # "INT"
  BY DEF Numbers
<1>6. Exits(more) = Exits(calls) /\ (LastOut(more) <=> LastOut(calls))
  BY <1>4, <1>5, ExitsAppend DEF ExitsAt
<1>7. Calls(more, Numbers) = Calls(calls, Numbers)
  BY <1>4 DEF OneMoreCall
<1>8. InPlace(r.list, more)
  BY <1>4, <1>7, NthAppend DEF InPlace, NumberInv
<1>9. NumberInv(r, more)
  BY <1>2, <1>6, <1>7, <1>8 DEF NumberInv
<1> QED BY <1>1, <1>3, <1>9

(* A number is kept as it is in the file, or the program exits at it.      *)
LEMMA OneNumber ==
    ASSUME NEW r, NEW calls, NumberInv(r, calls), ~ r.exited,
           NEW e, e.type \in Numbers,
           NEW q, {"erange", "list", "exited"} \subseteq DOMAIN q,
           q.exited <=> ExitsAt(calls, e),
           q.exited => q.list = r.list,
           ~ q.exited => q.list = Append(r.list, Value(e)),
           ~ q.exited => (q.erange <=> IF e.type = "FLOAT"
                                       THEN FloatOutOfRange(e.data) ELSE r.erange)
    PROVE  NumberInv(q, Append(calls, e))
<1> DEFINE more == Append(calls, e)
           n    == Len(calls) + 1
           card == Cardinality(Calls(calls, Numbers))
<1>1. IsSeq(calls) /\ IsSeq(more) /\ IsSeq(r.list) /\ Len(r.list) \in Nat
      /\ card = Len(r.list)
  BY AppendSeq, LenNat DEF NumberInv
<1>2. more = Append(calls, e) /\ n = Len(calls) + 1
  OBVIOUS
<1> HIDE DEF more, n
<1>3. OneMoreCall(calls, e, more, n)
  BY <1>1, <1>2, CallsAppend
<1>4. /\ Calls(more, Numbers) = Calls(calls, Numbers) \cup {n}
      /\ n \notin Calls(calls, Numbers) /\ more[n] = e
  BY <1>3 DEF OneMoreCall
<1>5. /\ IsFiniteSet(Calls(more, Numbers))
      /\ Cardinality(Calls(more, Numbers)) = card + 1
  BY <1>4, FS_AddElement DEF NumberInv
<1>6. Exits(calls) = {} /\ (r.erange <=> LastOut(calls)) /\ InPlace(r.list, calls)
  BY DEF NumberInv
<1>7. q.exited <=> Exits(more) # {}
  <2>1. /\ ExitsAt(calls, e) => Exits(more) = Exits(calls) \cup {n}
        /\ ~ ExitsAt(calls, e) => Exits(more) = Exits(calls)
    BY <1>3, ExitsAppend, Zenon
  <2>2. /\ ExitsAt(calls, e) => Exits(more) # {}
        /\ ~ ExitsAt(calls, e) => Exits(more) = {}
    BY <1>6, <2>1
  <2> QED BY <2>2, Zenon
<1>8. ~ q.exited => (q.erange <=> LastOut(more))
  BY <1>3, <1>6, ExitsAppend
<1>9. /\ \A i \in Calls(calls, Numbers) :
             /\ Nth(more, i) = Nth(calls, i) /\ more[i] = calls[i]
             /\ Nth(calls, i) \in 1..card
             /\ r.list[Nth(calls, i)] = Value(calls[i])
      /\ Nth(more, n) = card + 1
  <2>1. \A i \in Calls(calls, Numbers) : Nth(more, i) = Nth(calls, i) /\ more[i] = calls[i]
    BY <1>3, NthAppend
  <2>2. Nth(more, n) = card + 1
    BY <1>3, <1>5, NthAppend
  <2>3. \A i \in Calls(calls, Numbers) :
            /\ Nth(calls, i) \in 1..card
            /\ Nth(calls, i) <= Len(r.list) => r.list[Nth(calls, i)] = Value(calls[i])
    BY <1>6 DEF InPlace
  <2> HIDE DEF card
  <2> QED BY <1>1, <2>1, <2>2, <2>3
<1> HIDE DEF card
<1>10. CASE q.exited
  <2>1. q.list = r.list
    BY <1>10
  <2>2. InPlace(q.list, more)
    <3>1. ASSUME NEW i \in Calls(more, Numbers)
          PROVE  /\ Nth(more, i) \in 1..card + 1
                 /\ Nth(more, i) <= Len(r.list) => r.list[Nth(more, i)] = Value(more[i])
      <4>1. CASE i = n
        BY <1>1, <1>9, <4>1
      <4>2. CASE i \in Calls(calls, Numbers)
        BY <1>1, <1>9, <4>2
      <4> QED BY <1>4, <4>1, <4>2
    <3> QED BY <1>5, <2>1, <3>1 DEF InPlace
  <2>3. Len(q.list) + 1 = Cardinality(Calls(more, Numbers)) /\ IsSeq(q.list)
    BY <1>1, <1>5, <2>1
  <2> QED BY <1>1, <1>5, <1>7, <1>8, <1>10, <2>2, <2>3 DEF NumberInv, more
<1>11. CASE ~ q.exited
  <2>1. q.list = Append(r.list, Value(e))
    BY <1>11
  <2>2. /\ IsSeq(q.list) /\ Len(q.list) = Len(r.list) + 1
        /\ q.list[Len(r.list) + 1] = Value(e)
        /\ \A k \in 1..Len(r.list) : q.list[k] = r.list[k]
    <3>1. PICK S : r.list \in Seq(S)
      BY <1>1 DEF IsSeq
    <3>2. r.list \in Seq(S \cup {Value(e)})
      BY <3>1
    <3> QED BY <1>1, <2>1, <3>2, AppendSeq
  <2>3. InPlace(q.list, more)
    <3>1. ASSUME NEW i \in Calls(more, Numbers)
          PROVE  /\ Nth(more, i) \in 1..card + 1
                 /\ q.list[Nth(more, i)] = Value(more[i])
      <4>1. CASE i = n
        BY <1>1, <1>4, <1>9, <2>2, <4>1
      <4>2. CASE i \in Calls(calls, Numbers)
        BY <1>1, <1>9, <2>2, <4>2
      <4> QED BY <1>4, <4>1, <4>2
    <3> QED BY <1>5, <3>1 DEF InPlace
  <2>4. Len(q.list) + 0 = Cardinality(Calls(more, Numbers))
    BY <1>1, <1>5, <2>2
  <2> QED BY <1>1, <1>5, <1>7, <1>8, <1>11, <2>2, <2>3, <2>4 DEF NumberInv, more
<1> QED BY <1>10, <1>11

(* A float is kept, also out of range, unless it becomes FLT_MIN (dump.c   *)
(* 106-125).                                                               *)
LEMMA FloatNumber ==
    ASSUME NEW r, NEW calls, NumberInv(r, calls), ~ r.exited,
           NEW e, e.type = "FLOAT"
    PROVE  NumberInv(callback_append(r, e), Append(calls, e))
<1> DEFINE q == callback_append(r, e)
<1>1. q = IF e.data \in RoundedToMin
          THEN [r EXCEPT !.erange = TRUE, !.exited = TRUE]
          ELSE [r EXCEPT !.erange = FloatOutOfRange(e.data), !.list = Append(@, e.data)]
  BY DEF callback_append
<1>2. /\ {"erange", "list", "exited"} \subseteq DOMAIN q
      /\ IF e.data \in RoundedToMin
         THEN q.exited /\ q.list = r.list
         ELSE /\ ~ q.exited /\ (q.erange <=> FloatOutOfRange(e.data))
              /\ q.list = Append(r.list, e.data)
  BY <1>1 DEF NumberInv
<1> HIDE DEF q
<1>3. e.type \in Numbers /\ Value(e) = e.data
      /\ (ExitsAt(calls, e) <=> e.data \in RoundedToMin)
  BY DEF Numbers, Value, ExitsAt
<1>4. NumberInv(q, Append(calls, e))
  BY <1>2, <1>3, OneNumber
<1> QED BY <1>4 DEF q

(* An integer is kept, or ends the program if it is out of range or comes  *)
(* after a float that is (dump.c 126-142).                                 *)
LEMMA IntNumber ==
    ASSUME NEW r, NEW calls, NumberInv(r, calls), ~ r.exited,
           NEW e, e.type = "INT"
    PROVE  NumberInv(callback_append(r, e), Append(calls, e))
<1> DEFINE q == callback_append(r, e)
<1>1. q = IF r.erange \/ IntOutOfRange(e.data)
          THEN [r EXCEPT !.erange = TRUE, !.exited = TRUE]
          ELSE [r EXCEPT !.list = Append(@, strtoimax(e.data))]
  BY DEF callback_append
<1>2. /\ {"erange", "list", "exited"} \subseteq DOMAIN q
      /\ IF r.erange \/ IntOutOfRange(e.data)
         THEN q.exited /\ q.list = r.list
         ELSE /\ ~ q.exited /\ q.erange = r.erange
              /\ q.list = Append(r.list, strtoimax(e.data))
  BY <1>1 DEF NumberInv
<1> HIDE DEF q
<1>3. ~ IntOutOfRange(e.data) => strtoimax(e.data) = Value(e)
  <2> DEFINE d == Decimal(e.data)
             neg == IsNegative(e.data)
  <2>1. /\ IntOutOfRange(e.data) <=> d > IF neg THEN INTMAX + 1 ELSE INTMAX
        /\ strtoimax(e.data) = IF neg THEN (IF d > INTMAX + 1 THEN -INTMAX - 1 ELSE -d)
                               ELSE IF d > INTMAX THEN INTMAX ELSE d
        /\ Value(e) = IF neg THEN -d ELSE d
    BY Zenon DEF IntOutOfRange, strtoimax, Value
  <2> HIDE DEF d, neg
  <2> QED BY <2>1
<1>4. e.type \in Numbers /\ e.type # "FLOAT"
      /\ (ExitsAt(calls, e) <=> IntOutOfRange(e.data) \/ r.erange)
  BY DEF Numbers, ExitsAt, NumberInv
<1>5. NumberInv(q, Append(calls, e))
  BY <1>2, <1>3, <1>4, OneNumber
<1> QED BY <1>5 DEF q

(* Any event, until the exit.                                              *)
LEMMA AnyNumber ==
    ASSUME NEW r, NEW calls, NumberInv(r, calls), ~ r.exited, NEW e
    PROVE  NumberInv(callback_append(r, e), Append(calls, e))
BY OtherNumber, FloatNumber, IntNumber DEF Numbers

(* What the reader does with no call, with one and with two.               *)
LEMMA AppendAllSteps ==
    ASSUME NEW r, NEW calls
    PROVE  /\ Len(calls) = 0 => AppendAll(r, calls) = r
           /\ Len(calls) = 1 => AppendAll(r, calls) = callback_append(r, calls[1])
           /\ Len(calls) = 2 => AppendAll(r, calls)
                  = callback_append(callback_append(r, calls[1]), calls[2])
<1> DEFINE N == Len(calls)
           Rule(h) == [n \in 0..N |-> IF n = 0 THEN r
                                      ELSE callback_append(h[n - 1], calls[n])]
           after == CHOOSE h : h = Rule(h)
           once == callback_append(r, calls[1])
           f == [n \in 0..N |-> IF n = 0 THEN r ELSE IF n = 1 THEN once
                                ELSE callback_append(once, calls[2])]
<1>1. AppendAll(r, calls) = after[N]
  BY Zenon DEF AppendAll
<1>2. ASSUME N \in 0..2 PROVE after = Rule(after)
  <2>1. f = Rule(f)
    <3>1. ASSUME NEW n \in 0..N
          PROVE  f[n] = IF n = 0 THEN r ELSE callback_append(f[n - 1], calls[n])
      <4> HIDE DEF once
      <4>1. CASE n = 0
        BY <4>1
      <4>2. CASE n = 1
        <5>1. 0 \in 0..N /\ f[0] = r /\ n - 1 = 0
          BY <1>2, <4>2
        <5>2. f[n] = once
          BY <4>2
        <5> QED BY <4>2, <5>1, <5>2 DEF once
      <4>3. CASE n = 2
        <5>1. 1 \in 0..N /\ f[1] = once /\ n - 1 = 1
          BY <1>2, <4>3
        <5>2. f[n] = callback_append(once, calls[2])
          BY <4>3
        <5> HIDE DEF f
        <5> QED BY <4>3, <5>1, <5>2
      <4> QED BY <1>2, <4>1, <4>2, <4>3
    <3>2. f = [n \in 0..N |-> f[n]]
      OBVIOUS
    <3> HIDE DEF f
    <3> QED BY <3>1, <3>2
  <2>2. \E h : h = Rule(h)
    <3> HIDE DEF f, Rule
    <3> QED BY <2>1
  <2> HIDE DEF Rule
  <2> QED BY <2>2, Zenon
<1> HIDE DEF after
<1>3. ASSUME N \in 0..2, NEW n \in 0..N
      PROVE  after[n] = IF n = 0 THEN r ELSE callback_append(after[n - 1], calls[n])
  BY <1>2, <1>3
<1> HIDE DEF N
<1>4. CASE N = 0
  <2>1. after[0] = r
    BY <1>3, <1>4
  <2> QED BY <1>1, <1>4, <2>1 DEF N
<1>5. CASE N = 1
  <2>1. after[0] = r
    BY <1>3, <1>5
  <2>2. after[1] = callback_append(after[0], calls[1])
    BY <1>3, <1>5
  <2> QED BY <1>1, <1>5, <2>1, <2>2 DEF N
<1>6. CASE N = 2
  <2>1. after[0] = r
    BY <1>3, <1>6
  <2>2. after[1] = callback_append(after[0], calls[1])
    BY <1>3, <1>6
  <2>3. after[2] = callback_append(after[1], calls[2])
    BY <1>3, <1>6
  <2> QED BY <1>1, <1>6, <2>1, <2>2, <2>3 DEF N
<1> QED BY <1>4, <1>5, <1>6 DEF N

(* What one byte brings.                                                   *)
LEMMA ByteNumbers ==
    ASSUME NEW r, NEW calls, NumberInv(r, calls), ~ r.exited,
           NEW more, Tells(calls, more)
    PROVE  NumberInv(AppendAll(r, SubSeq(more, Len(calls) + 1, Len(more))), more)
<1> DEFINE rest == SubSeq(more, Len(calls) + 1, Len(more))
<1>1. PICK S : calls \in Seq(S)
  BY DEF NumberInv, IsSeq
<1>2. CASE more = calls
  <2>1. Len(rest) = 0
    BY <1>1, <1>2
  <2> QED BY <1>2, <2>1, AppendAllSteps
<1>3. ASSUME NEW e, more = Append(calls, e)
      PROVE  NumberInv(AppendAll(r, rest), more)
  <2>1. calls \in Seq(S \cup {e})
    BY <1>1
  <2>2. Len(rest) = 1 /\ rest[1] = e
    BY <1>3, <2>1
  <2> HIDE DEF rest
  <2> QED BY <1>3, <2>2, AppendAllSteps, AnyNumber
<1>4. ASSUME NEW d, NEW e, more = Append(Append(calls, d), e), e.type \notin Numbers
      PROVE  NumberInv(AppendAll(r, rest), more)
  <2>1. calls \in Seq(S \cup {d, e})
    BY <1>1
  <2>2. /\ Append(calls, d) \in Seq(S \cup {d, e})
        /\ Len(Append(calls, d)) = Len(calls) + 1
        /\ Append(calls, d)[Len(calls) + 1] = d
    BY <2>1
  <2>3. /\ more \in Seq(S \cup {d, e}) /\ Len(more) = Len(calls) + 2
        /\ more[Len(calls) + 1] = d /\ more[Len(calls) + 2] = e
    BY <1>4, <2>1, <2>2
  <2>4. Len(rest) = 2 /\ rest[1] = d /\ rest[2] = e
    BY <2>1, <2>3
  <2> DEFINE q == callback_append(r, d)
  <2>5. NumberInv(q, Append(calls, d))
    BY AnyNumber
  <2> HIDE DEF q, rest
  <2>6. callback_append(q, e) = q /\ NumberInv(q, more)
    BY <1>4, <2>5, OtherNumber
  <2> QED BY <2>4, <2>6, AppendAllSteps DEF q
<1> QED BY <1>2, <1>3, <1>4 DEF Tells

(* The program goes on with the numbers that are in the file, each with    *)
(* its value and in its place, and exits at just those it has to: a float  *)
(* that becomes FLT_MIN, an integer out of range or one that comes after a *)
(* float that is (dump.c 106-141).                                         *)
THEOREM NumbersAreFaithful == FileSpec => []NumbersFaithful
<1> DEFINE Inv == NestInv(parser) /\ NumberInv(reader, parser.calls)
<1>1. FileInit => Inv
  <2> SUFFICES ASSUME FileInit PROVE Inv
    OBVIOUS
  <2>1. PICK config \in Configs : parser = json_parser_init(config)
    BY DEF FileInit
  <2>2. NestInv(parser) /\ parser.calls = <<>>
    BY <2>1, InitNest DEF json_parser_init
  <2>3. /\ {"erange", "list", "exited"} \subseteq DOMAIN reader
        /\ ~ reader.exited /\ ~ reader.erange /\ reader.list = <<>>
    BY DEF FileInit
  <2>4. IsSeq(<<>>) /\ Len(<<>>) = 0 /\ DOMAIN <<>> = {}
    BY NoElements
  <2>5. \A types : Calls(<<>>, types) = {}
    BY <2>4 DEF Calls
  <2>6. Exits(<<>>) = {} /\ ~ LastOut(<<>>)
    BY <2>5 DEF Exits, LastOut
  <2>7. IsFiniteSet(Calls(<<>>, Numbers)) /\ Cardinality(Calls(<<>>, Numbers)) = 0
    BY <2>5, FS_EmptySet
  <2>8. InPlace(<<>>, <<>>)
    BY <2>5 DEF InPlace
  <2> QED BY <2>2, <2>3, <2>4, <2>6, <2>7, <2>8 DEF NumberInv
<1>2. Inv /\ [FileNext]_filevars => Inv'
  <2> SUFFICES ASSUME Inv, [FileNext]_filevars
               PROVE  Inv'
    OBVIOUS
  <2>1. CASE Write  BY <2>1 DEF Write
  <2>2. CASE PrintEvent  BY <2>2 DEF PrintEvent
  <2>3. CASE Read
    <3>1. /\ parser.ret = "SUCCESS" /\ ~ reader.exited
          /\ parser' = json_parser_char(parser, Head(unread))
          /\ reader' = AppendAll(reader, SubSeq(parser'.calls, Len(parser.calls) + 1,
                                                Len(parser'.calls)))
      BY <2>3 DEF Read, Reading
    <3>2. Tells(parser.calls, parser'.calls)
      BY <3>1, CharTells DEF NestInv, Core
    <3>3. NestInv(parser')
      BY <3>1, CharNest
    <3> QED BY <3>1, <3>2, <3>3, ByteNumbers
  <2>4. CASE UNCHANGED filevars  BY <2>4 DEF filevars
  <2> QED BY <2>1, <2>2, <2>3, <2>4 DEF FileNext
<1>3. Inv => NumbersFaithful
  BY DEF NumberInv, Numbers, InPlace, NumbersFaithful
<1> HIDE DEF Inv
<1> QED BY <1>1, <1>2, <1>3, PTL DEF FileSpec

-----------------------------------------------------------------------------
(* Two parsers that differ in what they remember of a comment              *)

(* The state a comment began in is not compared, nor the type of a text    *)
(* that waits.                                                             *)
Alike(p, q) ==
    /\ HasFields(p) /\ HasFields(q)
    /\ p.config = q.config
    /\ p.state = q.state
    /\ p.expecting_key = q.expecting_key
    /\ p.utf8_multibyte_left = q.utf8_multibyte_left
    /\ p.unicode_multi = q.unicode_multi
    /\ p.stack = q.stack /\ p.stack_size = q.stack_size
    /\ p.buffer = q.buffer /\ p.buffer_size = q.buffer_size
    /\ p.calls = q.calls /\ p.ret = q.ret

(* A change of one field, the same in both, keeps them alike. *)
LEMMA SetAlike ==
    ASSUME NEW p, NEW q, Alike(p, q), NEW v
    PROVE  /\ Alike([p EXCEPT !.ret = v], [q EXCEPT !.ret = v])
           /\ Alike([p EXCEPT !.state = v], [q EXCEPT !.state = v])
           /\ Alike([p EXCEPT !.expecting_key = v], [q EXCEPT !.expecting_key = v])
           /\ Alike([p EXCEPT !.utf8_multibyte_left = v],
                    [q EXCEPT !.utf8_multibyte_left = v])
           /\ Alike([p EXCEPT !.unicode_multi = v], [q EXCEPT !.unicode_multi = v])
           /\ Alike([p EXCEPT !.stack = v], [q EXCEPT !.stack = v])
           /\ Alike([p EXCEPT !.stack_size = v], [q EXCEPT !.stack_size = v])
           /\ Alike([p EXCEPT !.buffer = v], [q EXCEPT !.buffer = v])
           /\ Alike([p EXCEPT !.buffer_size = v], [q EXCEPT !.buffer_size = v])
           /\ Alike([p EXCEPT !.calls = v], [q EXCEPT !.calls = v])
<1> USE DEF Alike, HasFields, Fields
<1>1. Alike([p EXCEPT !.ret = v], [q EXCEPT !.ret = v])
  OBVIOUS
<1>2. Alike([p EXCEPT !.state = v], [q EXCEPT !.state = v])
  OBVIOUS
<1>3. Alike([p EXCEPT !.expecting_key = v], [q EXCEPT !.expecting_key = v])
  OBVIOUS
<1>4. Alike([p EXCEPT !.utf8_multibyte_left = v],
            [q EXCEPT !.utf8_multibyte_left = v])
  OBVIOUS
<1>5. Alike([p EXCEPT !.unicode_multi = v], [q EXCEPT !.unicode_multi = v])
  OBVIOUS
<1>6. Alike([p EXCEPT !.stack = v], [q EXCEPT !.stack = v])
  OBVIOUS
<1>7. Alike([p EXCEPT !.stack_size = v], [q EXCEPT !.stack_size = v])
  OBVIOUS
<1>8. Alike([p EXCEPT !.buffer = v], [q EXCEPT !.buffer = v])
  OBVIOUS
<1>9. Alike([p EXCEPT !.buffer_size = v], [q EXCEPT !.buffer_size = v])
  OBVIOUS
<1>10. Alike([p EXCEPT !.calls = v], [q EXCEPT !.calls = v])
  OBVIOUS
<1> HIDE DEF Alike, HasFields, Fields
<1> QED BY <1>1, <1>2, <1>3, <1>4, <1>5, <1>6, <1>7, <1>8, <1>9, <1>10, Zenon

(* So does the same error.                                                 *)
LEMMA FailAlike ==
    ASSUME NEW p, NEW q, Alike(p, q), NEW e
    PROVE  Alike(Fail(p, e), Fail(q, e))
BY SetAlike, Zenon DEF Fail

(* The stack of both grows and shrinks alike (json.c 1741-1773).           *)
LEMMA PushAlike ==
    ASSUME NEW p, NEW q, Alike(p, q), NEW mode
    PROVE  Alike(state_push(p, mode), state_push(q, mode))
<1> DEFINE g(r) == IF Len(r.stack) >= r.stack_size THEN state_grow(r) ELSE r
           w(r) == [r EXCEPT !.stack = Append(r.stack, mode)]
           b(r) == [r EXCEPT !.stack_size = 2 * r.stack_size]
<1>1. /\ p.stack = q.stack /\ p.stack_size = q.stack_size
      /\ p.config = q.config
  BY DEF Alike
<1>2. Alike(b(p), b(q))
  BY <1>1, SetAlike, Zenon
<1>3. Alike(g(p), g(q))
  <2>1. \A r : g(r) = IF ~ (Len(r.stack) >= r.stack_size) THEN r
                      ELSE IF r.config.max_nesting # 0 THEN Fail(r, "NESTING_LIMIT")
                      ELSE IF 2 * r.stack_size > Memory THEN Fail(r, "NO_MEMORY")
                      ELSE b(r)
    BY DEF state_grow
  <2> HIDE DEF g, b
  <2> QED BY <1>1, <1>2, <2>1, FailAlike
<1>4. \A r : state_push(r, mode) = IF g(r).ret # "SUCCESS" THEN g(r) ELSE w(g(r))
  BY DEF state_push
<1> HIDE DEF g
<1>5. g(p).stack = g(q).stack /\ g(p).ret = g(q).ret
  BY <1>3 DEF Alike
<1>6. Alike(w(g(p)), w(g(q)))
  BY <1>3, <1>5, SetAlike, Zenon
<1> HIDE DEF w
<1> QED BY <1>3, <1>4, <1>5, <1>6

(* Closing, too (json.c 1766-1773).                                        *)
LEMMA PopAlike ==
    ASSUME NEW p, NEW q, Alike(p, q), NEW mode
    PROVE  Alike(state_pop(p, mode), state_pop(q, mode))
<1> DEFINE w(r) == [r EXCEPT !.stack = SubSeq(r.stack, 1, Len(r.stack) - 1)]
<1>1. p.stack = q.stack
  BY DEF Alike
<1>2. Alike(w(p), w(q))
  BY <1>1, SetAlike, Zenon
<1>3. \A r : state_pop(r, mode) = IF r.stack = <<>> THEN Fail(r, "POP_EMPTY")
                                  ELSE IF r.stack[Len(r.stack)] # mode
                                  THEN Fail(w(r), "POP_UNEXPECTED_MODE") ELSE w(r)
  BY DEF state_pop
<1> HIDE DEF w
<1> QED BY <1>1, <1>2, <1>3, FailAlike

(* So does the buffer (json.c 1775-1804).                                  *)
LEMMA ByteAlike ==
    ASSUME NEW p, NEW q, Alike(p, q), NEW c
    PROVE  Alike(buffer_push(p, c), buffer_push(q, c))
<1> DEFINE g(r) == IF Len(r.buffer) + 1 >= r.buffer_size THEN buffer_grow(r) ELSE r
           w(r) == [r EXCEPT !.buffer = Append(r.buffer, c)]
           max(r) == r.config.max_data
           newsize(r) == IF max(r) > 0 /\ 2 * r.buffer_size > max(r) THEN max(r)
                         ELSE 2 * r.buffer_size
           b(r) == [r EXCEPT !.buffer_size = newsize(r)]
<1>1. /\ p.buffer = q.buffer /\ p.buffer_size = q.buffer_size
      /\ p.config = q.config /\ max(p) = max(q)
  BY DEF Alike
<1>2. newsize(p) = newsize(q)
  BY <1>1, Zenon
<1>3. \A r : g(r) = IF ~ (Len(r.buffer) + 1 >= r.buffer_size) THEN r
                    ELSE IF max(r) > 0 /\ r.buffer_size = max(r)
                    THEN Fail(r, "DATA_LIMIT")
                    ELSE IF newsize(r) > Memory THEN Fail(r, "NO_MEMORY")
                    ELSE b(r)
  BY DEF buffer_grow
<1> HIDE DEF newsize
<1>4. Alike(b(p), b(q))
  BY <1>2, SetAlike, Zenon
<1>5. \A r : buffer_push(r, c) = IF g(r).ret # "SUCCESS" THEN g(r) ELSE w(g(r))
  BY DEF buffer_push
<1> HIDE DEF g, b, max
<1>6. Alike(g(p), g(q))
  BY <1>1, <1>2, <1>3, <1>4, FailAlike
<1>7. g(p).buffer = g(q).buffer /\ g(p).ret = g(q).ret
  BY <1>6 DEF Alike
<1>8. Alike(w(g(p)), w(g(q)))
  BY <1>6, <1>7, SetAlike, Zenon
<1> HIDE DEF w
<1> QED BY <1>5, <1>6, <1>7, <1>8

(* Both tell the callback the same (json.c 1806-1843).                     *)
LEMMA CallbackAlike ==
    ASSUME NEW p, NEW q, Alike(p, q), NEW type
    PROVE  /\ Alike(do_callback(p, type), do_callback(q, type))
           /\ Alike(do_callback_withbuf(p, type), do_callback_withbuf(q, type))
<1>1. p.calls = q.calls /\ p.buffer = q.buffer
  BY DEF Alike
<1> DEFINE none(r) == Append(r.calls, Event(type, <<>>))
           text(r) == Append(r.calls, Event(type, r.buffer))
<1>2. none(p) = none(q) /\ text(p) = text(q)
  BY <1>1
<1>3. \A r : /\ do_callback(r, type) = [r EXCEPT !.calls = none(r)]
             /\ do_callback_withbuf(r, type) = [r EXCEPT !.calls = text(r)]
  BY DEF do_callback, do_callback_withbuf
<1> HIDE DEF none, text
<1>4. Alike([p EXCEPT !.calls = none(p)], [q EXCEPT !.calls = none(q)])
  BY <1>2, SetAlike, Zenon
<1>5. Alike([p EXCEPT !.calls = text(p)], [q EXCEPT !.calls = text(q)])
  BY <1>2, SetAlike, Zenon
<1> QED BY <1>3, <1>4, <1>5

(* The text that waits is the same, if the type is (json.c 1845-1860).     *)
LEMMA BufferAlike ==
    ASSUME NEW p, NEW q, Alike(p, q), p.type = q.type
    PROVE  Alike(do_buffer(p), do_buffer(q))
<1> DEFINE c(r) == IF r.type \in Texts THEN do_callback_withbuf(r, r.type) ELSE r
           w(r) == [r EXCEPT !.buffer = <<>>]
<1>1. Alike(c(p), c(q))
  BY CallbackAlike
<1>2. \A r : do_buffer(r) = w(c(r))
  BY DEF do_buffer
<1> HIDE DEF c
<1>3. Alike(w(c(p)), w(c(q)))
  BY <1>1, SetAlike, Zenon
<1> HIDE DEF w
<1> QED BY <1>2, <1>3

(* Both make the same character of the same digits (json.c 1862-1912).     *)
LEMMA DecodeAlike ==
    ASSUME NEW p, NEW q, Alike(p, q)
    PROVE  Alike(decode_unicode_char(p), decode_unicode_char(q))
<1> DEFINE n(r) == Len(r.buffer)
           uval(r) == 4096 * hex(r.buffer[n(r) - 3]) + 256 * hex(r.buffer[n(r) - 2])
                         + 16 * hex(r.buffer[n(r) - 1]) + hex(r.buffer[n(r)])
           kept(r) == SubSeq(r.buffer, 1, n(r) - 4)
           pair(r) == 65536 + 1024 * (r.unicode_multi % 1024) + (uval(r) % 1024)
           cut(r)  == [r EXCEPT !.buffer = kept(r)]
           high(r) == [cut(r) EXCEPT !.unicode_multi = uval(r)]
           one(r)  == [r EXCEPT !.buffer = kept(r) \o UTF8Bytes(uval(r))]
           two(r)  == [r EXCEPT !.buffer = kept(r) \o UTF8Bytes(pair(r)),
                                !.unicode_multi = 0]
<1>1. p.buffer = q.buffer /\ p.unicode_multi = q.unicode_multi
  BY DEF Alike
<1>2. kept(p) = kept(q) /\ uval(p) = uval(q)
  BY <1>1
<1>3. pair(p) = pair(q)
  <2> HIDE DEF uval
  <2> QED BY <1>1, <1>2
<1>4. \A r : decode_unicode_char(r)
             = IF r.unicode_multi # 0
               THEN IF ~ IS_LOW_SURROGATE(uval(r))
                    THEN Fail(cut(r), "UNICODE_MISSING_LOW_SURROGATE") ELSE two(r)
               ELSE IF IS_LOW_SURROGATE(uval(r))
               THEN Fail(cut(r), "UNICODE_UNEXPECTED_LOW_SURROGATE")
               ELSE IF IS_HIGH_SURROGATE(uval(r)) THEN high(r) ELSE one(r)
  BY SMT DEF decode_unicode_char
<1> HIDE DEF kept, uval, pair
<1>5. Alike(cut(p), cut(q)) /\ Alike(one(p), one(q))
  BY <1>2, SetAlike, Zenon
<1> HIDE DEF cut
<1>6. Alike(high(p), high(q))
  BY <1>2, <1>5, SetAlike, Zenon
<1>7. Alike(two(p), two(q))
  BY <1>2, <1>3 DEF Alike, HasFields, Fields
<1> HIDE DEF high, one, two
<1> QED BY <1>1, <1>2, <1>4, <1>5, <1>6, <1>7, FailAlike

(* What is called for an action, but for the end of a comment (json.c      *)
(* 1954-2037).                                                             *)
LEMMA CalledAlike ==
    ASSUME NEW p, NEW q, Alike(p, q), NEW a \in Actions \ {"CE"}
    PROVE  Alike(Called(p, a), Called(q, a))
<1>1. CASE a = "SP"
  <2> DEFINE k(r) == [r EXCEPT !.expecting_key = TRUE, !.state = "_K"]
             v(r) == [r EXCEPT !.state = "_V"]
  <2>1. \A r : Called(r, a) = IF r.stack = <<>>
                              THEN Fail(r, "COMMA_OUT_OF_STRUCTURE")
                              ELSE IF r.stack[Len(r.stack)] = "OBJECT"
                              THEN k(r) ELSE v(r)
    BY <1>1, Zenon DEF Called, act_sp
  <2>2. Alike(k(p), k(q)) /\ Alike(v(p), v(q))
    BY DEF Alike, HasFields, Fields
  <2>3. p.stack = q.stack
    BY DEF Alike
  <2> HIDE DEF k, v
  <2> QED BY <2>1, <2>2, <2>3, FailAlike
<1>2. CASE a = "AB"
  <2> DEFINE c(r) == do_callback(r, "ARRAY_BEGIN")
  <2>1. \A r : Called(r, a) = state_push(c(r), "ARRAY")
    BY <1>2, Zenon DEF Called, act_ab
  <2>2. Alike(c(p), c(q))
    BY CallbackAlike
  <2> HIDE DEF c
  <2> QED BY <2>1, <2>2, PushAlike
<1>3. CASE a = "AE"
  <2> DEFINE o(r) == state_pop(r, "ARRAY")
             c(r) == do_callback(o(r), "ARRAY_END")
  <2>1. \A r : Called(r, a) = IF o(r).ret # "SUCCESS" THEN o(r) ELSE c(r)
    BY <1>3, Zenon DEF Called, act_ae
  <2>2. Alike(o(p), o(q))
    BY PopAlike
  <2> HIDE DEF o
  <2>3. Alike(c(p), c(q)) /\ o(p).ret = o(q).ret
    BY <2>2, CallbackAlike DEF Alike
  <2> HIDE DEF c
  <2> QED BY <2>1, <2>2, <2>3
<1>4. CASE a = "OB"
  <2> DEFINE o(r) == state_push(do_callback(r, "OBJECT_BEGIN"), "OBJECT")
             k(r) == [r EXCEPT !.expecting_key = TRUE]
  <2>1. \A r : Called(r, a) = IF o(r).ret # "SUCCESS" THEN o(r) ELSE k(o(r))
    BY <1>4, Zenon DEF Called, act_ob
  <2>2. Alike(o(p), o(q))
    <3>1. Alike(do_callback(p, "OBJECT_BEGIN"), do_callback(q, "OBJECT_BEGIN"))
      BY CallbackAlike
    <3> QED BY <3>1, PushAlike
  <2> HIDE DEF o
  <2>3. o(p).ret = o(q).ret
    BY <2>2 DEF Alike
  <2>4. Alike(k(o(p)), k(o(q)))
    BY <2>2, SetAlike, Zenon
  <2> HIDE DEF k
  <2> QED BY <2>1, <2>2, <2>3, <2>4
<1>5. CASE a = "OE"
  <2> DEFINE o(r) == state_pop(r, "OBJECT")
             c(r) == do_callback(o(r), "OBJECT_END")
             k(r) == [r EXCEPT !.expecting_key = FALSE]
  <2>1. \A r : Called(r, a) = IF o(r).ret # "SUCCESS" THEN o(r) ELSE k(c(r))
    BY <1>5, Zenon DEF Called, act_oe
  <2>2. Alike(o(p), o(q))
    BY PopAlike
  <2> HIDE DEF o
  <2>3. Alike(c(p), c(q)) /\ o(p).ret = o(q).ret
    BY <2>2, CallbackAlike DEF Alike
  <2> HIDE DEF c
  <2>4. Alike(k(c(p)), k(c(q)))
    BY <2>3, SetAlike, Zenon
  <2> HIDE DEF k
  <2> QED BY <2>1, <2>2, <2>3, <2>4
<1>6. CASE a \in {"CB", "YB"}
  <2> DEFINE allowed(r) == IF a = "CB" THEN r.config.allow_c_comments
                           ELSE r.config.allow_yaml_comments
             k(r) == [r EXCEPT !.save_state = r.state]
  <2>1. \A r : Called(r, a) = IF ~ allowed(r) THEN Fail(r, "COMMENT_NOT_ALLOWED")
                              ELSE k(r)
    BY <1>6, SMT DEF Called, act_comment
  <2>2. Alike(k(p), k(q))
    BY DEF Alike, HasFields, Fields
  <2>3. p.config = q.config
    BY DEF Alike
  <2> HIDE DEF k
  <2> QED BY <2>1, <2>2, <2>3, FailAlike
<1>7. CASE a = "SE"
  <2> DEFINE c(r) == do_callback_withbuf(r, IF r.expecting_key THEN "KEY"
                                                               ELSE "STRING")
             k(r, x) == [r EXCEPT !.buffer = <<>>,
                                  !.state = IF x THEN "CO" ELSE "OK",
                                  !.expecting_key = FALSE]
  <2>1. \A r : Called(r, a) = k(c(r), r.expecting_key)
    BY <1>7, Zenon DEF Called, act_se
  <2>2. p.expecting_key = q.expecting_key
    BY DEF Alike
  <2>3. Alike(c(p), c(q))
    BY <2>2, CallbackAlike
  <2> HIDE DEF c
  <2>4. \A x : Alike(k(c(p), x), k(c(q), x))
    BY <2>3 DEF Alike, HasFields, Fields
  <2> HIDE DEF k
  <2> QED BY <2>1, <2>2, <2>4
<1>8. CASE a = "UC"
  <2> DEFINE d(r) == decode_unicode_char(r)
             next(r) == IF r.unicode_multi # 0 THEN "D1" ELSE "_S"
             k(r) == [r EXCEPT !.state = next(r)]
  <2>1. \A r : Called(r, a) = IF d(r).ret # "SUCCESS" THEN d(r) ELSE k(d(r))
    BY <1>8, Zenon DEF Called, act_uc
  <2>2. Alike(d(p), d(q))
    BY DecodeAlike
  <2> HIDE DEF d
  <2>3. d(p).ret = d(q).ret /\ next(d(p)) = next(d(q))
    BY <2>2 DEF Alike
  <2> HIDE DEF next
  <2>4. Alike(k(d(p)), k(d(q)))
    BY <2>2, <2>3, SetAlike, Zenon
  <2> HIDE DEF k
  <2> QED BY <2>1, <2>2, <2>3, <2>4
<1>9. CASE a \in {"KS", "FA", "TR", "NU", "DE", "DF", "MX", "ZX", "IX"}
  <2>1. \A r : Called(r, a) = r
    BY <1>9, Zenon DEF Called
  <2> QED BY <2>1
<1>10. a \in {"SP", "AB", "AE", "OB", "OE", "CB", "YB", "SE", "UC", "KS",
               "FA", "TR", "NU", "DE", "DF", "MX", "ZX", "IX"}
  BY DEF Actions
<1> QED BY <1>1, <1>2, <1>3, <1>4, <1>5, <1>6, <1>7, <1>8, <1>9, <1>10

(* What an action makes of two parsers that called the same (json.c        *)
(* 2061-2074).                                                             *)
LEMMA ActionAlike ==
    ASSUME NEW p, NEW q, NEW a \in Actions \ {"CE"},
           IF a \in DoBuffer THEN Alike(do_buffer(p), do_buffer(q)) ELSE Alike(p, q)
    PROVE  LET c == do_action(p, a)
               d == do_action(q, a)
           IN  Alike(c, d) /\ (c.ret = "SUCCESS" => c.type = d.type)
<1> DEFINE b(r) == Called(IF a \in DoBuffer THEN do_buffer(r) ELSE r, a)
           type == IF a \in DOMAIN ActionType THEN ActionType[a] ELSE "NONE"
           next(r) == IF a \in DOMAIN ActionState THEN ActionState[a] ELSE r.state
           k(r) == [r EXCEPT !.state = next(r), !.type = type]
<1>1. \A r : do_action(r, a) = IF b(r).ret # "SUCCESS" THEN b(r) ELSE k(b(r))
  BY DEF do_action
<1>2. Alike(b(p), b(q))
  BY CalledAlike
<1> HIDE DEF b
<1>3. b(p).ret = b(q).ret /\ next(b(p)) = next(b(q))
  BY <1>2 DEF Alike
<1> HIDE DEF next, type
<1>4. Alike(k(b(p)), k(b(q))) /\ k(b(p)).type = k(b(q)).type
  BY <1>2, <1>3 DEF Alike, HasFields, Fields
<1>5. k(b(p)).ret = b(p).ret
  BY <1>2 DEF Alike, HasFields, Fields
<1> HIDE DEF k
<1> QED BY <1>1, <1>2, <1>3, <1>4

(* Both keep the same bytes (json.c 2191-2199).                            *)
LEMMA KeptAlike ==
    ASSUME NEW p, NEW q, Alike(p, q), NEW ch, NEW class
    PROVE  Alike(Kept(p, ch, class), Kept(q, ch, class))
<1>1. p.state = q.state
  BY DEF Alike
<1>2. \A c : Alike(buffer_push(p, c), buffer_push(q, c))
  BY ByteAlike
<1> QED BY <1>1, <1>2 DEF Kept, buffer_push_escape

(* Two parsers that are alike with the same text waiting stay so, whatever *)
(* the byte, unless a comment ends.                                        *)
LEMMA MovedAlike ==
    ASSUME NEW p, NEW q, Alike(p, q), p.type = q.type, NEW ch, NEW class,
           state_transition_table(p.state, class) # "CE"
    PROVE  LET c == Moved(p, ch, class)
               d == Moved(q, ch, class)
           IN  Alike(c, d) /\ (c.ret = "SUCCESS" => c.type = d.type)
<1> DEFINE next == state_transition_table(p.state, class)
           k(r) == Kept(r, ch, class)
           m(r) == [r EXCEPT !.state = next]
<1>1. p.state = q.state /\ HasFields(p) /\ HasFields(q) /\ p.ret = q.ret
  BY DEF Alike
<1>2. \A r : r.state = p.state =>
         Moved(r, ch, class) = IF next = "__" THEN Fail(r, "UNEXPECTED_CHAR")
                               ELSE IF k(r).ret # "SUCCESS" THEN k(r)
                               ELSE IF next \in Actions THEN do_action(k(r), next)
                               ELSE m(k(r))
  BY DEF Moved, IS_STATE_ACTION
<1>3. Alike(k(p), k(q)) /\ k(p).type = k(q).type
  <2>1. SameDoc(p, k(p)) /\ SameDoc(q, k(q))
    BY <1>1, KeptDoc
  <2> QED BY <2>1, KeptAlike DEF SameDoc
<1> HIDE DEF next, k
<1>4. k(p).ret = k(q).ret
  BY <1>3 DEF Alike
<1>5. Alike(m(k(p)), m(k(q)))
  BY <1>3, SetAlike, Zenon
<1>6. m(k(p)).type = m(k(q)).type
  BY <1>3 DEF Alike, HasFields, Fields
<1> HIDE DEF m
<1>7. CASE next = "__"
  <2>1. Alike(Fail(p, "UNEXPECTED_CHAR"), Fail(q, "UNEXPECTED_CHAR"))
    BY FailAlike
  <2>2. Fail(p, "UNEXPECTED_CHAR").ret # "SUCCESS"
    BY <1>1, FailDoc
  <2> QED BY <1>1, <1>2, <1>7, <2>1, <2>2
<1>8. CASE next # "__" /\ k(p).ret # "SUCCESS"
  BY <1>1, <1>2, <1>3, <1>4, <1>8
<1>9. CASE next # "__" /\ k(p).ret = "SUCCESS" /\ next \in Actions
  <2> DEFINE u == k(p)
             v == k(q)
  <2>1. Alike(u, v) /\ u.type = v.type
    BY <1>3
  <2>2. next \in Actions \ {"CE"}
    BY <1>9 DEF next
  <2> HIDE DEF u, v
  <2>3. Alike(do_buffer(u), do_buffer(v))
    BY <2>1, BufferAlike
  <2>4. /\ Alike(do_action(u, next), do_action(v, next))
        /\ do_action(u, next).ret = "SUCCESS"
               => do_action(u, next).type = do_action(v, next).type
    BY <2>1, <2>2, <2>3, ActionAlike
  <2> QED BY <1>1, <1>2, <1>4, <1>9, <2>4 DEF u, v
<1>10. CASE next # "__" /\ k(p).ret = "SUCCESS" /\ next \notin Actions
  BY <1>1, <1>2, <1>4, <1>5, <1>6, <1>10
<1> QED BY <1>7, <1>8, <1>9, <1>10

-----------------------------------------------------------------------------
(* What is in the buffer between two texts                                 *)

(* q has the bytes p has, and waits for as many. *)
SameText(p, q) ==
    /\ HasFields(q)
    /\ q.buffer = p.buffer /\ q.unicode_multi = p.unicode_multi
    /\ q.utf8_multibyte_left = p.utf8_multibyte_left

(* Opening and closing a structure is nothing to the text (json.c          *)
(* 1741-1773).                                                             *)
LEMMA StackText ==
    ASSUME NEW p, HasFields(p), NEW mode
    PROVE  SameText(p, state_push(p, mode)) /\ SameText(p, state_pop(p, mode))
<1> DEFINE g == IF Len(p.stack) >= p.stack_size THEN state_grow(p) ELSE p
           r == [g EXCEPT !.stack = Append(@, mode)]
           o == [p EXCEPT !.stack = SubSeq(@, 1, Len(@) - 1)]
<1>f. \A e : SameText(p, Fail(p, e))
  BY DEF Fail, SameText, HasFields, Fields
<1>1. SameText(p, g)
  <2>1. SameText(p, p) /\ SameText(p, [p EXCEPT !.stack_size = 2 * @])
    BY DEF SameText, HasFields, Fields
  <2>2. g = p \/ (\E e : g = Fail(p, e)) \/ g = [p EXCEPT !.stack_size = 2 * @]
    BY DEF state_grow
  <2> HIDE DEF g
  <2> QED BY <1>f, <2>1, <2>2
<1>2. state_push(p, mode) = IF g.ret # "SUCCESS" THEN g ELSE r
  BY DEF state_push
<1> HIDE DEF g
<1>3. SameText(p, r)
  BY <1>1 DEF SameText, HasFields, Fields
<1>4. SameText(p, o)
  BY DEF SameText, HasFields, Fields
<1>5. SameText(p, Fail(o, "POP_UNEXPECTED_MODE"))
  BY DEF Fail, SameText, HasFields, Fields
<1>6. state_pop(p, mode) \in {Fail(p, "POP_EMPTY"), Fail(o, "POP_UNEXPECTED_MODE"), o}
  BY DEF state_pop
<1> HIDE DEF r, o
<1> QED BY <1>1, <1>2, <1>3, <1>4, <1>5, <1>6, <1>f

(* So is what is called for an action, but for a character and for the end *)
(* of a string.                                                            *)
LEMMA CalledText ==
    ASSUME NEW p, HasFields(p), NEW a \in Actions \ {"SE", "UC"}
    PROVE  SameText(p, Called(p, a))
<1>c. \A q, type : HasFields(q) => SameText(q, do_callback(q, type))
  BY DEF do_callback, SameText, HasFields, Fields
<1>f. \A e : SameText(p, Fail(p, e))
  BY DEF Fail, SameText, HasFields, Fields
<1>k. \A q, x : HasFields(q) => SameText(q, [q EXCEPT !.expecting_key = x])
  BY DEF SameText, HasFields, Fields
<1>t. \A q, r, s : SameText(q, r) /\ SameText(r, s) => SameText(q, s)
  BY DEF SameText
<1>h. \A q, r : SameText(q, r) => HasFields(r)
  BY DEF SameText
<1>1. CASE a = "SP"
  <2> DEFINE k == [p EXCEPT !.expecting_key = TRUE, !.state = "_K"]
             v == [p EXCEPT !.state = "_V"]
  <2>1. Called(p, a) \in {Fail(p, "COMMA_OUT_OF_STRUCTURE"), k, v}
    BY <1>1, SMT DEF Called, act_sp
  <2>2. SameText(p, k) /\ SameText(p, v)
    BY DEF SameText, HasFields, Fields
  <2> HIDE DEF k, v
  <2> QED BY <2>1, <2>2, <1>f
<1>2. CASE a \in {"AB", "OB"}
  <2> DEFINE type == IF a = "AB" THEN "ARRAY_BEGIN" ELSE "OBJECT_BEGIN"
             mode == IF a = "AB" THEN "ARRAY" ELSE "OBJECT"
             c == do_callback(p, type)
             q == state_push(c, mode)
             r == [q EXCEPT !.expecting_key = TRUE]
  <2>a. IF a = "AB" THEN type = "ARRAY_BEGIN" /\ mode = "ARRAY"
        ELSE type = "OBJECT_BEGIN" /\ mode = "OBJECT"
    OBVIOUS
  <2> HIDE DEF type, mode
  <2>1. Called(p, a) \in {q, r}
    <3>1. CASE a = "AB"
      BY <2>a, <3>1, Zenon DEF Called, act_ab
    <3>2. CASE a = "OB"
      <4>1. Called(p, a) = IF q.ret # "SUCCESS" THEN q ELSE r
        BY <2>a, <3>2, Zenon DEF Called, act_ob
      <4> QED BY <4>1
    <3> QED BY <1>2, <3>1, <3>2
  <2>2. SameText(p, c)
    BY <1>c
  <2> HIDE DEF c
  <2>3. SameText(p, q)
    BY <2>2, StackText, <1>h, <1>t
  <2> HIDE DEF q
  <2>4. SameText(q, r)
    BY <2>3 DEF SameText, HasFields, Fields
  <2> HIDE DEF r
  <2> QED BY <2>1, <2>3, <2>4, <1>t
<1>3. CASE a \in {"AE", "OE"}
  <2> DEFINE type == IF a = "AE" THEN "ARRAY_END" ELSE "OBJECT_END"
             mode == IF a = "AE" THEN "ARRAY" ELSE "OBJECT"
             q == state_pop(p, mode)
             c == do_callback(q, type)
             r == [c EXCEPT !.expecting_key = FALSE]
  <2>a. IF a = "AE" THEN type = "ARRAY_END" /\ mode = "ARRAY"
        ELSE type = "OBJECT_END" /\ mode = "OBJECT"
    OBVIOUS
  <2> HIDE DEF type, mode
  <2>1. Called(p, a) \in {q, c, r}
    <3>1. CASE a = "AE"
      <4>1. Called(p, a) = IF q.ret # "SUCCESS" THEN q ELSE c
        BY <2>a, <3>1, Zenon DEF Called, act_ae
      <4> QED BY <4>1
    <3>2. CASE a = "OE"
      <4>1. Called(p, a) = IF q.ret # "SUCCESS" THEN q ELSE r
        BY <2>a, <3>2, Zenon DEF Called, act_oe
      <4> QED BY <4>1
    <3> QED BY <1>3, <3>1, <3>2
  <2>2. SameText(p, q)
    BY StackText
  <2> HIDE DEF q
  <2>3. SameText(p, c)
    BY <2>2, <1>c, <1>h, <1>t
  <2> HIDE DEF c
  <2>4. SameText(c, r)
    BY <2>3 DEF SameText, HasFields, Fields
  <2> HIDE DEF r
  <2> QED BY <2>1, <2>2, <2>3, <2>4, <1>t
<1>4. CASE a \in {"CB", "YB"}
  <2> DEFINE r == [p EXCEPT !.save_state = p.state]
  <2>1. Called(p, a) \in {Fail(p, "COMMENT_NOT_ALLOWED"), r}
    BY <1>4, SMT DEF Called, act_comment
  <2>2. SameText(p, r)
    BY DEF SameText, HasFields, Fields
  <2> HIDE DEF r
  <2> QED BY <2>1, <2>2, <1>f
<1>5. CASE a = "CE"
  <2>1. PICK s : Called(p, a) = [p EXCEPT !.state = s]
    BY <1>5, Zenon DEF Called, act_ce
  <2>2. SameText(p, [p EXCEPT !.state = s])
    BY DEF SameText, HasFields, Fields
  <2> QED BY <2>1, <2>2
<1>6. CASE a \in {"KS", "FA", "TR", "NU", "DE", "DF", "MX", "ZX", "IX"}
  <2>1. Called(p, a) = p
    BY <1>6, Zenon DEF Called
  <2> QED BY <2>1 DEF SameText
<1>7. a \in {"SP", "AB", "AE", "OB", "OE", "CB", "YB", "CE", "KS", "FA", "TR",
             "NU", "DE", "DF", "MX", "ZX", "IX"}
  BY DEF Actions
<1> QED BY <1>1, <1>2, <1>3, <1>4, <1>5, <1>6, <1>7

(* Nor does the rest of an action change what it called left.              *)
LEMMA ActionText ==
    ASSUME NEW p, NEW a,
           HasFields(Called(IF a \in DoBuffer THEN do_buffer(p) ELSE p, a))
    PROVE  SameText(Called(IF a \in DoBuffer THEN do_buffer(p) ELSE p, a),
                    do_action(p, a))
BY DEF do_action, SameText, HasFields, Fields

(* All that giving a text away leaves (json.c 1845-1860).                  *)
LEMMA BufferForm ==
    ASSUME NEW p, HasFields(p)
    PROVE  LET q == do_buffer(p)
           IN  /\ HasFields(q) /\ q.buffer = <<>>
               /\ q.calls = IF p.type \in Texts
                            THEN Append(p.calls, Event(p.type, p.buffer))
                            ELSE p.calls
               /\ q.config = p.config /\ q.state = p.state /\ q.type = p.type
               /\ q.expecting_key = p.expecting_key /\ q.ret = p.ret
               /\ q.utf8_multibyte_left = p.utf8_multibyte_left
               /\ q.unicode_multi = p.unicode_multi
               /\ q.stack = p.stack /\ q.stack_size = p.stack_size
               /\ q.buffer_size = p.buffer_size
<1> DEFINE c == IF p.type \in Texts THEN do_callback_withbuf(p, p.type) ELSE p
           q == [c EXCEPT !.buffer = <<>>]
<1>1. /\ HasFields(c)
      /\ c.calls = IF p.type \in Texts THEN Append(p.calls, Event(p.type, p.buffer))
                   ELSE p.calls
      /\ c.config = p.config /\ c.state = p.state /\ c.type = p.type
      /\ c.expecting_key = p.expecting_key /\ c.ret = p.ret
      /\ c.utf8_multibyte_left = p.utf8_multibyte_left
      /\ c.unicode_multi = p.unicode_multi
      /\ c.stack = p.stack /\ c.stack_size = p.stack_size
      /\ c.buffer_size = p.buffer_size
  BY DEF do_callback_withbuf, HasFields, Fields
<1> HIDE DEF c
<1>2. /\ HasFields(q) /\ q.buffer = <<>> /\ q.calls = c.calls
      /\ q.config = c.config /\ q.state = c.state /\ q.type = c.type
      /\ q.expecting_key = c.expecting_key /\ q.ret = c.ret
      /\ q.utf8_multibyte_left = c.utf8_multibyte_left
      /\ q.unicode_multi = c.unicode_multi
      /\ q.stack = c.stack /\ q.stack_size = c.stack_size
      /\ q.buffer_size = c.buffer_size
  BY <1>1 DEF HasFields, Fields
<1>3. do_buffer(p) = q
  BY DEF do_buffer, c
<1> HIDE DEF q
<1> QED BY <1>1, <1>2, <1>3

(* No text has begun, or the last was given away.                          *)
Between(p) ==
    \/ p.state \in BlankStates \cup LiteralStates \cup CommentStates
    \/ p.state = "OK" /\ p.type = "NONE"

(* Between two texts the buffer is empty.                                  *)
Emptied(p) == p.ret = "SUCCESS" /\ Between(p) => p.buffer = <<>>

(* Which bytes are kept where.                                             *)
LEMMA Ignored ==
    ASSUME NEW s, NEW c, s \notin StringStates \cup NumberStates,
           s \in {"_V", "_A"} => c \notin {"MINUS"} \cup Digits
    PROVE  buffer_policy_table(s, c) = "ignore"
BY DEF buffer_policy_table, Buffered, StringStates, NumberStates

(* Outside a string what is kept first is a number.                        *)
LEMMA KeptFirst ==
    \A m \in Table : m[1] \in {"_V", "_A"} =>
        \A c \in m[2] : c \in {"MINUS"} \cup Digits => m[3] \in {"MX", "ZX", "IX"}
<1> DEFINE P(m) == m[1] \in {"_V", "_A"} =>
        \A c \in m[2] : c \in {"MINUS"} \cup Digits => m[3] \in {"MX", "ZX", "IX"}
<1> USE DEF Move, White, Digits
<1>1. \A m \in StartRows : P(m)    BY DEF StartRows, Blank, Closers
<1>2. \A m \in ObjectRows : P(m)   BY DEF ObjectRows, Blank
<1>3. \A m \in ValueRows : P(m)    BY DEF ValueRows, Blank, Values
<1>4. \A m \in StringRows : P(m)   BY DEF StringRows
<1>5. \A m \in UnicodeRows : P(m)  BY DEF UnicodeRows
<1>6. \A m \in IntegerRows : P(m)  BY DEF IntegerRows, Blank, Closers
<1>7. \A m \in RealRows : P(m)     BY DEF RealRows, Blank, Closers
<1>8. \A m \in TrueRows \cup FalseRows \cup NullRows : P(m)
  BY DEF TrueRows, FalseRows, NullRows
<1>9. \A m \in CommentRows \cup OtherRows : P(m)
  BY DEF CommentRows, OtherRows
<1> HIDE DEF P
<1>10. \A m \in Table : P(m)
  BY <1>1, <1>2, <1>3, <1>4, <1>5, <1>6, <1>7, <1>8, <1>9 DEF Table
<1> QED BY <1>10 DEF P

(* A byte leaves the buffer empty between two texts.                       *)
LEMMA MovedEmptied ==
    ASSUME NEW p, NestInv(p), Emptied(p), p.ret = "SUCCESS", NEW ch, NEW class
    PROVE  Emptied(Moved(p, ch, class))
<1> DEFINE s == p.state
           n == state_transition_table(s, class)
           q == Kept(p, ch, class)
           r == [q EXCEPT !.state = n]
           Free == BlankStates \cup LiteralStates \cup CommentStates
<1>1. HasFields(p) /\ s \in States /\ Position(p, Resumed(p))
  BY DEF NestInv, Core
<1>2. SameDoc(p, q) /\ (q.ret = "SUCCESS" => q.state = s)
  BY <1>1, KeptDoc
<1>3. n # "__" => /\ Leads(s, n)
                  /\ s \in {"_V", "_A"} /\ class \in {"MINUS"} \cup Digits
                         => n \in {"MX", "ZX", "IX"}
  BY TableLookup, Leading, KeptFirst
<1>4. Moved(p, ch, class) = IF n = "__" THEN Fail(p, "UNEXPECTED_CHAR")
                            ELSE IF q.ret # "SUCCESS" THEN q
                            ELSE IF n \in Actions THEN do_action(q, n) ELSE r
  BY DEF Moved, IS_STATE_ACTION
<1>5. /\ r.state = n /\ r.type = p.type /\ r.buffer = q.buffer
  BY <1>2 DEF SameDoc, HasFields, Fields
<1>6. ASSUME s \in Free, n # "__", n \notin {"MX", "ZX", "IX"}
      PROVE  q = p /\ p.buffer = <<>>
  <2>1. s \notin StringStates \cup NumberStates
    BY <1>6, Kinds
  <2>2. s \in {"_V", "_A"} => class \notin {"MINUS"} \cup Digits
    BY <1>3, <1>6
  <2>3. buffer_policy_table(s, class) = "ignore"
    <3> HIDE DEF s
    <3> QED BY <2>1, <2>2, Ignored
  <2>4. q = p
    BY <2>3 DEF Kept
  <2> QED BY <1>6, <2>4 DEF Emptied, Between
<1>7. s = "OK" => q = p
  <2> SUFFICES ASSUME s = "OK" PROVE q = p
    OBVIOUS
  <2>1. buffer_policy_table("OK", class) = "ignore"
    BY Ignored, Kinds
  <2> QED BY <2>1 DEF Kept
<1> HIDE DEF n, q, r
<1>8. CASE n = "__"
  BY <1>1, <1>4, <1>8, FailDoc DEF Emptied, Between
<1>9. CASE n # "__" /\ q.ret # "SUCCESS"
  BY <1>4, <1>9 DEF Emptied, Between
<1>10. CASE n # "__" /\ q.ret = "SUCCESS" /\ n \notin Actions
  <2>1. Moved(p, ch, class) = r
    BY <1>4, <1>10
  <2>2. n \notin {"MX", "ZX", "IX"}
    BY <1>10 DEF Actions
  <2>3. CASE s \in Free
    <3>1. r.buffer = <<>>
      BY <1>5, <1>6, <1>10, <2>2, <2>3
    <3> QED BY <2>1, <3>1 DEF Emptied, Between
  <2>4. CASE s = "OK"
    <3>1. n = "OK"
      BY <1>3, <1>10, <2>4, Kinds DEF Leads, BlankStates
    <3>2. r.type = "NONE" => r.buffer = <<>>
      BY <1>5, <1>7, <2>4 DEF Emptied, Between
    <3>3. "OK" \notin Free
      BY Kinds
    <3> QED BY <1>5, <2>1, <3>1, <3>2, <3>3 DEF Emptied, Between
  <2>5. CASE s \in StringStates
    <3>1. n \in StringStates
      BY <1>3, <1>10, <2>5, Kinds DEF Leads, BlankStates
    <3>2. n \notin Free \cup {"OK"}
      BY <3>1, Kinds
    <3> QED BY <1>5, <2>1, <3>2 DEF Emptied, Between
  <2>6. CASE s \in NumberStates
    <3>1. n \in NumberStates \cup {"OK"}
      BY <1>3, <1>10, <2>6, Kinds DEF Leads, BlankStates
    <3>2. n \notin Free
      BY <3>1, Kinds
    <3>3. p.type # "NONE"
      BY <1>1, <2>6, Kinds DEF Position, Resumed, Scalars
    <3> QED BY <1>5, <2>1, <3>2, <3>3 DEF Emptied, Between
  <2> HIDE DEF s
  <2> QED BY <1>1, <2>3, <2>4, <2>5, <2>6 DEF States
<1>11. CASE n # "__" /\ q.ret = "SUCCESS" /\ n \in Actions
  <2> DEFINE d == do_action(q, n)
             b == IF n \in DoBuffer THEN do_buffer(q) ELSE q
             c == Called(b, n)
  <2>1. Moved(p, ch, class) = d /\ HasFields(q)
    BY <1>2, <1>4, <1>11 DEF SameDoc
  <2>2. HasFields(b) /\ b.ret = "SUCCESS" /\ (n \in DoBuffer => b.buffer = <<>>)
    BY <1>11, <2>1, BufferForm
  <2> HIDE DEF b
  <2>3. HasFields(c)
    BY <1>11, <2>2, CalledTells
  <2>4. d.buffer = c.buffer
    BY <2>3, ActionText DEF SameText, b
  <2>5. /\ c.ret = "SUCCESS" =>
              /\ d.state = IF n \in DOMAIN ActionState THEN ActionState[n]
                                                       ELSE c.state
              /\ d.type = IF n \in DOMAIN ActionType THEN ActionType[n] ELSE "NONE"
        /\ c.ret # "SUCCESS" => d = c
    BY <2>3, ActionForm DEF b
  <2> HIDE DEF d
  <2>6. CASE n \in DoBuffer
    <3>1. n \notin {"SE", "UC"}
      BY <2>6 DEF DoBuffer
    <3>2. SameText(b, c)
      BY <1>11, <2>2, <3>1, CalledText
    <3>3. d.buffer = <<>>
      BY <2>2, <2>4, <2>6, <3>2 DEF SameText
    <3> QED BY <2>1, <3>3 DEF Emptied, Between
  <2>7. CASE n \in {"KS", "AB", "OB", "CE"}
    <3>1. s \in Free
      BY <1>3, <1>11, <2>7 DEF Leads, BlankStates
    <3>2. n \notin DoBuffer /\ n \notin {"SE", "UC"} /\ n \notin {"MX", "ZX", "IX"}
      BY <2>7 DEF DoBuffer
    <3>3. b = p /\ p.buffer = <<>>
      BY <1>6, <1>11, <3>1, <3>2 DEF b
    <3>4. SameText(b, c)
      BY <1>11, <2>2, <3>2, CalledText
    <3> QED BY <2>1, <2>4, <3>3, <3>4 DEF Emptied, Between, SameText
  <2>8. CASE n = "SE"
    <3> DEFINE u == do_callback_withbuf(b, IF b.expecting_key THEN "KEY"
                                                              ELSE "STRING")
    <3>1. c = [u EXCEPT !.buffer = <<>>,
                        !.state = IF b.expecting_key THEN "CO" ELSE "OK",
                        !.expecting_key = FALSE]
      BY <2>8, Zenon DEF Called, act_se
    <3>2. HasFields(u)
      BY <2>2, CallbackTells
    <3> HIDE DEF u
    <3>3. c.buffer = <<>>
      BY <3>1, <3>2 DEF HasFields, Fields
    <3> QED BY <2>1, <2>4, <3>3 DEF Emptied, Between
  <2>9. CASE n = "UC"
    <3>1. c = act_uc(b)
      BY <2>9, Zenon DEF Called
    <3>2. c.ret = "SUCCESS" => c.state \in {"_S", "D1"}
      <4> DEFINE u == decode_unicode_char(b)
                 v == IF u.unicode_multi # 0 THEN "D1" ELSE "_S"
      <4>1. c = IF u.ret # "SUCCESS" THEN u ELSE [u EXCEPT !.state = v]
        BY <3>1 DEF act_uc
      <4>2. HasFields(u)
        BY <2>2, DecodeDoc DEF SameDoc
      <4> HIDE DEF u
      <4>3. [u EXCEPT !.state = v].state = v
        BY <4>2 DEF HasFields, Fields
      <4> QED BY <4>1, <4>3
    <3>3. c.ret = "SUCCESS" => d.state \in StringStates
      BY <2>5, <2>9, <3>2, ActionTables DEF StringStates
    <3>4. c.ret # "SUCCESS" => d.ret # "SUCCESS"
      BY <2>5
    <3>5. \A t \in StringStates : t \notin Free \cup {"OK"}
      BY Kinds
    <3> QED BY <2>1, <3>3, <3>4, <3>5 DEF Emptied, Between
  <2>10. CASE n \in {"FA", "TR", "NU", "DE", "DF", "MX", "ZX", "IX"}
    <3>1. c = b
      BY <2>10, Zenon DEF Called
    <3>2. d.state \in {"OK"} \cup NumberStates /\ d.type \in Scalars
      BY <2>2, <2>5, <2>10, <3>1, ActionTables
    <3>3. d.state \notin Free /\ d.type # "NONE"
      BY <3>2, Kinds DEF Scalars
    <3> QED BY <2>1, <3>3 DEF Emptied, Between
  <2> QED BY <1>11, <2>6, <2>7, <2>8, <2>9, <2>10 DEF Actions, DoBuffer
<1> QED BY <1>8, <1>9, <1>10, <1>11

-----------------------------------------------------------------------------
(* Comments *)

(* The states in which a comment may start. *)
Commentable == BlankStates \cup {"OK", "Z0", "I0", "R2"}

(* What is left of the character read. *)
Awaiting(p, n) == [p EXCEPT !.utf8_multibyte_left = n]

(* The comment ended the text, which the twin still holds. *)
Pending(p, t) ==
    /\ HasFields(p) /\ HasFields(t)
    /\ p.state = "OK" /\ p.type = "NONE"
    /\ Alike(do_buffer(p), do_buffer(t))

(* The parser is in a comment, and the twin where it began. *)
Suspended(p, t) ==
    /\ HasFields(p) /\ HasFields(t)
    /\ p.state \in CommentStates /\ p.type = "NONE"
    /\ p.save_state = t.state /\ t.state \in Commentable
    /\ ~ (t.utf8_multibyte_left > 0)
    /\ LET b == do_buffer(t)
       IN  /\ p.config = b.config /\ p.expecting_key = b.expecting_key
           /\ p.unicode_multi = b.unicode_multi
           /\ p.stack = b.stack /\ p.stack_size = b.stack_size
           /\ p.buffer = b.buffer /\ p.buffer_size = b.buffer_size
           /\ p.calls = b.calls /\ p.ret = b.ret

Twins(p, t) == Alike(p, t) /\ p.type = t.type

(* What the property says of the two. *)
Neutral(p, t) ==
    /\ \/ p.ret = t.ret /\ p.state = t.state
       \/ t.ret = "SUCCESS" /\ CommentRefused(p)
    /\ p.stack = t.stack
    /\ p.expecting_key = t.expecting_key
    /\ p.calls \in {t.calls, do_buffer(t).calls}

CommentInv(p, t) ==
    /\ p.state \notin CommentStates => Neutral(p, t)
    /\ p.ret = "SUCCESS" =>
           IF p.state \in CommentStates THEN Suspended(p, t)
           ELSE Twins(p, t) \/ Pending(p, t)

(* Comments start only where a value may stand or has ended, and no letter *)
(* starts or ends one.                                                     *)
LEMMA CommentMoves ==
    \A m \in Table :
        /\ m[3] \in {"CB", "YB"} => /\ m[1] \in Commentable
                                    /\ m[2] \subseteq {"SLASH", "HASH"}
        /\ m[3] = "CE" => m[1] \in CommentStates /\ "OTHER" \notin m[2]
        /\ m[1] \in Commentable \cup {"X3"} /\ "SPACE" \in m[2] =>
               m[3] = IF m[1] \in BlankStates THEN m[1] ELSE "OK"
<1> DEFINE P(m) ==
        /\ m[3] \in {"CB", "YB"} => /\ m[1] \in Commentable
                                    /\ m[2] \subseteq {"SLASH", "HASH"}
        /\ m[3] = "CE" => m[1] \in CommentStates /\ "OTHER" \notin m[2]
        /\ m[1] \in Commentable \cup {"X3"} /\ "SPACE" \in m[2] =>
               m[3] = IF m[1] \in BlankStates THEN m[1] ELSE "OK"
<1> USE DEF Move, White, Digits, Hex, Commentable, BlankStates, CommentStates
<1>1. \A m \in StartRows : P(m)    BY DEF StartRows, Blank, Closers
<1>2. \A m \in ObjectRows : P(m)   BY DEF ObjectRows, Blank
<1>3. \A m \in ValueRows : P(m)    BY DEF ValueRows, Blank, Values
<1>4. \A m \in StringRows : P(m)   BY DEF StringRows
<1>5. \A m \in UnicodeRows : P(m)  BY DEF UnicodeRows
<1>6. \A m \in IntegerRows : P(m)  BY DEF IntegerRows, Blank, Closers
<1>7. \A m \in RealRows : P(m)     BY DEF RealRows, Blank, Closers
<1>8. \A m \in TrueRows \cup FalseRows \cup NullRows : P(m)
  BY DEF TrueRows, FalseRows, NullRows
<1>9. \A m \in CommentRows \cup OtherRows : P(m)
  BY DEF CommentRows, OtherRows
<1> HIDE DEF P
<1>10. \A m \in Table : P(m)
  BY <1>1, <1>2, <1>3, <1>4, <1>5, <1>6, <1>7, <1>8, <1>9 DEF Table
<1> QED BY <1>10 DEF P

(* White space leads where the end of a comment does, or would.            *)
LEMMA SpaceMoves ==
    ASSUME NEW s \in Commentable \cup {"X3"}
    PROVE  state_transition_table(s, "SPACE")
               = IF s \in BlankStates THEN s ELSE "OK"
<1> DEFINE moves == {m \in Table : m[1] = s /\ "SPACE" \in m[2]}
           to == IF s \in BlankStates THEN s ELSE "OK"
<1>1. <<s, White, to>> \in Table
  <2>1. \/ s \in {"GO", "OK"} /\ <<s, White, to>> \in StartRows
        \/ s \in {"_O", "_K", "CO"} /\ <<s, White, to>> \in ObjectRows
        \/ s \in {"_V", "_A"} /\ <<s, White, to>> \in ValueRows
        \/ s \in {"Z0", "I0"} /\ <<s, White, to>> \in IntegerRows
        \/ s \in {"R2", "X3"} /\ <<s, White, to>> \in RealRows
    BY DEF Commentable, BlankStates, StartRows, ObjectRows, ValueRows,
           IntegerRows, RealRows, Blank, Move
  <2> HIDE DEF to
  <2> QED BY <2>1 DEF Table
<1>2. <<s, White, to>> \in moves
  <2> HIDE DEF to
  <2> QED BY <1>1 DEF White
<1>3. \A m \in moves : m[3] = to
  BY CommentMoves
<1>4. state_transition_table(s, "SPACE")
        = IF moves = {} THEN "__" ELSE (CHOOSE m \in moves : TRUE)[3]
  BY DEF state_transition_table
<1> HIDE DEF moves, to
<1>5. (CHOOSE m \in moves : TRUE) \in moves /\ moves # {}
  BY <1>2
<1> QED BY <1>3, <1>4, <1>5 DEF to

(* Outside of strings and comments the first byte of a comment does        *)
(* nothing else, and white space is read where a comment may start and     *)
(* after an exponent.                                                      *)
LEMMA FirstMoves ==
    \A m \in Table :
        m[1] \notin StringStates \cup CommentStates =>
            /\ "SLASH" \in m[2] \/ "HASH" \in m[2] => m[3] \in {"CB", "YB"}
            /\ "SPACE" \in m[2] => m[1] \in Commentable \cup {"X3"}
<1> DEFINE P(m) ==
        m[1] \notin StringStates \cup CommentStates =>
            /\ "SLASH" \in m[2] \/ "HASH" \in m[2] => m[3] \in {"CB", "YB"}
            /\ "SPACE" \in m[2] => m[1] \in Commentable \cup {"X3"}
<1> USE DEF Move, White, Digits, Hex, Commentable, BlankStates, CommentStates,
            StringStates
<1>1. \A m \in StartRows : P(m)    BY DEF StartRows, Blank, Closers
<1>2. \A m \in ObjectRows : P(m)   BY DEF ObjectRows, Blank
<1>3. \A m \in ValueRows : P(m)    BY DEF ValueRows, Blank, Values
<1>4. \A m \in StringRows : P(m)   BY DEF StringRows
<1>5. \A m \in UnicodeRows : P(m)  BY DEF UnicodeRows
<1>6. \A m \in IntegerRows : P(m)  BY DEF IntegerRows, Blank, Closers
<1>7. \A m \in RealRows : P(m)     BY DEF RealRows, Blank, Closers
<1>8. \A m \in TrueRows \cup FalseRows \cup NullRows : P(m)
  BY DEF TrueRows, FalseRows, NullRows
<1>9. \A m \in CommentRows \cup OtherRows : P(m)
  BY DEF CommentRows, OtherRows
<1> HIDE DEF P
<1>10. \A m \in Table : P(m)
  BY <1>1, <1>2, <1>3, <1>4, <1>5, <1>6, <1>7, <1>8, <1>9 DEF Table
<1> QED BY <1>10 DEF P

(* Where a comment may start, its first byte is no error.                  *)
LEMMA FirstFound ==
    ASSUME NEW s \in Commentable, NEW class \in {"SLASH", "HASH"}
    PROVE  state_transition_table(s, class) # "__"
<1> DEFINE to == IF class = "SLASH" THEN "CB" ELSE "YB"
           moves == {m \in Table : m[1] = s /\ class \in m[2]}
<1>1. <<s, {class}, to>> \in Table
  <2>1. \/ s \in {"GO", "OK"} /\ <<s, {class}, to>> \in StartRows
        \/ s \in {"_O", "_K", "CO"} /\ <<s, {class}, to>> \in ObjectRows
        \/ s \in {"_V", "_A"} /\ <<s, {class}, to>> \in ValueRows
        \/ s \in {"Z0", "I0"} /\ <<s, {class}, to>> \in IntegerRows
        \/ s = "R2" /\ <<s, {class}, to>> \in RealRows
    BY DEF Commentable, BlankStates, StartRows, ObjectRows, ValueRows,
           IntegerRows, RealRows, Blank, Move
  <2> HIDE DEF to
  <2> QED BY <2>1 DEF Table
<1>2. <<s, {class}, to>> \in moves
  <2> HIDE DEF to
  <2> QED BY <1>1
<1>3. state_transition_table(s, class)
        = IF moves = {} THEN "__" ELSE (CHOOSE m \in moves : TRUE)[3]
  BY DEF state_transition_table
<1>4. \A m \in moves : m[3] \in {"CB", "YB"}
  <2>1. s \notin StringStates \cup CommentStates
    BY Kinds DEF Commentable, NumberStates
  <2> QED BY <2>1, FirstMoves
<1> HIDE DEF moves, to
<1>5. (CHOOSE m \in moves : TRUE) \in moves /\ moves # {}
  BY <1>2
<1> QED BY <1>3, <1>4, <1>5

(* A byte does the same to two parsers that wait for as many bytes (json.c *)
(* 2145-2213).                                                             *)
LEMMA ByteForm ==
    ASSUME NEW p, NEW t, p.utf8_multibyte_left = t.utf8_multibyte_left, NEW ch
    PROVE  LET c == json_parser_char(p, ch)
               d == json_parser_char(t, ch)
           IN  \/ \E e : e # "SUCCESS" /\ c = Fail(p, e) /\ d = Fail(t, e)
               \/ \E e, n : /\ e # "SUCCESS" /\ c = Fail(Awaiting(p, n), e)
                            /\ d = Fail(Awaiting(t, n), e)
               \/ \E n, class :
                      /\ class # "OTHER" => n = 0 /\ ~ (p.utf8_multibyte_left > 0)
                      /\ c = Moved(Awaiting(p, n), ch, class)
                      /\ d = Moved(Awaiting(t, n), ch, class)
<1> DEFINE left == utf8_header_table(ch)
           m == p.utf8_multibyte_left - 1
           class == character_class(ch)
           c == json_parser_char(p, ch)
           d == json_parser_char(t, ch)
<1>1. left \in {0, 1, 2, 3, 4, 5, 255}
  BY DEF utf8_header_table
<1> HIDE DEF left, class
<1>2. ASSUME NEW r, r.utf8_multibyte_left = p.utf8_multibyte_left
      PROVE  json_parser_char(r, ch)
             = IF p.utf8_multibyte_left > 0
               THEN IF utf8_continuation_table(ch) # 0 THEN Fail(r, "UTF8")
                    ELSE Moved(Awaiting(r, m), ch, "OTHER")
               ELSE IF left = 255 THEN Fail(Awaiting(r, left), "UTF8")
               ELSE IF left > 0 THEN Moved(Awaiting(r, left), ch, "OTHER")
               ELSE IF class = "ERROR" THEN Fail(Awaiting(r, left), "BAD_CHAR")
               ELSE Moved(Awaiting(r, left), ch, class)
  <2>1. Awaiting(r, m) = [r EXCEPT !.utf8_multibyte_left = @ - 1]
    BY <1>2 DEF Awaiting
  <2> QED BY <1>2, <2>1 DEF json_parser_char, Awaiting, left, class
<1> HIDE DEF m
<1>3. /\ c = IF p.utf8_multibyte_left > 0
             THEN IF utf8_continuation_table(ch) # 0 THEN Fail(p, "UTF8")
                  ELSE Moved(Awaiting(p, m), ch, "OTHER")
             ELSE IF left = 255 THEN Fail(Awaiting(p, left), "UTF8")
             ELSE IF left > 0 THEN Moved(Awaiting(p, left), ch, "OTHER")
             ELSE IF class = "ERROR" THEN Fail(Awaiting(p, left), "BAD_CHAR")
             ELSE Moved(Awaiting(p, left), ch, class)
      /\ d = IF p.utf8_multibyte_left > 0
             THEN IF utf8_continuation_table(ch) # 0 THEN Fail(t, "UTF8")
                  ELSE Moved(Awaiting(t, m), ch, "OTHER")
             ELSE IF left = 255 THEN Fail(Awaiting(t, left), "UTF8")
             ELSE IF left > 0 THEN Moved(Awaiting(t, left), ch, "OTHER")
             ELSE IF class = "ERROR" THEN Fail(Awaiting(t, left), "BAD_CHAR")
             ELSE Moved(Awaiting(t, left), ch, class)
  BY <1>2
<1> HIDE DEF c, d
<1>4. CASE p.utf8_multibyte_left > 0 /\ utf8_continuation_table(ch) # 0
  BY <1>3, <1>4 DEF c, d
<1>5. CASE p.utf8_multibyte_left > 0 /\ ~ (utf8_continuation_table(ch) # 0)
  BY <1>3, <1>5 DEF c, d
<1>6. CASE ~ (p.utf8_multibyte_left > 0) /\ left = 255
  BY <1>3, <1>6 DEF c, d
<1>7. CASE ~ (p.utf8_multibyte_left > 0) /\ left # 255 /\ left > 0
  BY <1>3, <1>7 DEF c, d
<1>8. CASE ~ (p.utf8_multibyte_left > 0) /\ left = 0 /\ class = "ERROR"
  BY <1>3, <1>8 DEF c, d
<1>9. CASE ~ (p.utf8_multibyte_left > 0) /\ left = 0 /\ class # "ERROR"
  BY <1>3, <1>9 DEF c, d
<1> QED BY <1>1, <1>4, <1>5, <1>6, <1>7, <1>8, <1>9


(* The bytes left to wait for are nothing to what waits in the buffer.     *)
LEMMA AwaitingForm ==
    ASSUME NEW p, HasFields(p), NEW n
    PROVE  LET q == Awaiting(p, n)
           IN  /\ HasFields(q) /\ q.utf8_multibyte_left = n
               /\ q.state = p.state /\ q.type = p.type /\ q.ret = p.ret
               /\ q.calls = p.calls /\ q.stack = p.stack
               /\ q.expecting_key = p.expecting_key /\ q.config = p.config
               /\ q.unicode_multi = p.unicode_multi /\ q.buffer = p.buffer
               /\ q.buffer_size = p.buffer_size /\ q.stack_size = p.stack_size
               /\ q.save_state = p.save_state
BY DEF Awaiting, HasFields, Fields

(* Two parsers that are alike but for a text that waits are still so with  *)
(* other bytes to wait for.                                                *)
LEMMA AwaitingAlike ==
    ASSUME NEW p, NEW t, NEW n
    PROVE  /\ Twins(p, t) => Twins(Awaiting(p, n), Awaiting(t, n))
           /\ Pending(p, t) => Pending(Awaiting(p, n), Awaiting(t, n))
           /\ Twins(p, t) \/ Pending(p, t) =>
                  /\ HasFields(p) /\ HasFields(t)
                  /\ p.utf8_multibyte_left = t.utf8_multibyte_left
                  /\ p.state = t.state /\ p.ret = t.ret
                  /\ p.stack = t.stack /\ p.expecting_key = t.expecting_key
<1>1. ASSUME Twins(p, t) PROVE Twins(Awaiting(p, n), Awaiting(t, n))
  BY <1>1, AwaitingForm DEF Twins, Alike
<1>2. ASSUME Pending(p, t) PROVE Pending(Awaiting(p, n), Awaiting(t, n))
  <2> DEFINE u == Awaiting(p, n)
             v == Awaiting(t, n)
  <2>1. HasFields(p) /\ HasFields(t)
    BY <1>2 DEF Pending
  <2>2. /\ HasFields(u) /\ u.utf8_multibyte_left = n
        /\ u.state = p.state /\ u.type = p.type /\ u.ret = p.ret
        /\ u.calls = p.calls /\ u.stack = p.stack
        /\ u.expecting_key = p.expecting_key /\ u.config = p.config
        /\ u.unicode_multi = p.unicode_multi /\ u.buffer = p.buffer
        /\ u.buffer_size = p.buffer_size /\ u.stack_size = p.stack_size
    BY <2>1, AwaitingForm
  <2>3. /\ HasFields(v) /\ v.utf8_multibyte_left = n
        /\ v.state = t.state /\ v.type = t.type /\ v.ret = t.ret
        /\ v.calls = t.calls /\ v.stack = t.stack
        /\ v.expecting_key = t.expecting_key /\ v.config = t.config
        /\ v.unicode_multi = t.unicode_multi /\ v.buffer = t.buffer
        /\ v.buffer_size = t.buffer_size /\ v.stack_size = t.stack_size
    BY <2>1, AwaitingForm
  <2> HIDE DEF u, v
  <2>4. Alike(do_buffer(u), do_buffer(v))
    BY <1>2, <2>1, <2>2, <2>3, BufferForm DEF Pending, Alike
  <2> QED BY <1>2, <2>2, <2>3, <2>4 DEF Pending, u, v
<1>3. ASSUME Twins(p, t) \/ Pending(p, t)
      PROVE  /\ HasFields(p) /\ HasFields(t)
             /\ p.utf8_multibyte_left = t.utf8_multibyte_left
             /\ p.state = t.state /\ p.ret = t.ret
             /\ p.stack = t.stack /\ p.expecting_key = t.expecting_key
  <2>1. CASE Twins(p, t)
    BY <2>1 DEF Twins, Alike
  <2>2. CASE Pending(p, t)
    BY <2>2, BufferForm DEF Pending, Alike
  <2> QED BY <1>3, <2>1, <2>2
<1> QED BY <1>1, <1>2, <1>3

(* What is alike is neutral, and an error changes nothing of that.         *)
LEMMA AlikeNeutral ==
    ASSUME NEW p, NEW t
    PROVE  /\ Alike(p, t) => Neutral(p, t)
           /\ Twins(p, t) \/ Pending(p, t) =>
                  Neutral(p, t) /\ \A e : Neutral(Fail(p, e), Fail(t, e))
<1>1. Alike(p, t) => Neutral(p, t)
  BY DEF Alike, Neutral
<1>2. ASSUME Twins(p, t) PROVE Neutral(p, t) /\ \A e : Neutral(Fail(p, e), Fail(t, e))
  <2>1. \A e : Alike(Fail(p, e), Fail(t, e))
    BY <1>2, FailAlike DEF Twins
  <2>2. \A e : Neutral(Fail(p, e), Fail(t, e))
    BY <2>1 DEF Alike, Neutral
  <2> QED BY <1>1, <1>2, <2>2 DEF Twins
<1>3. ASSUME Pending(p, t) PROVE Neutral(p, t) /\ \A e : Neutral(Fail(p, e), Fail(t, e))
  <2>1. /\ HasFields(p) /\ HasFields(t) /\ p.state = t.state /\ p.ret = t.ret
        /\ p.stack = t.stack /\ p.expecting_key = t.expecting_key
    BY <1>3, AwaitingAlike
  <2>2. p.calls = do_buffer(t).calls
    <3>1. p.type \notin Texts
      BY <1>3 DEF Pending, Texts
    <3>2. do_buffer(p).calls = p.calls
      BY <2>1, <3>1, BufferForm
    <3> QED BY <1>3, <3>2 DEF Pending, Alike
  <2>3. ASSUME NEW e PROVE Neutral(Fail(p, e), Fail(t, e))
    <3> DEFINE u == Fail(p, e)
               v == Fail(t, e)
    <3>1. /\ HasFields(u) /\ u.ret = e /\ u.state = p.state /\ u.stack = p.stack
          /\ u.expecting_key = p.expecting_key /\ u.calls = p.calls
      BY <2>1 DEF Fail, HasFields, Fields
    <3>2. /\ HasFields(v) /\ v.ret = e /\ v.state = t.state /\ v.stack = t.stack
          /\ v.expecting_key = t.expecting_key /\ v.calls = t.calls
          /\ v.type = t.type /\ v.buffer = t.buffer
      BY <2>1 DEF Fail, HasFields, Fields
    <3> HIDE DEF u, v
    <3>3. do_buffer(v).calls = do_buffer(t).calls
      BY <2>1, <3>2, BufferForm
    <3> QED BY <2>1, <2>2, <3>1, <3>2, <3>3 DEF Neutral, u, v
  <2> QED BY <2>1, <2>2, <2>3 DEF Neutral
<1> QED BY <1>1, <1>2, <1>3

(* A comment starts: the text that waits is given away (json.c 1961-1975). *)
LEMMA StartComment ==
    ASSUME NEW p, NEW t, HasFields(p), HasFields(t),
           Alike(do_buffer(p), do_buffer(t)), p.state = t.state, p.ret = "SUCCESS",
           NEW a \in {"CB", "YB"}, p.state \in Commentable,
           NEW s, HasFields(s), s.state = t.state, s.type = t.type,
           s.calls = t.calls, s.buffer = t.buffer, s.config = t.config,
           s.expecting_key = t.expecting_key, s.unicode_multi = t.unicode_multi,
           s.stack = t.stack, s.stack_size = t.stack_size, s.ret = t.ret,
           s.buffer_size = t.buffer_size, ~ (s.utf8_multibyte_left > 0)
    PROVE  LET c == do_action(p, a)
               d == do_action(t, a)
           IN  IF c.ret = "SUCCESS" THEN c.state \in CommentStates /\ Suspended(c, s)
               ELSE /\ c.state \notin CommentStates /\ Neutral(c, d)
                    /\ c = Fail(do_buffer(p), "COMMENT_NOT_ALLOWED")
                    /\ ~ (p.config.allow_c_comments /\ p.config.allow_yaml_comments)
<1> DEFINE b == do_buffer(p)
           allowed == IF a = "CB" THEN b.config.allow_c_comments
                      ELSE b.config.allow_yaml_comments
           k == [b EXCEPT !.save_state = b.state]
           c == do_action(p, a)
           d == do_action(t, a)
<1>1. a \in DoBuffer /\ a \in Actions \ {"CE"}
  BY DEF DoBuffer, Actions
<1>2. Alike(c, d)
  BY <1>1, ActionAlike
<1>3. HasFields(b) /\ b.state = p.state /\ b.ret = p.ret /\ b.config = p.config
  BY BufferForm
<1> HIDE DEF b
<1>4. /\ HasFields(k) /\ k.save_state = p.state /\ k.ret = b.ret
      /\ k.config = b.config /\ k.expecting_key = b.expecting_key
      /\ k.unicode_multi = b.unicode_multi
      /\ k.stack = b.stack /\ k.stack_size = b.stack_size
      /\ k.buffer = b.buffer /\ k.buffer_size = b.buffer_size
      /\ k.calls = b.calls
  BY <1>3 DEF HasFields, Fields
<1>5. Called(b, a) = IF ~ allowed THEN Fail(b, "COMMENT_NOT_ALLOWED") ELSE k
  BY SMT DEF Called, act_comment
<1>6. c = IF Called(b, a).ret # "SUCCESS" THEN Called(b, a)
          ELSE [Called(b, a) EXCEPT
                   !.state = IF a \in DOMAIN ActionState THEN ActionState[a] ELSE @,
                   !.type  = IF a \in DOMAIN ActionType THEN ActionType[a]
                                                        ELSE "NONE"]
  BY <1>1 DEF do_action, b
<1>7. /\ a \in DOMAIN ActionState /\ ActionState[a] \in CommentStates
      /\ a \notin DOMAIN ActionType
  BY ActionTables
<1>a. ~ allowed => ~ (p.config.allow_c_comments /\ p.config.allow_yaml_comments)
  BY <1>3
<1> HIDE DEF k, c, d, allowed
<1>8. CASE ~ allowed
  <2>1. c = Fail(b, "COMMENT_NOT_ALLOWED")
    <3>1. Fail(b, "COMMENT_NOT_ALLOWED").ret # "SUCCESS"
      BY <1>3, FailSame
    <3> QED BY <1>5, <1>6, <1>8, <3>1
  <2>2. c.ret # "SUCCESS" /\ c.state = p.state
    BY <1>3, <2>1, FailSame
  <2>3. c.state \notin CommentStates
    BY <2>2, Kinds DEF Commentable, CommentStates
  <2>4. Neutral(c, d)
    BY <1>2, AlikeNeutral DEF c, d
  <2> QED BY <1>8, <1>a, <2>1, <2>2, <2>3, <2>4 DEF b, c, d
<1>9. CASE allowed
  <2> DEFINE w == ActionState[a]
             r == [k EXCEPT !.state = w, !.type = "NONE"]
  <2>1. c = r
    <3>1. Called(b, a) = k /\ k.ret = "SUCCESS"
      BY <1>3, <1>4, <1>5, <1>9
    <3> QED BY <1>6, <1>7, <3>1
  <2> HIDE DEF w
  <2>2. /\ HasFields(r) /\ r.save_state = p.state /\ r.ret = b.ret
        /\ r.config = b.config /\ r.expecting_key = b.expecting_key
        /\ r.unicode_multi = b.unicode_multi
        /\ r.stack = b.stack /\ r.stack_size = b.stack_size
        /\ r.buffer = b.buffer /\ r.buffer_size = b.buffer_size
        /\ r.calls = b.calls /\ r.state = w /\ r.type = "NONE"
    BY <1>4 DEF HasFields, Fields
  <2> HIDE DEF r
  <2> DEFINE u == do_buffer(s)
             v == do_buffer(t)
  <2>3. /\ u.config = v.config /\ u.expecting_key = v.expecting_key
        /\ u.unicode_multi = v.unicode_multi
        /\ u.stack = v.stack /\ u.stack_size = v.stack_size
        /\ u.buffer = v.buffer /\ u.buffer_size = v.buffer_size
        /\ u.calls = v.calls /\ u.ret = v.ret
    BY BufferForm
  <2>4. Alike(b, v)
    BY DEF b
  <2> HIDE DEF u, v
  <2>5. /\ c.config = u.config /\ c.expecting_key = u.expecting_key
        /\ c.unicode_multi = u.unicode_multi
        /\ c.stack = u.stack /\ c.stack_size = u.stack_size
        /\ c.buffer = u.buffer /\ c.buffer_size = u.buffer_size
        /\ c.calls = u.calls /\ c.ret = u.ret
    BY <2>1, <2>2, <2>3, <2>4 DEF Alike
  <2>6. w \in CommentStates
    BY <1>7 DEF w
  <2>7. Suspended(c, s)
    BY <2>1, <2>2, <2>5, <2>6 DEF Suspended, u
  <2>8. c.ret = "SUCCESS" /\ c.state \in CommentStates
    BY <1>3, <2>1, <2>2, <2>6
  <2> QED BY <2>7, <2>8 DEF c
<1> QED BY <1>8, <1>9


(* Only the two actions that start a comment lead into one.                *)
LEMMA NoComment ==
    ASSUME NEW p, HasFields(p), p.ret = "SUCCESS", p.state \notin CommentStates,
           NEW ch, NEW class,
           state_transition_table(p.state, class) \notin {"CB", "YB"},
           Moved(p, ch, class).ret = "SUCCESS"
    PROVE  Moved(p, ch, class).state \notin CommentStates
<1> DEFINE s == p.state
           n == state_transition_table(s, class)
           q == Kept(p, ch, class)
           r == [q EXCEPT !.state = n]
           c == Moved(p, ch, class)
<1>2. SameDoc(p, q) /\ (q.ret = "SUCCESS" => q.state = s)
  BY KeptDoc
<1>3. n # "__" => Leads(s, n)
  BY TableLookup, Leading
<1>4. c = IF n = "__" THEN Fail(p, "UNEXPECTED_CHAR")
          ELSE IF q.ret # "SUCCESS" THEN q
          ELSE IF n \in Actions THEN do_action(q, n) ELSE r
  BY DEF Moved, IS_STATE_ACTION
<1>5. Fail(p, "UNEXPECTED_CHAR").ret # "SUCCESS" /\ r.state = n
  <2>1. r.state = n
    BY <1>2 DEF SameDoc, HasFields, Fields
  <2> QED BY <2>1, FailDoc
<1>6. n \notin {"CB", "YB"} /\ s \notin CommentStates /\ c.ret = "SUCCESS"
  OBVIOUS
<1> HIDE DEF n, q, r, c, s
<1>7. CASE n = "__"
  BY <1>4, <1>5, <1>6, <1>7
<1>8. CASE n # "__" /\ q.ret # "SUCCESS"
  BY <1>4, <1>6, <1>8
<1>9. CASE n # "__" /\ q.ret = "SUCCESS" /\ n \notin Actions
  <2>1. c.state = n /\ Leads(s, n)
    BY <1>3, <1>4, <1>5, <1>9
  <2>2. n \notin CommentStates
    BY <1>6, <1>9, <2>1, Kinds DEF Leads, StringStates
  <2> QED BY <2>1, <2>2 DEF c
<1>10. CASE n # "__" /\ q.ret = "SUCCESS" /\ n \in Actions
  <2> DEFINE b == IF n \in DoBuffer THEN do_buffer(q) ELSE q
             d == Called(b, n)
  <2>1. c = do_action(q, n) /\ HasFields(q) /\ Leads(s, n)
    BY <1>2, <1>3, <1>4, <1>10 DEF SameDoc
  <2>2. HasFields(b) /\ b.ret = "SUCCESS"
    BY <1>10, <2>1, BufferForm
  <2> HIDE DEF b
  <2>3. HasFields(d)
    BY <1>10, <2>2, CalledTells
  <2>4. /\ d.ret = "SUCCESS"
        /\ c.state = IF n \in DOMAIN ActionState THEN ActionState[n] ELSE d.state
    BY <1>6, <2>1, <2>3, ActionForm DEF b
  <2> HIDE DEF d
  <2>5. CASE n = "SP"
    <3> DEFINE k == [b EXCEPT !.expecting_key = TRUE, !.state = "_K"]
               v == [b EXCEPT !.state = "_V"]
    <3>1. d \in {Fail(b, "COMMA_OUT_OF_STRUCTURE"), k, v}
      BY <2>5, SMT DEF d, Called, act_sp
    <3>2. k.state = "_K" /\ v.state = "_V"
      BY <2>2 DEF HasFields, Fields
    <3>3. Fail(b, "COMMA_OUT_OF_STRUCTURE").ret # "SUCCESS"
      BY <2>2, FailDoc
    <3> HIDE DEF k, v
    <3> QED BY <2>4, <2>5, <3>1, <3>2, <3>3, ActionTables DEF c, CommentStates
  <2>6. CASE n = "SE"
    <3> DEFINE u == do_callback_withbuf(b, IF b.expecting_key THEN "KEY"
                                                              ELSE "STRING")
    <3>1. d = [u EXCEPT !.buffer = <<>>,
                        !.state = IF b.expecting_key THEN "CO" ELSE "OK",
                        !.expecting_key = FALSE]
      BY <2>6, Zenon DEF d, Called, act_se
    <3>2. HasFields(u)
      BY <2>2, CallbackTells
    <3> HIDE DEF u
    <3>3. d.state \in {"CO", "OK"}
      BY <3>1, <3>2 DEF HasFields, Fields
    <3> QED BY <2>4, <2>6, <3>3, ActionTables DEF c, CommentStates
  <2>7. CASE n = "UC"
    <3> DEFINE u == decode_unicode_char(b)
               v == IF u.unicode_multi # 0 THEN "D1" ELSE "_S"
    <3>1. d = act_uc(b)
      BY <2>7, Zenon DEF d, Called
    <3>2. d = IF u.ret # "SUCCESS" THEN u ELSE [u EXCEPT !.state = v]
      BY <3>1 DEF act_uc
    <3>3. HasFields(u)
      BY <2>2, DecodeDoc DEF SameDoc
    <3> HIDE DEF u
    <3>4. [u EXCEPT !.state = v].state = v
      BY <3>3 DEF HasFields, Fields
    <3>5. d.state \in {"D1", "_S"}
      BY <2>4, <3>2, <3>4
    <3> QED BY <2>4, <2>7, <3>5, ActionTables DEF c, CommentStates
  <2>8. CASE n \in {"KS", "AB", "AE", "OB", "OE", "FA", "TR", "NU", "DE", "DF",
                    "MX", "ZX", "IX"}
    <3>1. c.state = ActionState[n]
      BY <2>4, <2>8, ActionTables
    <3>2. ActionState[n] \in {"_V", "_A", "_O", "OK"} \cup NumberStates
      BY <2>8, ActionTables
    <3>3. ActionState[n] \notin CommentStates
      BY <3>2, Kinds DEF BlankStates
    <3> QED BY <3>1, <3>3 DEF c
  <2>9. n # "CE"
    BY <1>6, <2>1 DEF Leads
  <2> QED BY <1>6, <1>10, <2>5, <2>6, <2>7, <2>8, <2>9 DEF Actions
<1> QED BY <1>7, <1>8, <1>9, <1>10

(* s is t before the byte, which did not belong to a longer character.     *)
Before(s, t) ==
    /\ HasFields(s) /\ s.state = t.state /\ s.type = t.type
    /\ s.calls = t.calls /\ s.buffer = t.buffer /\ s.config = t.config
    /\ s.expecting_key = t.expecting_key /\ s.unicode_multi = t.unicode_multi
    /\ s.stack = t.stack /\ s.stack_size = t.stack_size /\ s.ret = t.ret
    /\ s.buffer_size = t.buffer_size /\ ~ (s.utf8_multibyte_left > 0)

(* What a byte makes of the two, c and d: s is where the twin stays when a *)
(* comment starts.                                                         *)
StaysNeutral(c, d, s) ==
    /\ c.state \in CommentStates /\ c.ret = "SUCCESS" => Suspended(c, s)
    /\ c.state \notin CommentStates =>
           /\ Neutral(c, d)
           /\ c.ret = "SUCCESS" => Twins(c, d) \/ Pending(c, d)

(* In a state where a comment may start, nothing is kept of its first      *)
(* byte, and it is none of a longer character.                             *)
LEMMA CommentStarts ==
    ASSUME NEW p, NEW class, NEW ch,
           state_transition_table(p.state, class) \in {"CB", "YB"}
    PROVE  /\ p.state \in Commentable /\ class # "OTHER"
           /\ Kept(p, ch, class) = p
<1> DEFINE n == state_transition_table(p.state, class)
<1>1. n # "__" /\ n \in {"CB", "YB"}
  OBVIOUS
<1>2. PICK m \in Table : m[1] = p.state /\ class \in m[2] /\ m[3] = n
  BY <1>1, TableLookup
<1> HIDE DEF n
<1>3. p.state \in Commentable /\ class \in {"SLASH", "HASH"}
  BY <1>1, <1>2, CommentMoves
<1>4. buffer_policy_table(p.state, class) = "ignore"
  BY <1>3 DEF buffer_policy_table, Buffered, Commentable, BlankStates, Digits, Hex
<1> QED BY <1>3, <1>4 DEF Kept

(* Outside a comment, with the same text waiting in both.                  *)
LEMMA SameMove ==
    ASSUME NEW p, NEW t, Twins(p, t), p.ret = "SUCCESS",
           p.state \notin CommentStates, NEW ch, NEW class,
           NEW s, class # "OTHER" => Before(s, t)
    PROVE  StaysNeutral(Moved(p, ch, class), Moved(t, ch, class), s)
<1> DEFINE c == Moved(p, ch, class)
           d == Moved(t, ch, class)
           n == state_transition_table(p.state, class)
<1>1. /\ HasFields(p) /\ HasFields(t) /\ p.state = t.state /\ p.ret = t.ret
      /\ Alike(p, t) /\ p.type = t.type
  BY DEF Twins, Alike
<1>2. n # "CE"
  <2>1. n # "__" => Leads(p.state, n)
    BY TableLookup, Leading
  <2> QED BY <2>1 DEF Leads
<1>3. Alike(c, d) /\ (c.ret = "SUCCESS" => c.type = d.type)
  BY <1>1, <1>2, MovedAlike
<1>4. CASE n \notin {"CB", "YB"}
  <2>1. c.ret = "SUCCESS" => c.state \notin CommentStates
    BY <1>1, <1>4, NoComment
  <2> HIDE DEF c, d
  <2>2. Neutral(c, d)
    BY <1>3, AlikeNeutral
  <2> QED BY <1>3, <2>1, <2>2 DEF StaysNeutral, Twins, c, d
<1>5. CASE n \in {"CB", "YB"}
  <2>1. p.state \in Commentable /\ class # "OTHER"
        /\ Kept(p, ch, class) = p /\ Kept(t, ch, class) = t
    BY <1>1, <1>5, CommentStarts
  <2>2. Before(s, t)
    BY <2>1
  <2>3. n \in Actions /\ n # "__"
    BY <1>5 DEF Actions
  <2>4. c = do_action(p, n) /\ d = do_action(t, n)
    BY <1>1, <2>1, <2>3 DEF Moved, IS_STATE_ACTION
  <2> HIDE DEF c, d, n
  <2>5. Alike(do_buffer(p), do_buffer(t))
    BY <1>1, BufferAlike
  <2>6. IF c.ret = "SUCCESS" THEN c.state \in CommentStates /\ Suspended(c, s)
        ELSE c.state \notin CommentStates /\ Neutral(c, d)
    BY <1>1, <1>5, <2>1, <2>2, <2>4, <2>5, StartComment DEF Before
  <2> QED BY <2>6 DEF StaysNeutral, c, d
<1> QED BY <1>4, <1>5

(* Outside a comment, where a comment ended a text.                        *)
LEMMA PendingMove ==
    ASSUME NEW p, NEW t, Pending(p, t), p.ret = "SUCCESS",
           NEW ch, NEW class, NEW s, class # "OTHER" => Before(s, t)
    PROVE  StaysNeutral(Moved(p, ch, class), Moved(t, ch, class), s)
<1> DEFINE c == Moved(p, ch, class)
           d == Moved(t, ch, class)
           n == state_transition_table("OK", class)
<1>1. /\ HasFields(p) /\ HasFields(t) /\ p.state = "OK" /\ t.state = "OK"
      /\ p.ret = t.ret /\ Alike(do_buffer(p), do_buffer(t))
  BY AwaitingAlike DEF Pending
<1>2. n # "__" => Leads("OK", n)
  BY TableLookup, Leading
<1>3. Kept(p, ch, class) = p /\ Kept(t, ch, class) = t
  <2>1. buffer_policy_table("OK", class) = "ignore"
    BY Ignored, Kinds
  <2> QED BY <1>1, <2>1 DEF Kept
<1>4. ASSUME NEW r, r.state = "OK", r.ret = "SUCCESS", Kept(r, ch, class) = r
      PROVE  Moved(r, ch, class)
                 = IF n = "__" THEN Fail(r, "UNEXPECTED_CHAR")
                   ELSE IF n \in Actions THEN do_action(r, n)
                   ELSE [r EXCEPT !.state = n]
  BY <1>4 DEF Moved, IS_STATE_ACTION
<1>5. /\ c = IF n = "__" THEN Fail(p, "UNEXPECTED_CHAR")
             ELSE IF n \in Actions THEN do_action(p, n) ELSE [p EXCEPT !.state = n]
      /\ d = IF n = "__" THEN Fail(t, "UNEXPECTED_CHAR")
             ELSE IF n \in Actions THEN do_action(t, n) ELSE [t EXCEPT !.state = n]
  BY <1>1, <1>3, <1>4
<1>6. CASE n \in {"CB", "YB"}
  <2>1. class # "OTHER" /\ p.state \in Commentable
    BY <1>1, <1>6, CommentStarts
  <2>2. n \in Actions /\ n # "__" /\ Before(s, t)
    BY <1>6, <2>1 DEF Actions
  <2>3. c = do_action(p, n) /\ d = do_action(t, n)
    BY <1>5, <2>2
  <2> HIDE DEF c, d, n
  <2>4. IF c.ret = "SUCCESS" THEN c.state \in CommentStates /\ Suspended(c, s)
        ELSE c.state \notin CommentStates /\ Neutral(c, d)
    BY <1>1, <1>6, <2>1, <2>2, <2>3, StartComment DEF Before
  <2> QED BY <2>4 DEF StaysNeutral, c, d
<1>7. CASE n \notin {"CB", "YB"}
  <2>1. c.ret = "SUCCESS" => c.state \notin CommentStates
    BY <1>1, <1>7, Kinds, NoComment
  <2> HIDE DEF c, d, n
  <2>2. CASE n = "__"
    <3>1. c = Fail(p, "UNEXPECTED_CHAR") /\ d = Fail(t, "UNEXPECTED_CHAR")
      BY <1>5, <2>2
    <3>2. Neutral(c, d) /\ c.ret # "SUCCESS"
      BY <1>1, <3>1, AlikeNeutral, FailDoc
    <3> QED BY <2>1, <3>2 DEF StaysNeutral, c, d
  <2>3. CASE n \in Actions
    <3>1. n \in DoBuffer /\ n \in Actions \ {"CE"} /\ n # "__"
      BY <1>2, <1>7, <2>3, Kinds DEF Leads, Actions, DoBuffer
    <3>2. c = do_action(p, n) /\ d = do_action(t, n)
      BY <1>5, <2>3, <3>1
    <3>3. Alike(c, d) /\ (c.ret = "SUCCESS" => c.type = d.type)
      BY <1>1, <3>1, <3>2, ActionAlike
    <3>4. Neutral(c, d)
      BY <3>3, AlikeNeutral
    <3> QED BY <2>1, <3>3, <3>4 DEF StaysNeutral, Twins, c, d
  <2>4. CASE n # "__" /\ n \notin Actions
    <3>1. n = "OK"
      BY <1>2, <2>4, Kinds DEF Leads, BlankStates
    <3>2. c = [p EXCEPT !.state = "OK"] /\ d = [t EXCEPT !.state = "OK"]
      BY <1>5, <2>4, <3>1
    <3>3. /\ HasFields(c) /\ c.state = "OK" /\ c.type = p.type /\ c.ret = p.ret
          /\ c.calls = p.calls /\ c.buffer = p.buffer /\ c.config = p.config
          /\ c.expecting_key = p.expecting_key
          /\ c.unicode_multi = p.unicode_multi
          /\ c.utf8_multibyte_left = p.utf8_multibyte_left
          /\ c.stack = p.stack /\ c.stack_size = p.stack_size
          /\ c.buffer_size = p.buffer_size
      BY <1>1, <3>2 DEF HasFields, Fields
    <3>4. /\ HasFields(d) /\ d.state = "OK" /\ d.type = t.type /\ d.ret = t.ret
          /\ d.calls = t.calls /\ d.buffer = t.buffer /\ d.config = t.config
          /\ d.expecting_key = t.expecting_key
          /\ d.unicode_multi = t.unicode_multi
          /\ d.utf8_multibyte_left = t.utf8_multibyte_left
          /\ d.stack = t.stack /\ d.stack_size = t.stack_size
          /\ d.buffer_size = t.buffer_size
      BY <1>1, <3>2 DEF HasFields, Fields
    <3>5. Alike(do_buffer(c), do_buffer(d))
      BY <1>1, <3>3, <3>4, BufferForm DEF Alike
    <3>6. Pending(c, d)
      BY <3>3, <3>4, <3>5 DEF Pending
    <3>7. Neutral(c, d)
      BY <3>6, AlikeNeutral
    <3> QED BY <2>1, <3>6, <3>7 DEF StaysNeutral, c, d
  <2> QED BY <2>2, <2>3, <2>4
<1> QED BY <1>6, <1>7


(* Nothing is kept in a comment.                                           *)
LEMMA CommentKeeps ==
    ASSUME NEW p, p.state \in CommentStates, NEW ch, NEW class
    PROVE  Kept(p, ch, class) = p
<1>1. p.state \notin StringStates \cup NumberStates \cup {"_V", "_A"}
  BY DEF CommentStates, StringStates, NumberStates
<1>2. buffer_policy_table(p.state, class) = "ignore"
  BY <1>1, Ignored
<1> QED BY <1>2 DEF Kept

(* How a byte moves in a comment: it goes on, it ends, or it is an error.  *)
LEMMA CommentForm ==
    ASSUME NEW p, HasFields(p), p.ret = "SUCCESS", p.state \in CommentStates,
           NEW ch, NEW class
    PROVE  LET q == Moved(p, ch, class)
           IN  \/ q.ret # "SUCCESS" /\ q.state \in CommentStates
               \/ \E n \in CommentStates : q = [p EXCEPT !.state = n]
               \/ class # "OTHER" /\ q = do_action(p, "CE")
<1> DEFINE n == state_transition_table(p.state, class)
           q == Moved(p, ch, class)
<1>1. q = IF n = "__" THEN Fail(p, "UNEXPECTED_CHAR")
          ELSE IF n \in Actions THEN do_action(p, n)
          ELSE [p EXCEPT !.state = n]
  BY CommentKeeps DEF Moved, IS_STATE_ACTION
<1>2. n # "__" => Leads(p.state, n) /\ (n = "CE" => class # "OTHER")
  BY TableLookup, Leading, CommentMoves
<1> HIDE DEF n, q
<1>3. CASE n = "__"
  BY <1>1, <1>3, FailSame DEF q
<1>4. CASE n # "__" /\ n \in Actions
  <2>1. n = "CE"
    BY <1>2, <1>4, Kinds DEF Leads, Actions, StringStates
  <2> QED BY <1>1, <1>2, <1>4, <2>1 DEF q
<1>5. CASE n # "__" /\ n \notin Actions
  <2>1. n \in CommentStates
    BY <1>2, <1>5, Kinds DEF Leads
  <2> QED BY <1>1, <1>5, <2>1 DEF q
<1> QED BY <1>3, <1>4, <1>5

(* The twin reads a space where a comment begins, or is refused.           *)
LEMMA SpaceRead ==
    ASSUME NEW t, HasFields(t), t.state \in Commentable \cup {"X3"}, t.ret = "SUCCESS",
           ~ (t.utf8_multibyte_left > 0)
    PROVE  LET d == json_parser_char(t, 32)
           IN  /\ HasFields(d)
               /\ d.state = IF t.state \in BlankStates THEN t.state ELSE "OK"
               /\ d.utf8_multibyte_left = 0
               /\ d.type = t.type /\ d.ret = t.ret /\ d.calls = t.calls
               /\ d.stack = t.stack /\ d.expecting_key = t.expecting_key
               /\ d.config = t.config /\ d.unicode_multi = t.unicode_multi
               /\ d.buffer = t.buffer /\ d.buffer_size = t.buffer_size
               /\ d.stack_size = t.stack_size
<1> DEFINE u == Awaiting(t, 0)
           n == IF t.state \in BlankStates THEN t.state ELSE "OK"
           d == [u EXCEPT !.state = n]
<1>1. utf8_header_table(32) = 0 /\ character_class(32) = "SPACE"
  <2>1. utf8_header_table(32) = 0
    BY SMT DEF utf8_header_table
  <2>2. character_class(32) = "SPACE"
    BY SMTT(60) DEF character_class
  <2> QED BY <2>1, <2>2
<1>2. json_parser_char(t, 32) = Moved(u, 32, "SPACE")
  BY <1>1 DEF json_parser_char, Awaiting
<1>3. /\ HasFields(u) /\ u.utf8_multibyte_left = 0 /\ u.state = t.state
      /\ u.type = t.type /\ u.ret = t.ret /\ u.calls = t.calls
      /\ u.stack = t.stack /\ u.expecting_key = t.expecting_key
      /\ u.config = t.config /\ u.unicode_multi = t.unicode_multi
      /\ u.buffer = t.buffer /\ u.buffer_size = t.buffer_size
      /\ u.stack_size = t.stack_size
  BY AwaitingForm
<1> HIDE DEF u
<1>4. state_transition_table(u.state, "SPACE") = n
  BY <1>3, SpaceMoves
<1>5. buffer_policy_table(u.state, "SPACE") = "ignore"
  BY <1>3 DEF buffer_policy_table, Buffered, Commentable, BlankStates, Digits, Hex,
              Escaped
<1>6. n # "__" /\ n \notin Actions
  BY DEF BlankStates, Actions
<1> HIDE DEF n
<1>7. Moved(u, 32, "SPACE") = d
  BY <1>3, <1>4, <1>5, <1>6 DEF Moved, Kept, IS_STATE_ACTION
<1>8. /\ HasFields(d) /\ d.state = n /\ d.utf8_multibyte_left = 0
      /\ d.type = u.type /\ d.ret = u.ret /\ d.calls = u.calls
      /\ d.stack = u.stack /\ d.expecting_key = u.expecting_key
      /\ d.config = u.config /\ d.unicode_multi = u.unicode_multi
      /\ d.buffer = u.buffer /\ d.buffer_size = u.buffer_size
      /\ d.stack_size = u.stack_size
  BY <1>3 DEF HasFields, Fields
<1> HIDE DEF d
<1> QED BY <1>2, <1>3, <1>7, <1>8 DEF n

(* The comment ends where the space leads (json.c 1961-1979).              *)
LEMMA EndComment ==
    ASSUME NEW p, NEW t, Suspended(p, t), p.ret = "SUCCESS",
           NestInv(t), Emptied(t), t.ret = "SUCCESS",
           p.utf8_multibyte_left = 0
    PROVE  LET c == do_action(p, "CE")
               d == json_parser_char(t, 32)
           IN  /\ c.state \notin CommentStates
               /\ Twins(c, d) \/ Pending(c, d)
<1> DEFINE c == do_action(p, "CE")
           d == json_parser_char(t, 32)
           b == do_buffer(t)
           x == IF t.state \in BlankStates THEN t.state ELSE "OK"
           k == [p EXCEPT !.state = x]
           e == [k EXCEPT !.type = "NONE"]
<1>1. /\ HasFields(p) /\ HasFields(t) /\ p.type = "NONE"
      /\ p.save_state = t.state /\ t.state \in Commentable
      /\ ~ (t.utf8_multibyte_left > 0)
      /\ p.config = b.config /\ p.expecting_key = b.expecting_key
      /\ p.unicode_multi = b.unicode_multi
      /\ p.stack = b.stack /\ p.stack_size = b.stack_size
      /\ p.buffer = b.buffer /\ p.buffer_size = b.buffer_size
      /\ p.calls = b.calls /\ p.ret = b.ret
  BY DEF Suspended
<1>2. /\ b.buffer = <<>>
      /\ b.calls = IF t.type \in Texts THEN Append(t.calls, Event(t.type, t.buffer))
                   ELSE t.calls
      /\ b.config = t.config /\ b.expecting_key = t.expecting_key
      /\ b.unicode_multi = t.unicode_multi /\ b.ret = t.ret
      /\ b.stack = t.stack /\ b.stack_size = t.stack_size
      /\ b.buffer_size = t.buffer_size
  BY <1>1, BufferForm
<1> HIDE DEF b
<1>3. /\ HasFields(d) /\ d.state = x /\ d.utf8_multibyte_left = 0
      /\ d.type = t.type /\ d.ret = t.ret /\ d.calls = t.calls
      /\ d.stack = t.stack /\ d.expecting_key = t.expecting_key
      /\ d.config = t.config /\ d.unicode_multi = t.unicode_multi
      /\ d.buffer = t.buffer /\ d.buffer_size = t.buffer_size
      /\ d.stack_size = t.stack_size
  BY <1>1, SpaceRead
<1>4. x \in BlankStates \cup {"OK"} /\ x \notin CommentStates
  BY Kinds
<1>5. act_ce(p) = k
  BY <1>1 DEF act_ce, Commentable, BlankStates
<1> HIDE DEF x, d
<1>6. /\ HasFields(k) /\ k.state = x /\ k.ret = "SUCCESS" /\ k.calls = p.calls
      /\ k.stack = p.stack /\ k.expecting_key = p.expecting_key
      /\ k.config = p.config /\ k.unicode_multi = p.unicode_multi
      /\ k.buffer = p.buffer /\ k.buffer_size = p.buffer_size
      /\ k.stack_size = p.stack_size /\ k.utf8_multibyte_left = 0
  BY <1>1 DEF HasFields, Fields
<1> HIDE DEF k
<1>7. "CE" \notin DoBuffer /\ "CE" \notin DOMAIN ActionState
      /\ "CE" \notin DOMAIN ActionType
  BY ActionTables DEF DoBuffer
<1>8. Called(p, "CE") = k
  BY <1>5 DEF Called
<1>9. c = [k EXCEPT !.state = @, !.type = "NONE"]
  BY <1>6, <1>7, <1>8 DEF do_action
<1>10. /\ HasFields(c) /\ c.state = x /\ c.ret = "SUCCESS" /\ c.calls = p.calls
       /\ c.stack = p.stack /\ c.expecting_key = p.expecting_key
       /\ c.config = p.config /\ c.unicode_multi = p.unicode_multi
       /\ c.buffer = p.buffer /\ c.buffer_size = p.buffer_size
       /\ c.stack_size = p.stack_size /\ c.utf8_multibyte_left = 0
       /\ c.type = "NONE"
  BY <1>6, <1>9 DEF HasFields, Fields
<1> HIDE DEF c
<1>11. CASE t.state \in BlankStates
  <2>1. t.type = "NONE" /\ t.buffer = <<>>
    <3> DEFINE s == Resumed(t)
    <3>1. Position(t, s) /\ s = t.state
      BY <1>11, Kinds DEF NestInv, Resumed
    <3> HIDE DEF s
    <3> QED BY <1>11, <3>1 DEF Position, Emptied, Between
  <2>2. t.type \notin Texts
    BY <2>1 DEF Texts
  <2>3. Twins(c, d)
    BY <1>1, <1>2, <1>3, <1>10, <2>1, <2>2 DEF Twins, Alike
  <2> QED BY <1>4, <1>10, <2>3 DEF c, d
<1>12. CASE t.state \notin BlankStates
  <2>1. x = "OK"
    BY <1>12 DEF x
  <2> DEFINE u == do_buffer(c)
             v == do_buffer(d)
  <2>2. /\ HasFields(u) /\ u.buffer = <<>> /\ u.calls = c.calls
        /\ u.config = c.config /\ u.state = x /\ u.expecting_key = c.expecting_key
        /\ u.ret = c.ret /\ u.utf8_multibyte_left = 0
        /\ u.unicode_multi = c.unicode_multi
        /\ u.stack = c.stack /\ u.stack_size = c.stack_size
        /\ u.buffer_size = c.buffer_size
    <3>1. c.type \notin Texts
      BY <1>10 DEF Texts
    <3> QED BY <1>10, <3>1, BufferForm
  <2>3. /\ HasFields(v) /\ v.buffer = <<>>
        /\ v.calls = IF d.type \in Texts THEN Append(d.calls, Event(d.type, d.buffer))
                     ELSE d.calls
        /\ v.config = d.config /\ v.state = x /\ v.expecting_key = d.expecting_key
        /\ v.ret = d.ret /\ v.utf8_multibyte_left = 0
        /\ v.unicode_multi = d.unicode_multi
        /\ v.stack = d.stack /\ v.stack_size = d.stack_size
        /\ v.buffer_size = d.buffer_size
    BY <1>3, BufferForm
  <2> HIDE DEF u, v
  <2>4. Alike(u, v)
    BY <1>1, <1>2, <1>3, <1>10, <2>2, <2>3 DEF Alike
  <2>5. Pending(c, d)
    BY <1>3, <1>10, <2>1, <2>4 DEF Pending, u, v
  <2> QED BY <1>4, <1>10, <2>5 DEF c, d
<1> QED BY <1>11, <1>12

(* What waits and what was read leave the emptied buffer alone.            *)
LEMMA CharEmptied ==
    ASSUME NEW p, NestInv(p), Emptied(p), p.ret = "SUCCESS", NEW ch
    PROVE  Emptied(json_parser_char(p, ch))
<1>1. HasFields(p)
  BY DEF NestInv, Core
<1>2. ASSUME NEW n
      PROVE  LET q == Awaiting(p, n)
             IN  NestInv(q) /\ Emptied(q) /\ q.ret = "SUCCESS" /\ HasFields(q)
  <2> DEFINE q == Awaiting(p, n)
  <2>1. /\ HasFields(q) /\ q.state = p.state /\ q.type = p.type /\ q.ret = p.ret
        /\ q.calls = p.calls /\ q.stack = p.stack /\ q.buffer = p.buffer
        /\ q.expecting_key = p.expecting_key /\ q.save_state = p.save_state
    BY <1>1, AwaitingForm
  <2> HIDE DEF q
  <2>2. Whole(p) /\ Whole(q) /\ Core(q) /\ Resumed(q) = Resumed(p)
    BY <2>1 DEF NestInv, Whole, Core, Resumed
  <2>3. Position(q, Resumed(q))
    <3> DEFINE s == Resumed(p)
    <3>1. Position(p, s) /\ Resumed(q) = s
      BY <2>2 DEF NestInv
    <3> HIDE DEF s
    <3> QED BY <2>1, <3>1 DEF Position, KeyFits, ValueFits, InObject, InArray
  <2>4. NestInv(q)
    BY <2>1, <2>2, <2>3 DEF NestInv
  <2>5. Emptied(q)
    BY <2>1 DEF Emptied, Between
  <2> QED BY <2>1, <2>4, <2>5 DEF q
<1>3. ASSUME NEW q, HasFields(q), NEW e, e # "SUCCESS"
      PROVE  Emptied(Fail(q, e))
  BY <1>3, FailDoc DEF Emptied
<1>4. CASE \E e : e # "SUCCESS" /\ json_parser_char(p, ch) = Fail(p, e)
  BY <1>1, <1>3, <1>4
<1>5. CASE \E e, n : e # "SUCCESS" /\ json_parser_char(p, ch) = Fail(Awaiting(p, n), e)
  BY <1>2, <1>3, <1>5
<1>6. CASE \E n, class : json_parser_char(p, ch) = Moved(Awaiting(p, n), ch, class)
  BY <1>2, <1>6, MovedEmptied
<1> QED BY <1>4, <1>5, <1>6, ByteForm

(* One byte, when no comment is being read.                                *)
LEMMA OutsideChar ==
    ASSUME NEW p, NEW t, CommentInv(p, t), p.ret = "SUCCESS",
           p.state \notin CommentStates, NEW ch
    PROVE  StaysNeutral(json_parser_char(p, ch), json_parser_char(t, ch), t)
<1> DEFINE c == json_parser_char(p, ch)
           d == json_parser_char(t, ch)
<1>1. Twins(p, t) \/ Pending(p, t)
  BY DEF CommentInv
<1>2. /\ HasFields(p) /\ HasFields(t) /\ p.state = t.state /\ p.ret = t.ret
      /\ p.utf8_multibyte_left = t.utf8_multibyte_left
  BY <1>1, AwaitingAlike
<1>3. ASSUME NEW e, e # "SUCCESS", NEW u, NEW v, Twins(u, v) \/ Pending(u, v),
             u.state \notin CommentStates
      PROVE  StaysNeutral(Fail(u, e), Fail(v, e), t)
  <2>1. HasFields(u)
    BY <1>3, AwaitingAlike
  <2>2. Fail(u, e).ret # "SUCCESS" /\ Fail(u, e).state = u.state
    BY <1>3, <2>1, FailSame
  <2>3. Neutral(Fail(u, e), Fail(v, e))
    BY <1>3, AlikeNeutral
  <2> HIDE DEF Fail
  <2> QED BY <1>3, <2>2, <2>3 DEF StaysNeutral
<1>4. ASSUME NEW n
      PROVE  /\ Twins(Awaiting(p, n), Awaiting(t, n))
                    \/ Pending(Awaiting(p, n), Awaiting(t, n))
             /\ Awaiting(p, n).state \notin CommentStates
             /\ Awaiting(p, n).ret = "SUCCESS"
  BY <1>1, <1>2, AwaitingAlike, AwaitingForm
<1>5. CASE \E e : e # "SUCCESS" /\ c = Fail(p, e) /\ d = Fail(t, e)
  BY <1>1, <1>3, <1>5
<1>6. CASE \E e, n : /\ e # "SUCCESS" /\ c = Fail(Awaiting(p, n), e)
                     /\ d = Fail(Awaiting(t, n), e)
  BY <1>3, <1>4, <1>6
<1>7. CASE \E n, class :
              /\ class # "OTHER" => n = 0 /\ ~ (p.utf8_multibyte_left > 0)
              /\ c = Moved(Awaiting(p, n), ch, class)
              /\ d = Moved(Awaiting(t, n), ch, class)
  <2>1. PICK n, class :
              /\ class # "OTHER" => n = 0 /\ ~ (p.utf8_multibyte_left > 0)
              /\ c = Moved(Awaiting(p, n), ch, class)
              /\ d = Moved(Awaiting(t, n), ch, class)
    BY <1>7
  <2> HIDE DEF c, d
  <2> DEFINE u == Awaiting(p, n)
             v == Awaiting(t, n)
  <2>2. class # "OTHER" => Before(t, v)
    BY <1>2, <2>1, AwaitingForm DEF Before
  <2>3. (Twins(u, v) \/ Pending(u, v)) /\ u.state \notin CommentStates
        /\ u.ret = "SUCCESS"
    BY <1>4
  <2> HIDE DEF u, v
  <2>4. StaysNeutral(Moved(u, ch, class), Moved(v, ch, class), t)
    BY <2>2, <2>3, SameMove, PendingMove
  <2> QED BY <2>1, <2>4 DEF u, v, c, d
<1>8. \/ \E e : e # "SUCCESS" /\ c = Fail(p, e) /\ d = Fail(t, e)
      \/ \E e, n : /\ e # "SUCCESS" /\ c = Fail(Awaiting(p, n), e)
                   /\ d = Fail(Awaiting(t, n), e)
      \/ \E n, class :
              /\ class # "OTHER" => n = 0 /\ ~ (p.utf8_multibyte_left > 0)
              /\ c = Moved(Awaiting(p, n), ch, class)
              /\ d = Moved(Awaiting(t, n), ch, class)
  BY <1>2, ByteForm
<1> QED BY <1>5, <1>6, <1>7, <1>8

(* One byte, in a comment.                                                 *)
LEMMA InsideChar ==
    ASSUME NEW p, NEW t, CommentInv(p, t), p.ret = "SUCCESS",
           NestInv(t), Emptied(t), p.state \in CommentStates, NEW ch
    PROVE  StaysNeutral(json_parser_char(p, ch), json_parser_char(t, 32), t)
<1> DEFINE c == json_parser_char(p, ch)
           d == json_parser_char(t, 32)
<1>1. Suspended(p, t)
  BY DEF CommentInv
<1>2. HasFields(p) /\ HasFields(t) /\ t.ret = "SUCCESS"
  BY <1>1, BufferForm DEF Suspended
<1>3. ASSUME NEW n
      PROVE  LET q == Awaiting(p, n)
             IN  /\ HasFields(q) /\ q.state \in CommentStates
                 /\ q.utf8_multibyte_left = n /\ q.ret = "SUCCESS"
                 /\ Suspended(q, t)
  <2> DEFINE q == Awaiting(p, n)
  <2>1. /\ HasFields(q) /\ q.utf8_multibyte_left = n
        /\ q.state = p.state /\ q.type = p.type /\ q.ret = p.ret
        /\ q.calls = p.calls /\ q.stack = p.stack
        /\ q.expecting_key = p.expecting_key /\ q.config = p.config
        /\ q.unicode_multi = p.unicode_multi /\ q.buffer = p.buffer
        /\ q.buffer_size = p.buffer_size /\ q.stack_size = p.stack_size
        /\ q.save_state = p.save_state
    BY <1>2, AwaitingForm
  <2> HIDE DEF q
  <2> QED BY <1>1, <2>1 DEF Suspended, q
<1>4. ASSUME NEW r, r.ret # "SUCCESS", r.state \in CommentStates
      PROVE  StaysNeutral(r, d, t)
  BY <1>4 DEF StaysNeutral
<1>5. ASSUME NEW q, HasFields(q), q.state \in CommentStates, NEW e, e # "SUCCESS"
      PROVE  Fail(q, e).ret # "SUCCESS" /\ Fail(q, e).state \in CommentStates
  BY <1>5, FailSame
<1>6. CASE \E e : e # "SUCCESS" /\ c = Fail(p, e)
  BY <1>2, <1>4, <1>5, <1>6
<1>7. CASE \E e, n : e # "SUCCESS" /\ c = Fail(Awaiting(p, n), e)
  BY <1>3, <1>4, <1>5, <1>7
<1>8. CASE \E n, class : (class # "OTHER" => n = 0) /\ c = Moved(Awaiting(p, n), ch, class)
  <2>1. PICK n, class : /\ class # "OTHER" => n = 0
                        /\ c = Moved(Awaiting(p, n), ch, class)
    BY <1>8
  <2> HIDE DEF c, d
  <2> DEFINE q == Awaiting(p, n)
  <2>2. /\ HasFields(q) /\ q.state \in CommentStates /\ q.ret = "SUCCESS"
        /\ q.utf8_multibyte_left = n /\ Suspended(q, t)
    BY <1>3
  <2>3. c = Moved(q, ch, class)
    BY <2>1
  <2> HIDE DEF q
  <2>4. \/ c.ret # "SUCCESS" /\ c.state \in CommentStates
        \/ \E x \in CommentStates : c = [q EXCEPT !.state = x]
        \/ class # "OTHER" /\ c = do_action(q, "CE")
    BY <2>2, <2>3, CommentForm
  <2>5. CASE \E x \in CommentStates : c = [q EXCEPT !.state = x]
    <3>1. PICK x \in CommentStates : c = [q EXCEPT !.state = x]
      BY <2>5
    <3>2. /\ HasFields(c) /\ c.state = x /\ c.type = q.type /\ c.ret = q.ret
          /\ c.calls = q.calls /\ c.stack = q.stack
          /\ c.expecting_key = q.expecting_key /\ c.config = q.config
          /\ c.unicode_multi = q.unicode_multi /\ c.buffer = q.buffer
          /\ c.buffer_size = q.buffer_size /\ c.stack_size = q.stack_size
          /\ c.save_state = q.save_state
      BY <2>2, <3>1 DEF HasFields, Fields
    <3>3. Suspended(c, t)
      BY <2>2, <3>2 DEF Suspended
    <3> QED BY <3>2, <3>3 DEF StaysNeutral, c, d
  <2>6. CASE class # "OTHER" /\ c = do_action(q, "CE")
    <3>1. q.utf8_multibyte_left = 0
      BY <2>1, <2>2, <2>6
    <3>2. c.state \notin CommentStates /\ (Twins(c, d) \/ Pending(c, d))
      BY <1>2, <2>2, <2>6, <3>1, EndComment DEF d
    <3>3. Neutral(c, d)
      BY <3>2, AlikeNeutral
    <3> QED BY <3>2, <3>3 DEF StaysNeutral, c, d
  <2> QED BY <1>4, <2>4, <2>5, <2>6 DEF c, d
<1> HIDE DEF d
<1>9. \/ \E e : e # "SUCCESS" /\ c = Fail(p, e)
      \/ \E e, n : e # "SUCCESS" /\ c = Fail(Awaiting(p, n), e)
      \/ \E n, class : (class # "OTHER" => n = 0) /\ c = Moved(Awaiting(p, n), ch, class)
  BY ByteForm
<1> HIDE DEF c
<1> QED BY <1>6, <1>7, <1>8, <1>9 DEF c, d

(* A byte that could begin a comment, where none is being read: the twin   *)
(* reads a space (json.c 963-965, 974, 996, 1961-1975).                    *)
LEMMA BeginningChar ==
    ASSUME NEW p, NEW t, CommentInv(p, t), p.ret = "SUCCESS",
           p.state \notin CommentStates, p.state \notin StringStates,
           NEW ch \in {35, 47}
    PROVE  StaysNeutral(json_parser_char(p, ch), json_parser_char(t, 32), t)
<1> DEFINE c == json_parser_char(p, ch)
           d == json_parser_char(t, 32)
           class == character_class(ch)
           u == Awaiting(p, 0)
           v == Awaiting(t, 0)
           s == p.state
           n == state_transition_table(s, class)
<1>1. Twins(p, t) \/ Pending(p, t)
  BY DEF CommentInv
<1>2. /\ HasFields(p) /\ HasFields(t) /\ t.state = s /\ t.ret = "SUCCESS"
      /\ p.utf8_multibyte_left = t.utf8_multibyte_left
      /\ t.stack = p.stack /\ t.expecting_key = p.expecting_key
  BY <1>1, AwaitingAlike
<1>3. /\ class \in {"SLASH", "HASH"} /\ character_class(32) = "SPACE"
      /\ utf8_header_table(ch) = 0 /\ utf8_header_table(32) = 0
      /\ utf8_continuation_table(ch) # 0 /\ utf8_continuation_table(32) # 0
  <2>1. character_class(35) = "HASH"
    BY SMTT(60) DEF character_class
  <2>2. character_class(47) = "SLASH"
    BY SMTT(60) DEF character_class
  <2>3. character_class(32) = "SPACE"
    BY SMTT(60) DEF character_class
  <2>4. utf8_header_table(ch) = 0 /\ utf8_header_table(32) = 0
    BY SMT DEF utf8_header_table
  <2>5. utf8_continuation_table(ch) # 0 /\ utf8_continuation_table(32) # 0
    BY SMT DEF utf8_continuation_table
  <2> QED BY <2>1, <2>2, <2>3, <2>4, <2>5
<1> HIDE DEF class
<1>4. CASE p.utf8_multibyte_left > 0
  <2>1. c = Fail(p, "UTF8") /\ d = Fail(t, "UTF8")
    BY <1>2, <1>3, <1>4 DEF json_parser_char
  <2>2. c.ret # "SUCCESS" /\ c.state = s
    BY <1>2, <2>1, FailSame
  <2>3. Neutral(c, d)
    BY <1>1, <2>1, AlikeNeutral
  <2> QED BY <2>2, <2>3 DEF StaysNeutral
<1>5. CASE ~ (p.utf8_multibyte_left > 0)
  <2>1. c = Moved(u, ch, class) /\ d = Moved(v, 32, "SPACE")
    BY <1>2, <1>3, <1>5 DEF json_parser_char, Awaiting, class
  <2>2. /\ Twins(u, v) \/ Pending(u, v)
        /\ HasFields(u) /\ u.state = s /\ u.ret = "SUCCESS" /\ u.stack = p.stack
        /\ u.expecting_key = p.expecting_key /\ u.config = p.config
        /\ u.calls = p.calls
        /\ HasFields(v) /\ v.state = s /\ v.ret = "SUCCESS"
        /\ Before(t, v)
    BY <1>1, <1>2, <1>5, AwaitingAlike, AwaitingForm DEF Before
  <2>3. Alike(do_buffer(u), do_buffer(v))
    <3>1. Twins(u, v) => Alike(do_buffer(u), do_buffer(v))
      BY BufferAlike DEF Twins, Alike
    <3> QED BY <2>2, <3>1 DEF Pending
  <2>4. do_buffer(u).calls = do_buffer(v).calls
    BY <2>3 DEF Alike
  <2> HIDE DEF u, v
  <2>5. s \in Commentable \cup {"X3"} =>
            /\ HasFields(d) /\ d.ret = "SUCCESS" /\ d.type = t.type
            /\ d.calls = t.calls /\ d.buffer = t.buffer
            /\ d.stack = p.stack /\ d.expecting_key = p.expecting_key
    BY <1>2, <1>5, SpaceRead
  <2>6. s \in Commentable \cup {"X3"} => do_buffer(d).calls = do_buffer(v).calls
    <3>1. v.type = t.type /\ v.calls = t.calls /\ v.buffer = t.buffer
      BY <2>2 DEF Before
    <3> HIDE DEF d
    <3> QED BY <1>2, <2>2, <2>5, <3>1, BufferForm
  <2>7. CASE n # "__"
    <3>1. n \in {"CB", "YB"} /\ s \in Commentable
      <4>1. PICK m \in Table : m[1] = s /\ class \in m[2] /\ m[3] = n
        BY <2>7, TableLookup
      <4>2. n \in {"CB", "YB"}
        BY <1>3, <4>1, FirstMoves
      <4> QED BY <4>1, <4>2, CommentMoves
    <3>2. Kept(u, ch, class) = u
      BY <2>2, <3>1, CommentStarts
    <3>3. n \in Actions
      BY <3>1 DEF Actions
    <3>4. c = do_action(u, n)
      BY <2>1, <2>2, <2>7, <3>2, <3>3 DEF Moved, IS_STATE_ACTION
    <3> HIDE DEF c, d, n
    <3>5. IF c.ret = "SUCCESS" THEN c.state \in CommentStates /\ Suspended(c, t)
          ELSE /\ c.state \notin CommentStates
               /\ c = Fail(do_buffer(u), "COMMENT_NOT_ALLOWED")
               /\ ~ (u.config.allow_c_comments /\ u.config.allow_yaml_comments)
      BY <2>2, <2>3, <3>1, <3>4, StartComment DEF Before
    <3>6. CASE c.ret = "SUCCESS"
      BY <3>5, <3>6 DEF StaysNeutral, c, d
    <3>7. CASE c.ret # "SUCCESS"
      <4> DEFINE b == do_buffer(u)
      <4>1. /\ HasFields(b) /\ b.stack = u.stack /\ b.config = u.config
            /\ b.expecting_key = u.expecting_key
        BY <2>2, BufferForm
      <4>2. b.calls = do_buffer(d).calls
        BY <2>4, <2>6, <3>1
      <4>3. c = Fail(b, "COMMENT_NOT_ALLOWED")
        BY <3>5, <3>7
      <4> HIDE DEF b
      <4>4. /\ c.ret = "COMMENT_NOT_ALLOWED" /\ c.stack = b.stack
            /\ c.calls = b.calls /\ c.config = b.config
            /\ c.expecting_key = b.expecting_key
        BY <4>1, <4>3 DEF Fail, HasFields, Fields
      <4>5. CommentRefused(c)
        BY <3>5, <3>7, <4>1, <4>4 DEF CommentRefused
      <4>6. Neutral(c, d)
        BY <2>2, <2>5, <3>1, <4>1, <4>2, <4>4, <4>5 DEF Neutral
      <4> QED BY <3>5, <3>7, <4>6 DEF StaysNeutral, c, d
    <3> QED BY <3>6, <3>7
  <2>8. CASE n = "__"
    <3>1. c = Fail(u, "UNEXPECTED_CHAR")
      BY <2>1, <2>2, <2>8 DEF Moved
    <3>2. /\ c.ret = "UNEXPECTED_CHAR" /\ c.state = s /\ c.stack = p.stack
          /\ c.calls = p.calls /\ c.expecting_key = p.expecting_key
      BY <2>2, <3>1 DEF Fail, HasFields, Fields
    <3>3. s \notin Commentable
      BY <1>3, <2>8, FirstFound
    <3>4. CASE s = "X3"
      <4>1. Twins(p, t)
        BY <1>1, <3>4 DEF Pending
      <4>2. p.calls = t.calls
        BY <4>1 DEF Twins, Alike
      <4>3. CommentRefused(c)
        BY <3>2, <3>4 DEF CommentRefused
      <4> HIDE DEF c, d
      <4>4. Neutral(c, d)
        BY <2>5, <3>2, <3>4, <4>2, <4>3 DEF Neutral
      <4> QED BY <3>2, <4>4 DEF StaysNeutral, c, d
    <3>5. CASE s # "X3"
      <4>1. state_transition_table(s, "SPACE") = "__"
        <5>1. ASSUME state_transition_table(s, "SPACE") # "__" PROVE FALSE
          <6>1. PICK m \in Table : m[1] = s /\ "SPACE" \in m[2]
            BY <5>1, TableLookup
          <6> QED BY <3>3, <3>5, <6>1, FirstMoves
        <5> QED BY <5>1
      <4>2. d = Fail(v, "UNEXPECTED_CHAR")
        BY <2>1, <2>2, <4>1 DEF Moved
      <4>3. Neutral(c, d)
        BY <2>2, <3>1, <4>2, AlikeNeutral
      <4> QED BY <3>2, <4>3 DEF StaysNeutral
    <3> QED BY <3>4, <3>5
  <2> QED BY <2>7, <2>8
<1> QED BY <1>4, <1>5

(* A comment is no more than a space, or is refused: because its kind is   *)
(* not allowed or because it stands right after an exponent (json.c 963-   *)
(* 965, 974, 996, 1961-1979).                                              *)
THEOREM CommentsAreNeutral == FileSpec => []CommentsNeutral
<1> DEFINE Inv == /\ NestInv(twin) /\ Emptied(twin)
                  /\ CommentInv(parser, twin)
<1>1. ASSUME FileInit PROVE Inv
  <2>1. PICK config \in Configs : parser = json_parser_init(config)
    BY <1>1 DEF FileInit
  <2>2. twin = parser /\ NestInv(parser)
    BY <1>1, <2>1, InitNest DEF FileInit
  <2>3. /\ HasFields(parser) /\ parser.state = "GO" /\ parser.buffer = <<>>
    BY <2>1 DEF json_parser_init, HasFields, Fields
  <2>4. Emptied(twin)
    BY <2>2, <2>3 DEF Emptied
  <2>5. Twins(parser, twin)
    BY <2>2, <2>3 DEF Twins, Alike
  <2>6. parser.state \notin CommentStates
    BY <2>3 DEF CommentStates
  <2> QED BY <2>2, <2>4, <2>5, <2>6, AlikeNeutral DEF CommentInv
<1>2. ASSUME Inv, [FileNext]_filevars PROVE Inv'
  <2>1. CASE Write
    BY <1>2, <2>1 DEF Write
  <2>2. CASE PrintEvent
    BY <1>2, <2>2 DEF PrintEvent
  <2>3. CASE Read
    <3> DEFINE first == Head(unread)
               begins == first \in {35, 47} /\ parser.state \notin StringStates
               ch == IF parser.state \in CommentStates \/ begins THEN 32 ELSE first
               c == parser'
               d == json_parser_char(twin, ch)
    <3>1. /\ parser.ret = "SUCCESS"
          /\ c = json_parser_char(parser, first)
          /\ twin' = IF c.state \in CommentStates THEN twin ELSE d
      BY <2>3, Zenon DEF Read, Reading, InComment, BeginsComment, InString,
                         CommentStates, StringStates
    <3>2. twin.ret = "SUCCESS"
      <4>1. CASE parser.state \in CommentStates
        BY <1>2, <3>1, <4>1, BufferForm DEF CommentInv, Suspended
      <4>2. CASE parser.state \notin CommentStates
        BY <1>2, <3>1, <4>2 DEF CommentInv, Neutral, CommentRefused
      <4> QED BY <4>1, <4>2
    <3>3. NestInv(d) /\ Emptied(d)
      BY <1>2, <3>2, CharNest, CharEmptied
    <3>4. StaysNeutral(c, d, twin)
      <4>1. CASE parser.state \in CommentStates
        BY <1>2, <3>1, <4>1, InsideChar
      <4>2. CASE parser.state \notin CommentStates /\ begins
        BY <1>2, <3>1, <4>2, BeginningChar
      <4>3. CASE parser.state \notin CommentStates /\ ~ begins
        BY <1>2, <3>1, <4>3, OutsideChar
      <4> QED BY <4>1, <4>2, <4>3
    <3> HIDE DEF d
    <3>5. CASE c.state \in CommentStates
      <4>1. twin' = twin
        BY <3>1, <3>5
      <4>2. CommentInv(c, twin)
        BY <3>4, <3>5 DEF StaysNeutral, CommentInv
      <4> QED BY <1>2, <4>1, <4>2
    <3>6. CASE c.state \notin CommentStates
      <4>1. twin' = d
        BY <3>1, <3>6
      <4>2. CommentInv(c, d)
        BY <3>4, <3>6 DEF StaysNeutral, CommentInv
      <4> QED BY <3>3, <4>1, <4>2
    <3> QED BY <3>5, <3>6
  <2>4. CASE UNCHANGED filevars
    BY <1>2, <2>4 DEF filevars
  <2> QED BY <1>2, <2>1, <2>2, <2>3, <2>4 DEF FileNext
<1>3. Inv => CommentsNeutral
  BY DEF CommentInv, Neutral, CommentsNeutral, InComment, CommentStates
<1> HIDE DEF Inv
<1> QED BY <1>1, <1>2, <1>3, PTL DEF FileSpec

-----------------------------------------------------------------------------
(* The bytes of characters *)

LeftSteps(f, s) ==
    /\ f \in [0..Len(s) -> Nat]
    /\ f[0] = 0
    /\ \A n \in 1..Len(s) : f[n] = LeftAfter(f[n - 1], s[n])

(* What is left of a character is a number.                                *)
LEMMA LeftNat ==
    ASSUME NEW left \in Nat, NEW c
    PROVE  LeftAfter(left, c) \in Nat
<1>1. utf8_header_table(c) \in Nat
  BY DEF utf8_header_table
<1> QED BY <1>1 DEF LeftAfter

(* The recursion that Left is defined by has a solution.                   *)
LEMMA LeftExists ==
    ASSUME NEW s, IsSeq(s)
    PROVE  \E f : LeftSteps(f, s) /\ Left(s) = f[Len(s)]
<1> DEFINE N == Len(s)
           step == [p \in Nat \X Nat |-> LeftAfter(p[2], s[p[1] + 1])]
           Rule(h) == [n \in 0..N |-> IF n = 0 THEN 0 ELSE LeftAfter(h[n - 1], s[n])]
           left == CHOOSE h : h = Rule(h)
<1>0. N \in Nat
  BY LenNat
<1>1. step \in [Nat \X Nat -> Nat]
  BY LeftNat
<1>2. PICK g \in [Nat -> Nat] : Recurs(g, 0, step)
  <2> HIDE DEF step
  <2> QED BY <1>1, Recursion
<1>3. g[0] = 0 /\ \A n \in Nat : g[n + 1] = step[<<n, g[n]>>]
  <2> HIDE DEF step
  <2> QED BY <1>2 DEF Recurs
<1>4. ASSUME NEW n \in Nat
      PROVE  g[n + 1] = LeftAfter(g[n], s[n + 1])
  <2>1. <<n, g[n]>> \in Nat \X Nat
    BY <1>2
  <2>2. step[<<n, g[n]>>] = LeftAfter(g[n], s[n + 1])
    BY <2>1
  <2> QED BY <1>3, <2>2
<1> HIDE DEF step
<1> DEFINE f == [n \in 0..N |-> g[n]]
<1>5. ASSUME NEW n \in 0..N
      PROVE  f[n] = IF n = 0 THEN 0 ELSE LeftAfter(f[n - 1], s[n])
  <2>1. CASE n = 0
    BY <1>3, <2>1
  <2>2. CASE n # 0
    <3>1. n - 1 \in Nat /\ n - 1 \in 0..N /\ (n - 1) + 1 = n
      BY <1>0, <2>2
    <3>2. f[n] = g[n] /\ f[n - 1] = g[n - 1]
      BY <3>1
    <3>3. g[n] = LeftAfter(g[n - 1], s[n])
      <4>1. g[(n - 1) + 1] = LeftAfter(g[n - 1], s[(n - 1) + 1])
        BY <1>4, <3>1
      <4> QED BY <3>1, <4>1
    <3> HIDE DEF f
    <3> QED BY <2>2, <3>2, <3>3
  <2> QED BY <2>1, <2>2
<1>6. f = Rule(f)
  <2>1. f = [n \in 0..N |-> f[n]]
    OBVIOUS
  <2> HIDE DEF f
  <2> QED BY <1>5, <2>1
<1>7. left = Rule(left)
  <2>1. \E h : h = Rule(h)
    <3> HIDE DEF f, Rule
    <3> QED BY <1>6
  <2> HIDE DEF Rule
  <2> QED BY <2>1, Zenon
<1>8. Left(s) = left[N]
  BY Zenon DEF Left
<1> HIDE DEF left
<1>9. /\ left = [n \in 0..N |-> left[n]]
      /\ \A n \in 0..N : left[n] = IF n = 0 THEN 0 ELSE LeftAfter(left[n - 1], s[n])
  <2>1. left = [n \in 0..N |-> left[n]]
    BY <1>7
  <2>2. ASSUME NEW n \in 0..N
        PROVE  left[n] = IF n = 0 THEN 0 ELSE LeftAfter(left[n - 1], s[n])
    BY <1>7
  <2> QED BY <2>1, <2>2
<1>10. left[0] = 0
  <2>1. 0 \in 0..N
    BY <1>0
  <2> QED BY <1>9, <2>1
<1>11. ASSUME NEW n \in 1..N PROVE left[n] = LeftAfter(left[n - 1], s[n])
  <2>1. n \in 0..N /\ n # 0
    BY <1>0
  <2> QED BY <1>9, <2>1
<1> DEFINE P == {n \in Nat : n <= N => left[n] \in Nat}
<1>12. 0 \in P
  BY <1>10
<1>13. ASSUME NEW n \in Nat, n \in P PROVE n + 1 \in P
  <2> SUFFICES ASSUME n + 1 <= N PROVE left[n + 1] \in Nat
    OBVIOUS
  <2>1. n + 1 \in 1..N /\ (n + 1) - 1 = n /\ left[n] \in Nat
    BY <1>0, <1>13
  <2>2. left[n + 1] = LeftAfter(left[n], s[n + 1])
    BY <1>11, <2>1
  <2> QED BY <2>1, <2>2, LeftNat
<1>14. \A n \in Nat : n \in P
  <2> HIDE DEF P
  <2> QED BY <1>12, <1>13, Induction
<1>15. left \in [0..N -> Nat]
  <2>1. \A n \in 0..N : left[n] \in Nat
    BY <1>0, <1>14
  <2> QED BY <1>9, <2>1
<1>16. LeftSteps(left, s)
  BY <1>10, <1>11, <1>15 DEF LeftSteps
<1> QED BY <1>8, <1>16

(* It has no other.                                                        *)
LEMMA LeftUnique ==
    ASSUME NEW s, IsSeq(s), NEW more, IsSeq(more), Len(s) <= Len(more),
           \A n \in 1..Len(s) : more[n] = s[n],
           NEW f, LeftSteps(f, s), NEW g, LeftSteps(g, more)
    PROVE  f[Len(s)] = g[Len(s)]
<1> DEFINE N == Len(s)
           P == {n \in Nat : n <= N => f[n] = g[n]}
<1>0. N \in Nat /\ Len(more) \in Nat
  BY LenNat
<1>1. 0 \in P
  BY DEF LeftSteps
<1>2. ASSUME NEW n \in Nat, n \in P PROVE n + 1 \in P
  <2> SUFFICES ASSUME n + 1 <= N PROVE f[n + 1] = g[n + 1]
    OBVIOUS
  <2>1. n + 1 \in 1..N /\ n + 1 \in 1..Len(more) /\ (n + 1) - 1 = n /\ f[n] = g[n]
    BY <1>0, <1>2
  <2>2. f[n + 1] = LeftAfter(f[n], s[n + 1])
    BY <2>1 DEF LeftSteps
  <2>3. g[n + 1] = LeftAfter(g[n], more[n + 1])
    BY <2>1 DEF LeftSteps
  <2> QED BY <2>1, <2>2, <2>3
<1>3. \A n \in Nat : n \in P
  <2> HIDE DEF P
  <2> QED BY <1>1, <1>2, Induction
<1> QED BY <1>0, <1>3

(* Nothing is left of no character.                                        *)
LEMMA LeftNone == Left(<<>>) = 0
<1>1. IsSeq(<<>>) /\ Len(<<>>) = 0
  BY NoElements
<1>2. PICK f : LeftSteps(f, <<>>) /\ Left(<<>>) = f[Len(<<>>)]
  BY <1>1, LeftExists
<1> QED BY <1>1, <1>2 DEF LeftSteps

(* One more byte.                                                          *)
LEMMA LeftAppend ==
    ASSUME NEW s, IsSeq(s), NEW c
    PROVE  Left(s) \in Nat /\ Left(Append(s, c)) = LeftAfter(Left(s), c)
<1> DEFINE more == Append(s, c)
           N    == Len(s)
<1>1. PICK S : s \in Seq(S)
  BY DEF IsSeq
<1>2. /\ N \in Nat /\ IsSeq(more) /\ Len(more) = N + 1
      /\ more[N + 1] = c
      /\ \A n \in 1..N : more[n] = s[n]
  BY <1>1, AppendSeq, LenNat
<1> HIDE DEF more
<1>3. PICK f : LeftSteps(f, s) /\ Left(s) = f[N]
  BY LeftExists
<1>4. PICK g : LeftSteps(g, more) /\ Left(more) = g[Len(more)]
  BY <1>2, LeftExists
<1>5. f[N] = g[N]
  BY <1>2, <1>3, <1>4, LeftUnique
<1>6. g[N + 1] = LeftAfter(g[N], c)
  <2>1. N + 1 \in 1..Len(more) /\ (N + 1) - 1 = N
    BY <1>2
  <2>2. g[N + 1] = LeftAfter(g[(N + 1) - 1], more[N + 1])
    BY <1>4, <2>1 DEF LeftSteps
  <2> QED BY <1>2, <2>1, <2>2
<1>7. f[N] \in Nat
  BY <1>2, <1>3 DEF LeftSteps
<1> QED BY <1>2, <1>3, <1>4, <1>5, <1>6, <1>7 DEF more

(* Bytes of ASCII are characters of one byte, and end no other.            *)
LEMMA LeftAscii ==
    ASSUME NEW left \in Nat, NEW c \in 0..127
    PROVE  LeftAfter(left, c) = 0 <=> left = 0
<1>1. utf8_header_table(c) = 0
  BY DEF utf8_header_table
<1>2. utf8_continuation_table(c) # 0
  BY DEF utf8_continuation_table
<1> QED BY <1>1, <1>2 DEF LeftAfter

(* What the first byte of a character tells, and any other.                *)
LEMMA LeftHeader ==
    /\ \A c \in 0..127 : LeftAfter(0, c) = 0
    /\ \A c \in 192..223 : LeftAfter(0, c) = 1
    /\ \A c \in 224..239 : LeftAfter(0, c) = 2
    /\ \A c \in 240..247 : LeftAfter(0, c) = 3
    /\ \A c \in 128..191 : /\ LeftAfter(1, c) = 0
                           /\ LeftAfter(2, c) = 1
                           /\ LeftAfter(3, c) = 2
<1>1. /\ \A c \in 0..127 : utf8_header_table(c) = 0
      /\ \A c \in 192..223 : utf8_header_table(c) = 1
      /\ \A c \in 224..239 : utf8_header_table(c) = 2
      /\ \A c \in 240..247 : utf8_header_table(c) = 3
  BY SMT DEF utf8_header_table
<1>2. \A c \in 128..191 : utf8_continuation_table(c) = 0
  BY SMT DEF utf8_continuation_table
<1> QED BY SMT, <1>1, <1>2 DEF LeftAfter

(* The bytes of a text of which n bytes of a character are still to come.  *)
BytesLeft(s, n) == s \in Seq(0..255) /\ Left(s) = n

(* One byte more or less, and several more.                                *)
LEMMA LastOff ==
    ASSUME NEW S, NEW s \in Seq(S), Len(s) >= 1
    PROVE  LET t == SubSeq(s, 1, Len(s) - 1)
           IN  t \in Seq(S) /\ Len(t) = Len(s) - 1 /\ s = Append(t, s[Len(s)])
<1>1. s = Append(SubSeq(s, 1, Len(s) - 1), s[Len(s)])
  BY SMT
<1>2. SubSeq(s, 1, Len(s) - 1) \in Seq(S)
  BY SMT
<1>3. Len(SubSeq(s, 1, Len(s) - 1)) = Len(s) - 1
  <2>1. Len(s) - 1 \in Nat /\ Len(s) - 1 <= Len(s)
    BY SMT
  <2>2. IsSeq(s)
    BY Member
  <2> QED BY <2>1, <2>2, PrefixSeq
<1> QED BY <1>1, <1>2, <1>3, Zenon

(* What Append does to the bytes. *)
LEMMA Appended ==
    ASSUME NEW S, NEW s \in Seq(S), NEW a \in S, NEW b \in S, NEW c \in S, NEW d \in S
    PROVE  /\ Append(s, a) \in Seq(S)
           /\ s \o <<a>> = Append(s, a)
           /\ s \o <<a, b>> = Append(Append(s, a), b)
           /\ s \o <<a, b, c>> = Append(Append(Append(s, a), b), c)
           /\ s \o <<a, b, c, d>> = Append(Append(Append(Append(s, a), b), c), d)
<1>1. Append(s, a) \in Seq(S)
  OBVIOUS
<1>2. s \o <<a>> = Append(s, a)
  OBVIOUS
<1>3. s \o <<a, b>> = Append(Append(s, a), b)
  OBVIOUS
<1>4. s \o <<a, b, c>> = Append(Append(Append(s, a), b), c)
  OBVIOUS
<1>5. s \o <<a, b, c, d>> = Append(Append(Append(Append(s, a), b), c), d)
  OBVIOUS
<1> QED BY <1>1, <1>2, <1>3, <1>4, <1>5

(* One more byte, with what it leaves.                                     *)
LEMMA BytesAppend ==
    ASSUME NEW s, NEW n, BytesLeft(s, n), NEW c \in 0..255, NEW m, LeftAfter(n, c) = m
    PROVE  BytesLeft(Append(s, c), m)
<1>1. IsSeq(s)
  BY Member DEF BytesLeft
<1>2. Left(Append(s, c)) = LeftAfter(Left(s), c)
  BY <1>1, LeftAppend
<1>3. Append(s, c) \in Seq(0..255)
  BY Appended DEF BytesLeft
<1> QED BY <1>2, <1>3, Zenon DEF BytesLeft

(* Without a byte of ASCII at the end whole characters are still whole.    *)
LEMMA LeftFront ==
    ASSUME NEW s, BytesLeft(s, 0), Len(s) >= 1, s[Len(s)] \in 0..127
    PROVE  LET t == SubSeq(s, 1, Len(s) - 1)
           IN  BytesLeft(t, 0) /\ Len(t) = Len(s) - 1 /\ s = Append(t, s[Len(s)])
<1> DEFINE t == SubSeq(s, 1, Len(s) - 1)
           c == s[Len(s)]
<1>1. t \in Seq(0..255) /\ Len(t) = Len(s) - 1 /\ s = Append(t, c)
  BY LastOff DEF BytesLeft
<1>2. IsSeq(t)
  BY <1>1, Member
<1> HIDE DEF t, c
<1>3. Left(t) \in Nat /\ Left(s) = LeftAfter(Left(t), c)
  BY <1>1, <1>2, LeftAppend
<1>4. Left(s) = 0 /\ c \in 0..127
  BY DEF BytesLeft, c
<1>5. Left(t) = 0
  BY <1>3, <1>4, LeftAscii
<1> QED BY <1>1, <1>5 DEF t, c, BytesLeft

(* Characters of one to four bytes.                                        *)
LEMMA LeftShapes ==
    ASSUME NEW s, BytesLeft(s, 0),
           NEW b \in 128..191, NEW c \in 128..191, NEW d \in 128..191
    PROVE  /\ \A a \in 0..127 : BytesLeft(s \o <<a>>, 0)
           /\ \A a \in 192..223 : BytesLeft(s \o <<a, b>>, 0)
           /\ \A a \in 224..239 : BytesLeft(s \o <<a, b, c>>, 0)
           /\ \A a \in 240..247 : BytesLeft(s \o <<a, b, c, d>>, 0)
<1>1. s \in Seq(0..255)
  BY DEF BytesLeft
<1>2. b \in 0..255 /\ c \in 0..255 /\ d \in 0..255
  OBVIOUS
<1>3. ASSUME NEW a \in 0..127 PROVE BytesLeft(s \o <<a>>, 0)
  <2>1. a \in 0..255
    OBVIOUS
  <2>2. s \o <<a>> = Append(s, a)
    BY <1>1, <2>1, Appended
  <2>3. LeftAfter(0, a) = 0
    BY LeftHeader
  <2>4. BytesLeft(Append(s, a), 0)
    BY <2>1, <2>3, BytesAppend
  <2> QED BY <2>2, <2>4, Zenon
<1>4. ASSUME NEW a \in 192..223 PROVE BytesLeft(s \o <<a, b>>, 0)
  <2>1. a \in 0..255
    OBVIOUS
  <2>2. s \o <<a, b>> = Append(Append(s, a), b)
    BY <1>1, <1>2, <2>1, Appended
  <2>3. LeftAfter(0, a) = 1 /\ LeftAfter(1, b) = 0
    BY LeftHeader
  <2>4. BytesLeft(Append(s, a), 1)
    BY <2>1, <2>3, BytesAppend
  <2>5. BytesLeft(Append(Append(s, a), b), 0)
    BY <1>2, <2>3, <2>4, BytesAppend
  <2> QED BY <2>2, <2>5, Zenon
<1>5. ASSUME NEW a \in 224..239 PROVE BytesLeft(s \o <<a, b, c>>, 0)
  <2>1. a \in 0..255
    OBVIOUS
  <2>2. s \o <<a, b, c>> = Append(Append(Append(s, a), b), c)
    BY <1>1, <1>2, <2>1, Appended
  <2>3. LeftAfter(0, a) = 2 /\ LeftAfter(2, b) = 1 /\ LeftAfter(1, c) = 0
    BY LeftHeader
  <2>4. BytesLeft(Append(s, a), 2)
    BY <2>1, <2>3, BytesAppend
  <2>5. BytesLeft(Append(Append(s, a), b), 1)
    BY <1>2, <2>3, <2>4, BytesAppend
  <2>6. BytesLeft(Append(Append(Append(s, a), b), c), 0)
    BY <1>2, <2>3, <2>5, BytesAppend
  <2> QED BY <2>2, <2>6, Zenon
<1>6. ASSUME NEW a \in 240..247 PROVE BytesLeft(s \o <<a, b, c, d>>, 0)
  <2>1. a \in 0..255
    OBVIOUS
  <2>2. s \o <<a, b, c, d>> = Append(Append(Append(Append(s, a), b), c), d)
    BY <1>1, <1>2, <2>1, Appended
  <2>3. /\ LeftAfter(0, a) = 3 /\ LeftAfter(3, b) = 2 /\ LeftAfter(2, c) = 1
        /\ LeftAfter(1, d) = 0
    BY LeftHeader
  <2>4. BytesLeft(Append(s, a), 3)
    BY <2>1, <2>3, BytesAppend
  <2>5. BytesLeft(Append(Append(s, a), b), 2)
    BY <1>2, <2>3, <2>4, BytesAppend
  <2>6. BytesLeft(Append(Append(Append(s, a), b), c), 1)
    BY <1>2, <2>3, <2>5, BytesAppend
  <2>7. BytesLeft(Append(Append(Append(Append(s, a), b), c), d), 0)
    BY <1>2, <2>3, <2>6, BytesAppend
  <2> QED BY <2>2, <2>7, Zenon
<1> QED BY <1>3, <1>4, <1>5, <1>6

CodePoint(uc) == uc \in Nat /\ uc <= 1114111

LaterBytes == 128..191

(* The bytes of a character (json.c 1862-1912).                            *)
LEMMA CharacterShape ==
    ASSUME NEW uc, CodePoint(uc)
    PROVE  \E b, c, d \in LaterBytes :
              \/ uc \in 0..127 /\ UTF8Bytes(uc) = <<uc>>
              \/ \E a \in 192..223 : UTF8Bytes(uc) = <<a, b>>
              \/ \E a \in 224..239 : UTF8Bytes(uc) = <<a, c, b>>
              \/ \E a \in 240..247 : UTF8Bytes(uc) = <<a, d, c, b>>
<1>0. uc \in Nat /\ uc <= 1114111
  BY SMT DEF CodePoint
<1> DEFINE b == Continuation(uc)
           c == Continuation(uc \div 64)
           d == Continuation(uc \div 4096)
<1>1. \/ uc \in 0..127 /\ UTF8Bytes(uc) = <<uc>>
      \/ \E a \in 192..223 : UTF8Bytes(uc) = <<a, b>>
      \/ \E a \in 224..239 : UTF8Bytes(uc) = <<a, c, b>>
      \/ \E a \in 240..247 : UTF8Bytes(uc) = <<a, d, c, b>>
  <2> HIDE DEF b, c, d
  <2>1. CASE uc < 128
    BY SMT, <1>0, <2>1 DEF UTF8Bytes
  <2>2. CASE ~ (uc < 128) /\ uc < 2048
    <3>1. UTF8Bytes(uc) = <<192 + uc \div 64, b>>
      BY SMT, <1>0, <2>2 DEF UTF8Bytes, b
    <3>2. 192 + uc \div 64 \in 192..223
      BY SMT, <1>0, <2>2
    <3> QED BY SMT, <3>1, <3>2
  <2>3. CASE ~ (uc < 2048) /\ uc < 65536
    <3>1. UTF8Bytes(uc) = <<224 + uc \div 4096, c, b>>
      BY SMT, <1>0, <2>3 DEF UTF8Bytes, b, c
    <3>2. 224 + uc \div 4096 \in 224..239
      BY SMT, <1>0, <2>3
    <3> QED BY SMT, <3>1, <3>2
  <2>4. CASE ~ (uc < 65536)
    <3>1. UTF8Bytes(uc) = <<240 + uc \div 262144, d, c, b>>
      BY SMT, <1>0, <2>4 DEF UTF8Bytes, b, c, d
    <3>2. 240 + uc \div 262144 \in 240..247
      BY SMT, <1>0, <2>4
    <3> QED BY SMT, <3>1, <3>2
  <2> QED BY SMT, <1>0, <2>1, <2>2, <2>3, <2>4
<1>2. b \in LaterBytes /\ c \in LaterBytes /\ d \in LaterBytes
  BY SMT, <1>0 DEF Continuation, LaterBytes
<1> HIDE DEF b, c, d
<1> QED BY <1>1, <1>2, Zenon

(* A character that \uXXXX stands for is whole.                            *)
LEMMA LeftCharacter ==
    ASSUME NEW s, BytesLeft(s, 0), NEW uc, CodePoint(uc)
    PROVE  BytesLeft(s \o UTF8Bytes(uc), 0)
<1> DEFINE OkText(t) == BytesLeft(s \o t, 0)
<1>1. PICK b, c, d \in LaterBytes :
         \/ uc \in 0..127 /\ UTF8Bytes(uc) = <<uc>>
         \/ \E a \in 192..223 : UTF8Bytes(uc) = <<a, b>>
         \/ \E a \in 224..239 : UTF8Bytes(uc) = <<a, c, b>>
         \/ \E a \in 240..247 : UTF8Bytes(uc) = <<a, d, c, b>>
  BY CharacterShape
<1>2. ASSUME NEW e \in LaterBytes, NEW f \in LaterBytes, NEW g \in LaterBytes
      PROVE  /\ \A a \in 0..127 : OkText(<<a>>)
             /\ \A a \in 192..223 : OkText(<<a, e>>)
             /\ \A a \in 224..239 : OkText(<<a, e, f>>)
             /\ \A a \in 240..247 : OkText(<<a, e, f, g>>)
  BY LeftShapes DEF LaterBytes
<1> HIDE DEF OkText
<1>3. \A a \in 0..127 : OkText(<<a>>)
  BY <1>2
<1>4. \A a \in 192..223 : OkText(<<a, b>>)
  BY <1>2
<1>5. \A a \in 224..239 : OkText(<<a, c, b>>)
  BY <1>2
<1>6. \A a \in 240..247 : OkText(<<a, d, c, b>>)
  BY <1>2
<1>7. OkText(UTF8Bytes(uc))
  BY <1>1, <1>3, <1>4, <1>5, <1>6, Zenon
<1> QED BY <1>7 DEF OkText

-----------------------------------------------------------------------------
(* The forms of numbers *)

DigitsIn(s, a, b) == \A j \in a..b : s[j] \in 48..57

(* Where the digits of a number begin. *)
FirstDigit(s) == IF s[1] = 45 THEN 2 ELSE 1

(* The first n bytes are an integer. *)
IntUpTo(s, n) ==
    /\ FirstDigit(s) <= n
    /\ DigitsIn(s, FirstDigit(s), n)
    /\ s[FirstDigit(s)] = 48 => n = FirstDigit(s)

(* The first n bytes are an integer, or one with a fraction from i on. *)
RealUpTo(s, i, n) ==
    /\ i \in Nat /\ 1 <= i /\ i <= n + 1
    /\ IntUpTo(s, i - 1)
    /\ i # n + 1 => i < n /\ s[i] = 46 /\ DigitsIn(s, i + 1, n)

FirstExponent(s, k) == IF s[k + 1] \in {43, 45} THEN k + 2 ELSE k + 1

(* From k to n there is an exponent. *)
ExponentAt(s, k, n) ==
    /\ s[k] \in {69, 101}
    /\ FirstExponent(s, k) <= n
    /\ DigitsIn(s, FirstExponent(s, k), n)

(* What the n bytes read so far are in a state. *)
NumberForm(state, s, n) ==
    CASE state = "M0" -> n = 1 /\ s[1] = 45
      [] state = "Z0" -> IntUpTo(s, n)
      [] state = "I0" -> IntUpTo(s, n) /\ s[FirstDigit(s)] # 48
      [] state = "R1" -> n >= 1 /\ IntUpTo(s, n - 1) /\ s[n] = 46
      [] state = "R2" -> \E i \in 1..n : RealUpTo(s, i, n)
      [] state = "X1" -> n >= 1 /\ s[n] \in {69, 101}
                         /\ \E i \in 1..n : RealUpTo(s, i, n - 1)
      [] state = "X2" -> n >= 2 /\ s[n] \in {43, 45} /\ s[n - 1] \in {69, 101}
                         /\ \E i \in 1..n : RealUpTo(s, i, n - 2)
      [] state = "X3" -> \E i \in 1..n, k \in 1..n :
                             RealUpTo(s, i, k - 1) /\ ExponentAt(s, k, n)

(* t is s, of n bytes, with c after it. *)
Longer(s, t, n, c) ==
    /\ n \in Nat
    /\ t[n + 1] = c
    /\ \A j \in 1..n : t[j] = s[j]

(* A part of a number stays one when bytes follow it.                      *)
LEMMA IntStays ==
    ASSUME NEW s, NEW t, NEW n, NEW c, Longer(s, t, n, c),
           NEW m \in Nat, m <= n, IntUpTo(s, m)
    PROVE  IntUpTo(t, m) /\ FirstDigit(t) = FirstDigit(s)
<1>1. FirstDigit(s) \in {1, 2}
  BY DEF FirstDigit
<1>2. n \in Nat /\ 1 \in 1..n /\ FirstDigit(s) \in 1..n
  BY <1>1 DEF Longer, IntUpTo
<1>3. t[1] = s[1] /\ t[FirstDigit(s)] = s[FirstDigit(s)]
  BY <1>2 DEF Longer
<1>4. FirstDigit(t) = FirstDigit(s)
  BY <1>3 DEF FirstDigit
<1>5. DigitsIn(t, FirstDigit(s), m)
  <2> SUFFICES ASSUME NEW j \in FirstDigit(s)..m PROVE t[j] \in 48..57
    BY DEF DigitsIn
  <2>1. j \in 1..n
    BY <1>1, <1>2
  <2>2. t[j] = s[j] /\ s[j] \in 48..57
    BY <2>1 DEF Longer, IntUpTo, DigitsIn
  <2> QED BY <2>2
<1> QED BY <1>3, <1>4, <1>5 DEF IntUpTo

(* So does a part with a fraction. *)
LEMMA RealStays ==
    ASSUME NEW s, NEW t, NEW n, NEW c, Longer(s, t, n, c),
           NEW m \in Nat, m <= n, NEW i, RealUpTo(s, i, m)
    PROVE  RealUpTo(t, i, m)
<1>1. i \in Nat /\ 1 <= i /\ i <= m + 1 /\ n \in Nat /\ i - 1 \in Nat /\ i - 1 <= n
  BY DEF RealUpTo, Longer
<1>2. IntUpTo(t, i - 1)
  BY <1>1, IntStays DEF RealUpTo
<1>3. ASSUME i # m + 1 PROVE i < m /\ t[i] = 46 /\ DigitsIn(t, i + 1, m)
  <2>1. i < m /\ s[i] = 46 /\ DigitsIn(s, i + 1, m)
    BY <1>3 DEF RealUpTo
  <2>2. t[i] = 46
    <3>1. i \in 1..n
      BY <1>1, <2>1
    <3> QED BY <2>1, <3>1 DEF Longer
  <2>3. ASSUME NEW j \in (i + 1)..m PROVE t[j] \in 48..57
    <3>1. j \in 1..n
      BY <1>1
    <3>2. t[j] = s[j] /\ s[j] \in 48..57
      BY <2>1, <3>1 DEF Longer, DigitsIn
    <3> QED BY <3>2
  <2> QED BY <2>1, <2>2, <2>3 DEF DigitsIn
<1> QED BY <1>1, <1>2, <1>3 DEF RealUpTo

(* A number begins with a sign or a digit.                                 *)
LEMMA NumberBegins ==
    ASSUME NEW s, NEW c, s[1] = c
    PROVE  /\ c = 45 => NumberForm("M0", s, 1)
           /\ c = 48 => NumberForm("Z0", s, 1)
           /\ c \in 49..57 => NumberForm("I0", s, 1)
BY DEF NumberForm, IntUpTo, FirstDigit, DigitsIn

(* One more byte of a number (json.c 257-1559).                            *)
LEMMA DigitAfterSign ==
    ASSUME NEW s, NEW t, NEW n, NEW c, Longer(s, t, n, c), NumberForm("M0", s, n)
    PROVE  /\ c = 48 => NumberForm("Z0", t, n + 1)
           /\ c \in 49..57 => NumberForm("I0", t, n + 1)
<1>1. n = 1 /\ s[1] = 45
  BY DEF NumberForm
<1>2. t[1] = 45 /\ t[2] = c
  BY <1>1 DEF Longer
<1>3. FirstDigit(t) = 2
  BY <1>2 DEF FirstDigit
<1>4. c \in 48..57 => DigitsIn(t, 2, 2)
  BY <1>2 DEF DigitsIn
<1> QED BY <1>1, <1>2, <1>3, <1>4 DEF NumberForm, IntUpTo

(* A digit goes on with an integer. *)
LEMMA DigitInInteger ==
    ASSUME NEW s, NEW t, NEW n, NEW c \in 48..57, Longer(s, t, n, c),
           NumberForm("I0", s, n)
    PROVE  NumberForm("I0", t, n + 1)
<1>1. IntUpTo(s, n) /\ s[FirstDigit(s)] # 48 /\ n \in Nat /\ t[n + 1] = c
  BY DEF NumberForm, Longer
<1>2. IntUpTo(t, n) /\ FirstDigit(t) = FirstDigit(s)
  BY <1>1, IntStays
<1>3. FirstDigit(t) \in {1, 2}
  BY DEF FirstDigit
<1>4. FirstDigit(t) <= n /\ FirstDigit(t) <= n + 1
  BY <1>1, <1>2, <1>3 DEF IntUpTo
<1>5. t[FirstDigit(t)] # 48
  <2>1. FirstDigit(s) \in 1..n
    BY <1>1, <1>2, <1>3, <1>4
  <2> QED BY <1>1, <1>2, <2>1 DEF Longer
<1>6. DigitsIn(t, FirstDigit(t), n + 1)
  <2> SUFFICES ASSUME NEW j \in FirstDigit(t)..(n + 1) PROVE t[j] \in 48..57
    BY DEF DigitsIn
  <2>1. j = n + 1 \/ j \in FirstDigit(t)..n
    BY <1>1, <1>3
  <2> QED BY <1>1, <1>2, <2>1 DEF IntUpTo, DigitsIn
<1> QED BY <1>4, <1>5, <1>6 DEF NumberForm, IntUpTo

(* A point begins a fraction. *)
LEMMA PointAfterInteger ==
    ASSUME NEW s, NEW t, NEW n, Longer(s, t, n, 46), NEW state \in {"Z0", "I0"},
           NumberForm(state, s, n)
    PROVE  NumberForm("R1", t, n + 1)
<1>1. IntUpTo(s, n) /\ n \in Nat /\ t[n + 1] = 46
  BY DEF NumberForm, Longer
<1>2. IntUpTo(t, n) /\ (n + 1) - 1 = n /\ n + 1 >= 1
  BY <1>1, IntStays
<1> QED BY <1>1, <1>2 DEF NumberForm

(* A digit goes on with a fraction. *)
LEMMA DigitInFraction ==
    ASSUME NEW s, NEW t, NEW n, NEW c \in 48..57, Longer(s, t, n, c),
           NEW state \in {"R1", "R2"}, NumberForm(state, s, n)
    PROVE  NumberForm("R2", t, n + 1)
<1>0. n \in Nat /\ t[n + 1] = c
  BY DEF Longer
<1>1. CASE state = "R1"
  <2>1. n >= 1 /\ IntUpTo(s, n - 1) /\ s[n] = 46
    BY <1>1 DEF NumberForm
  <2>2. IntUpTo(t, n - 1)
    BY <1>0, <2>1, IntStays
  <2>3. t[n] = 46
    BY <1>0, <2>1 DEF Longer
  <2>4. DigitsIn(t, n + 1, n + 1)
    BY <1>0 DEF DigitsIn
  <2>5. RealUpTo(t, n, n + 1) /\ n \in 1..(n + 1)
    BY <1>0, <2>1, <2>2, <2>3, <2>4 DEF RealUpTo
  <2> QED BY <2>5 DEF NumberForm
<1>2. CASE state = "R2"
  <2>1. PICK i \in 1..n : RealUpTo(s, i, n)
    BY <1>2 DEF NumberForm
  <2>2. RealUpTo(t, i, n)
    BY <1>0, <2>1, RealStays
  <2>3. i # n + 1 /\ i \in 1..(n + 1)
    BY <1>0
  <2>4. i < n /\ t[i] = 46 /\ DigitsIn(t, i + 1, n) /\ i \in Nat /\ IntUpTo(t, i - 1)
    BY <2>2, <2>3 DEF RealUpTo
  <2>5. ASSUME NEW j \in (i + 1)..(n + 1) PROVE t[j] \in 48..57
    <3>1. j = n + 1 \/ j \in (i + 1)..n
      BY <1>0
    <3> QED BY <1>0, <2>4, <3>1 DEF DigitsIn
  <2>6. RealUpTo(t, i, n + 1)
    BY <1>0, <2>4, <2>5 DEF RealUpTo, DigitsIn
  <2> QED BY <2>3, <2>6 DEF NumberForm
<1> QED BY <1>1, <1>2

(* An e begins an exponent. *)
LEMMA ExponentBegins ==
    ASSUME NEW s, NEW t, NEW n, NEW c \in {69, 101}, Longer(s, t, n, c),
           NEW state \in {"I0", "R2"}, NumberForm(state, s, n)
    PROVE  NumberForm("X1", t, n + 1)
<1>0. n \in Nat /\ t[n + 1] = c /\ (n + 1) - 1 = n /\ n <= n
  BY DEF Longer
<1>1. \E i \in 1..(n + 1) : RealUpTo(s, i, n)
  <2>1. CASE state = "I0"
    <3>1. IntUpTo(s, n)
      BY <2>1 DEF NumberForm
    <3>2. RealUpTo(s, n + 1, n)
      BY <1>0, <3>1 DEF RealUpTo
    <3>3. n + 1 \in 1..(n + 1)
      BY <1>0
    <3> QED BY <3>2, <3>3
  <2>2. CASE state = "R2"
    <3>1. PICK i \in 1..n : RealUpTo(s, i, n)
      BY <2>2 DEF NumberForm
    <3>2. i \in 1..(n + 1)
      BY <1>0
    <3> QED BY <3>1, <3>2
  <2> QED BY <2>1, <2>2
<1>2. PICK i \in 1..(n + 1) : RealUpTo(s, i, n)
  BY <1>1
<1>3. RealUpTo(t, i, n)
  BY <1>0, <1>2, RealStays
<1> QED BY <1>0, <1>3 DEF NumberForm

(* The exponent may have a sign. *)
LEMMA ExponentSign ==
    ASSUME NEW s, NEW t, NEW n, NEW c \in {43, 45}, Longer(s, t, n, c),
           NumberForm("X1", s, n)
    PROVE  NumberForm("X2", t, n + 1)
<1>0. n \in Nat /\ t[n + 1] = c /\ n >= 1 /\ s[n] \in {69, 101}
  BY DEF Longer, NumberForm
<1>1. PICK i \in 1..n : RealUpTo(s, i, n - 1)
  BY DEF NumberForm
<1>2. n - 1 \in Nat /\ n - 1 <= n /\ (n + 1) - 2 = n - 1 /\ (n + 1) - 1 = n
      /\ i \in 1..(n + 1) /\ n + 1 >= 2 /\ n \in 1..n
  BY <1>0
<1>3. RealUpTo(t, i, n - 1)
  BY <1>1, <1>2, RealStays
<1>4. t[n] = s[n]
  BY <1>2 DEF Longer
<1> QED BY <1>0, <1>2, <1>3, <1>4 DEF NumberForm

(* A digit goes on with an exponent. *)
LEMMA DigitInExponent ==
    ASSUME NEW s, NEW t, NEW n, NEW c \in 48..57, Longer(s, t, n, c),
           NEW state \in {"X1", "X2", "X3"}, NumberForm(state, s, n)
    PROVE  NumberForm("X3", t, n + 1)
<1>0. n \in Nat /\ t[n + 1] = c
  BY DEF Longer
<1>1. CASE state = "X1"
  <2>1. n >= 1 /\ s[n] \in {69, 101}
    BY <1>1 DEF NumberForm
  <2>2. PICK i \in 1..n : RealUpTo(s, i, n - 1)
    BY <1>1 DEF NumberForm
  <2>3. RealUpTo(t, i, n - 1)
    BY <1>0, <2>1, <2>2, RealStays
  <2>4. t[n] = s[n] /\ n \in 1..(n + 1) /\ i \in 1..(n + 1)
    BY <1>0, <2>1 DEF Longer
  <2>5. FirstExponent(t, n) = n + 1
    BY <1>0 DEF FirstExponent
  <2>6. DigitsIn(t, n + 1, n + 1)
    BY <1>0 DEF DigitsIn
  <2>7. ExponentAt(t, n, n + 1)
    BY <1>0, <2>1, <2>4, <2>5, <2>6 DEF ExponentAt
  <2> QED BY <2>3, <2>4, <2>7 DEF NumberForm
<1>2. CASE state = "X2"
  <2>1. n >= 2 /\ s[n] \in {43, 45} /\ s[n - 1] \in {69, 101}
    BY <1>2 DEF NumberForm
  <2>2. PICK i \in 1..n : RealUpTo(s, i, n - 2)
    BY <1>2 DEF NumberForm
  <2>3. RealUpTo(t, i, n - 2)
    BY <1>0, <2>1, <2>2, RealStays
  <2>4. /\ t[n] = s[n] /\ t[n - 1] = s[n - 1]
        /\ n - 1 \in 1..(n + 1) /\ i \in 1..(n + 1)
        /\ (n - 1) - 1 = n - 2 /\ (n - 1) + 1 = n /\ (n - 1) + 2 = n + 1
    BY <1>0, <2>1 DEF Longer
  <2>5. FirstExponent(t, n - 1) = n + 1
    BY <2>1, <2>4 DEF FirstExponent
  <2>6. DigitsIn(t, n + 1, n + 1)
    BY <1>0 DEF DigitsIn
  <2>7. ExponentAt(t, n - 1, n + 1)
    BY <1>0, <2>1, <2>4, <2>5, <2>6 DEF ExponentAt
  <2>8. RealUpTo(t, i, (n - 1) - 1)
    BY <2>3, <2>4
  <2> QED BY <2>4, <2>7, <2>8 DEF NumberForm
<1>3. CASE state = "X3"
  <2>1. PICK i \in 1..n, k \in 1..n : RealUpTo(s, i, k - 1) /\ ExponentAt(s, k, n)
    BY <1>3 DEF NumberForm
  <2>2. RealUpTo(t, i, k - 1)
    <3>1. k - 1 \in Nat /\ k - 1 <= n
      BY <1>0
    <3> QED BY <2>1, <3>1, RealStays
  <2>3. FirstExponent(s, k) \in {k + 1, k + 2} /\ FirstExponent(s, k) <= n
    BY <2>1 DEF FirstExponent, ExponentAt
  <2>4. k \in 1..n /\ k + 1 \in 1..n
    BY <1>0, <2>3
  <2>5. t[k] = s[k] /\ t[k + 1] = s[k + 1]
    BY <2>4 DEF Longer
  <2>6. FirstExponent(t, k) = FirstExponent(s, k)
    BY <2>5 DEF FirstExponent
  <2>7. DigitsIn(t, FirstExponent(t, k), n + 1)
    <3> DEFINE e == FirstExponent(s, k)
    <3>1. e \in {k + 1, k + 2} /\ DigitsIn(s, e, n) /\ FirstExponent(t, k) = e
      BY <2>1, <2>3, <2>6 DEF ExponentAt
    <3> HIDE DEF e
    <3>2. ASSUME NEW j \in e..(n + 1) PROVE t[j] \in 48..57
      <4>1. j = n + 1 \/ (j \in e..n /\ j \in 1..n)
        BY <1>0, <2>4, <3>1
      <4>2. j \in e..n /\ j \in 1..n => t[j] = s[j] /\ s[j] \in 48..57
        BY <3>1 DEF Longer, DigitsIn
      <4> QED BY <1>0, <4>1, <4>2
    <3> QED BY <3>1, <3>2 DEF DigitsIn
  <2>8. FirstExponent(t, k) <= n + 1
    BY <1>0, <2>3, <2>6
  <2>9. ExponentAt(t, k, n + 1)
    BY <2>1, <2>5, <2>7, <2>8 DEF ExponentAt
  <2>10. i \in 1..(n + 1) /\ k \in 1..(n + 1)
    BY <1>0
  <2> QED BY <2>2, <2>9, <2>10 DEF NumberForm
<1> QED BY <1>1, <1>2, <1>3

-----------------------------------------------------------------------------
(* A part of a sequence and its elements. *)
IsPart(t, s, a, b) ==
    /\ IsSeq(t) /\ Len(t) = b - a + 1
    /\ \A j \in 1..(b - a + 1) : t[j] = s[a + j - 1]

(* What SubSeq takes is a part. *)
LEMMA PartOf ==
    ASSUME NEW s, IsSeq(s), NEW a \in Nat, a >= 1, NEW b \in Nat,
           a <= b + 1, b <= Len(s)
    PROVE  IsPart(SubSeq(s, a, b), s, a, b)
<1>1. PICK S : s \in Seq(S)
  BY DEF IsSeq
<1>2. SubSeq(s, a, b) \in Seq(S)
  <2>1. \A j \in a..b : s[j] \in S
    BY <1>1
  <2> QED BY <1>1, <2>1
<1>3. Len(SubSeq(s, a, b)) = b - a + 1
  BY <1>1
<1>4. \A j \in 1..(b - a + 1) : SubSeq(s, a, b)[j] = s[a + j - 1]
  BY <1>1
<1> QED BY <1>2, <1>3, <1>4, Member DEF IsPart

(* A part that is all digits. *)
LEMMA PartDigits ==
    ASSUME NEW s, NEW a \in Nat, NEW b \in Nat, 1 <= a, a <= b, DigitsIn(s, a, b),
           NEW t, IsPart(t, s, a, b)
    PROVE  IsDigits(t)
<1>1. IsSeq(t) /\ Len(t) = b - a + 1 /\ Len(t) # 0
  BY DEF IsPart
<1>2. t # <<>> /\ DOMAIN t = 1..Len(t)
  BY <1>1, NoElements DEF IsSeq
<1>3. ASSUME NEW j \in 1..Len(t) PROVE t[j] \in 48..57
  <2>1. t[j] = s[a + j - 1] /\ a + j - 1 \in a..b
    BY <1>1 DEF IsPart
  <2> QED BY <2>1 DEF DigitsIn
<1> QED BY <1>2, <1>3 DEF IsDigits

(* So is what comes after the first byte. *)
LEMMA TailPart ==
    ASSUME NEW t, IsSeq(t), Len(t) >= 1
    PROVE  IsPart(Tail(t), t, 2, Len(t))
<1>1. PICK S : t \in Seq(S)
  BY DEF IsSeq
<1>2. Tail(t) \in Seq(S) /\ Len(Tail(t)) = Len(t) - 1
      /\ \A j \in 1..(Len(t) - 1) : Tail(t)[j] = t[j + 1]
  BY <1>1
<1>3. \A j \in 1..(Len(t) - 1) : 2 + j - 1 = j + 1
  OBVIOUS
<1>4. Len(t) - 2 + 1 = Len(t) - 1
  BY <1>1
<1> QED BY <1>2, <1>3, <1>4, Member DEF IsPart

(* What is an integer byte by byte is the text of one. *)
LEMMA IntText ==
    ASSUME NEW s, NEW n \in Nat, IntUpTo(s, n), NEW t, IsPart(t, s, 1, n)
    PROVE  IsIntText(t)
<1>1. IsSeq(t) /\ Len(t) = n /\ \A j \in 1..n : t[j] = s[j]
  <2>1. \A j \in 1..n : 1 + j - 1 = j
    OBVIOUS
  <2> QED BY <2>1 DEF IsPart
<1>2. FirstDigit(s) \in {1, 2}
  BY DEF FirstDigit
<1>3. n >= 1 /\ 1 \in 1..n /\ t # <<>>
  BY <1>1, <1>2, NoElements DEF IntUpTo
<1>4. IsNegative(t) <=> s[1] = 45
  BY <1>1, <1>3 DEF IsNegative
<1>5. CASE s[1] = 45
  <2>1. FirstDigit(s) = 2 /\ n >= 2 /\ DigitsIn(s, 2, n) /\ (s[2] = 48 => n = 2)
    BY <1>5 DEF FirstDigit, IntUpTo
  <2> DEFINE d == Tail(t)
  <2>2. IsPart(d, t, 2, n)
    BY <1>1, <1>3, TailPart
  <2> HIDE DEF d
  <2>3. DigitsIn(t, 2, n)
    <3>1. \A j \in 2..n : j \in 1..n
      OBVIOUS
    <3> QED BY <1>1, <2>1, <3>1 DEF DigitsIn
  <2>4. IsDigits(d)
    BY <2>1, <2>2, <2>3, PartDigits
  <2>5. d[1] = s[2] /\ Len(d) = n - 1
    <3>1. 1 \in 1..(n - 2 + 1) /\ 2 + 1 - 1 = 2 /\ 2 \in 1..n /\ n - 2 + 1 = n - 1
      BY <2>1
    <3> QED BY <1>1, <2>2, <3>1 DEF IsPart
  <2>6. d[1] = 48 => Len(d) = 1
    BY <2>1, <2>5
  <2>7. IsNegative(t)
    BY <1>4, <1>5
  <2> QED BY <2>4, <2>6, <2>7 DEF IsIntText, d
<1>6. CASE s[1] # 45
  <2>1. FirstDigit(s) = 1 /\ DigitsIn(s, 1, n) /\ (s[1] = 48 => n = 1)
    BY <1>6 DEF FirstDigit, IntUpTo
  <2>2. IsDigits(t)
    BY <1>3, <2>1, PartDigits
  <2>3. t[1] = 48 => Len(t) = 1
    BY <1>1, <1>3, <2>1
  <2> QED BY <1>4, <1>6, <2>2, <2>3 DEF IsIntText
<1> QED BY <1>5, <1>6

(* So is what is a float. *)
FloatUpTo(s, n) ==
    \/ \E i \in 1..n : RealUpTo(s, i, n)
    \/ \E i \in 1..n, k \in 1..n : RealUpTo(s, i, k - 1) /\ ExponentAt(s, k, n)

(* The same of an exponent. *)
LEMMA ExponentText ==
    ASSUME NEW s, NEW k \in Nat, k >= 1, NEW n \in Nat, k <= n, ExponentAt(s, k, n),
           NEW t, IsPart(t, s, k, n)
    PROVE  IsExponent(t)
<1>1. /\ FirstExponent(s, k) \in {k + 1, k + 2} /\ FirstExponent(s, k) <= n
      /\ s[k] \in {69, 101}
  BY DEF FirstExponent, ExponentAt
<1>2. /\ IsSeq(t) /\ Len(t) = n - k + 1 /\ Len(t) >= 2 /\ Len(t) \in Nat
      /\ 1 \in 1..(n - k + 1) /\ 2 \in 1..(n - k + 1)
      /\ k + 1 - 1 = k /\ k + 2 - 1 = k + 1
  BY <1>1 DEF IsPart
<1>3. t # <<>> /\ t[1] = s[k] /\ t[2] = s[k + 1]
  <2>1. t[1] = s[k + 1 - 1] /\ t[2] = s[k + 2 - 1]
    BY <1>2 DEF IsPart
  <2> QED BY <1>2, <2>1, NoElements
<1>4. ASSUME NEW a \in 2..3, FirstExponent(s, k) = k + a - 1,
             NEW d, IsPart(d, t, a, Len(t))
      PROVE  IsDigits(d)
  <2>1. ASSUME NEW j \in a..Len(t) PROVE t[j] \in 48..57
    <3>1. j \in 1..(n - k + 1) /\ k + j - 1 \in FirstExponent(s, k)..n
      BY <1>2, <1>4
    <3>2. t[j] = s[k + j - 1]
      BY <3>1 DEF IsPart
    <3> QED BY <3>1, <3>2 DEF ExponentAt, DigitsIn
  <2>2. DigitsIn(t, a, Len(t))
    BY <2>1 DEF DigitsIn
  <2>3. a \in Nat /\ 1 <= a /\ a <= Len(t)
    BY <1>1, <1>2, <1>4
  <2> QED BY <1>2, <1>4, <2>2, <2>3, PartDigits
<1>5. CASE s[k + 1] \in {43, 45}
  <2>1. FirstExponent(s, k) = k + 2 /\ k + 2 = k + 3 - 1 /\ 3 <= Len(t)
    BY <1>1, <1>2, <1>5 DEF FirstExponent
  <2>2. IsPart(SubSeq(t, 3, Len(t)), t, 3, Len(t))
    BY <1>2, <2>1, PartOf
  <2>3. IsDigits(SubSeq(t, 3, Len(t)))
    BY <1>4, <2>1, <2>2
  <2> QED BY <1>1, <1>2, <1>3, <1>5, <2>3 DEF IsExponent
<1>6. CASE s[k + 1] \notin {43, 45}
  <2>1. FirstExponent(s, k) = k + 1 /\ k + 1 = k + 2 - 1
    BY <1>1, <1>2, <1>6 DEF FirstExponent
  <2>2. IsPart(Tail(t), t, 2, Len(t))
    BY <1>2, TailPart
  <2>3. IsDigits(Tail(t))
    BY <1>4, <2>1, <2>2
  <2> QED BY <1>1, <1>2, <1>3, <1>6, <2>3 DEF IsExponent
<1> QED BY <1>5, <1>6

(* The same of a number with a fraction. *)
LEMMA RealText ==
    ASSUME NEW s, IsSeq(s), NEW i \in 1..Len(s), NEW k \in 1..(Len(s) + 1),
           RealUpTo(s, i, k - 1), k <= Len(s) => ExponentAt(s, k, Len(s))
    PROVE  IsFloatText(s)
<1>0. Len(s) \in Nat /\ i \in Nat /\ k \in Nat /\ k - 1 \in Nat /\ i - 1 \in Nat
      /\ (k - 1) + 1 = k
  BY LenNat
<1>1. i <= k /\ IntUpTo(s, i - 1)
  BY <1>0 DEF RealUpTo
<1>2. IsIntText(SubSeq(s, 1, i - 1))
  <2>1. IsPart(SubSeq(s, 1, i - 1), s, 1, i - 1)
    <3>1. 1 <= (i - 1) + 1 /\ i - 1 <= Len(s)
      BY <1>0
    <3> QED BY <1>0, <3>1, PartOf
  <2> QED BY <1>0, <1>1, <2>1, IntText
<1>3. ASSUME i < k PROVE s[i] = 46 /\ IsDigits(SubSeq(s, i + 1, k - 1))
  <2>1. i < k - 1 /\ s[i] = 46 /\ DigitsIn(s, i + 1, k - 1)
    BY <1>0, <1>3 DEF RealUpTo
  <2>2. IsPart(SubSeq(s, i + 1, k - 1), s, i + 1, k - 1)
    <3>1. i + 1 \in Nat /\ i + 1 >= 1 /\ i + 1 <= (k - 1) + 1 /\ k - 1 <= Len(s)
      BY <1>0, <2>1
    <3> QED BY <1>0, <3>1, PartOf
  <2>3. i + 1 \in Nat /\ 1 <= i + 1 /\ i + 1 <= k - 1
    BY <1>0, <2>1
  <2> QED BY <1>0, <2>1, <2>2, <2>3, PartDigits
<1>4. ASSUME k <= Len(s) PROVE IsExponent(SubSeq(s, k, Len(s)))
  <2>1. IsPart(SubSeq(s, k, Len(s)), s, k, Len(s))
    BY <1>0, <1>4, PartOf
  <2> QED BY <1>0, <1>4, <2>1, ExponentText
<1> QED BY <1>0, <1>1, <1>2, <1>3, <1>4 DEF IsFloatText

(* The same of a float. *)
LEMMA FloatText ==
    ASSUME NEW s, IsSeq(s), FloatUpTo(s, Len(s))
    PROVE  IsFloatText(s)
<1>0. Len(s) \in Nat /\ Len(s) + 1 \in 1..(Len(s) + 1) /\ (Len(s) + 1) - 1 = Len(s)
      /\ ~ (Len(s) + 1 <= Len(s))
  BY LenNat
<1>1. CASE \E i \in 1..Len(s) : RealUpTo(s, i, Len(s))
  <2>1. PICK i \in 1..Len(s) : RealUpTo(s, i, (Len(s) + 1) - 1)
    BY <1>0, <1>1
  <2> QED BY <1>0, <2>1, RealText
<1>2. CASE \E i \in 1..Len(s), k \in 1..Len(s) :
               RealUpTo(s, i, k - 1) /\ ExponentAt(s, k, Len(s))
  <2>1. PICK i \in 1..Len(s), k \in 1..Len(s) :
               RealUpTo(s, i, k - 1) /\ ExponentAt(s, k, Len(s))
    BY <1>2
  <2>2. k \in 1..(Len(s) + 1)
    BY <1>0
  <2> QED BY <2>1, <2>2, RealText
<1> QED BY <1>1, <1>2 DEF FloatUpTo

(* All of an integer is the text of one. *)
LEMMA WholeIntText ==
    ASSUME NEW s, IsSeq(s), IntUpTo(s, Len(s))
    PROVE  IsIntText(s)
<1>1. IsPart(s, s, 1, Len(s))
  <2>1. Len(s) \in Nat /\ Len(s) = Len(s) - 1 + 1
        /\ \A j \in 1..(Len(s) - 1 + 1) : j = 1 + j - 1
    BY LenNat
  <2> QED BY <2>1 DEF IsPart
<1>2. Len(s) \in Nat
  BY LenNat
<1> QED BY <1>1, <1>2, IntText

-----------------------------------------------------------------------------
(* The bytes read *)

(* A byte ch of the class, after which n bytes of a character are still to *)
(* come, where there were l before.                                        *)
ByteRead(l, ch, n, class) ==
    /\ ch \in 0..255 /\ n \in 0..5 /\ LeftAfter(l, ch) = n
    /\ class # "OTHER" => /\ l = 0 /\ n = 0 /\ ch \in 0..127
                          /\ class = character_class(ch)

(* No other byte is moved on with (json.c 2145-2213).                      *)
LEMMA ReadForm ==
    ASSUME NEW p, p.utf8_multibyte_left \in 0..5, NEW ch
    PROVE  LET c == json_parser_char(p, ch)
           IN  \/ \E e : e # "SUCCESS" /\ c = Fail(p, e)
               \/ \E e, n : e # "SUCCESS" /\ c = Fail(Awaiting(p, n), e)
               \/ \E n, class : /\ ByteRead(p.utf8_multibyte_left, ch, n, class)
                                /\ c = Moved(Awaiting(p, n), ch, class)
<1> DEFINE l == p.utf8_multibyte_left
           left == utf8_header_table(ch)
           class == character_class(ch)
           c == json_parser_char(p, ch)
<1>1. /\ left \in {0, 1, 2, 3, 4, 5, 255}
      /\ left = 0 => ch \in 0..127
      /\ left # 255 => ch \in 0..255
  BY SMT DEF utf8_header_table
<1>2. utf8_continuation_table(ch) = 0 => ch \in 0..255
  BY SMT DEF utf8_continuation_table
<1>3. c = IF l > 0
          THEN IF utf8_continuation_table(ch) # 0 THEN Fail(p, "UTF8")
               ELSE Moved(Awaiting(p, l - 1), ch, "OTHER")
          ELSE IF left = 255 THEN Fail(Awaiting(p, left), "UTF8")
          ELSE IF left > 0 THEN Moved(Awaiting(p, left), ch, "OTHER")
          ELSE IF class = "ERROR" THEN Fail(Awaiting(p, left), "BAD_CHAR")
          ELSE Moved(Awaiting(p, left), ch, class)
  <2>1. Awaiting(p, l - 1) = [p EXCEPT !.utf8_multibyte_left = @ - 1]
    BY DEF Awaiting
  <2> QED BY <2>1 DEF json_parser_char, Awaiting
<1>l. l \in 0..5
  OBVIOUS
<1> HIDE DEF c, class, l
<1>4. CASE l > 0 /\ utf8_continuation_table(ch) # 0
  BY <1>3, <1>4 DEF c
<1>5. CASE l > 0 /\ ~ (utf8_continuation_table(ch) # 0)
  <2>1. LeftAfter(l, ch) = l - 1 /\ l - 1 \in 0..5
    BY <1>5, <1>l DEF LeftAfter
  <2>2. ByteRead(l, ch, l - 1, "OTHER")
    BY <1>2, <1>5, <2>1 DEF ByteRead
  <2> QED BY <1>3, <1>5, <2>2, Zenon DEF c, l
<1>6. ASSUME ~ (l > 0) PROVE l = 0 /\ LeftAfter(0, ch) = left
  BY <1>6, <1>l DEF LeftAfter
<1> HIDE DEF left
<1>7. CASE ~ (l > 0) /\ left = 255
  BY <1>3, <1>7 DEF c
<1>8. CASE ~ (l > 0) /\ left # 255 /\ left > 0
  <2>1. left \in 0..5 /\ ch \in 0..255
    BY <1>1, <1>8
  <2>2. ByteRead(l, ch, left, "OTHER")
    BY <1>6, <1>8, <2>1 DEF ByteRead
  <2> QED BY <1>3, <1>8, <2>2 DEF c, l
<1>9. CASE ~ (l > 0) /\ left = 0 /\ class = "ERROR"
  BY <1>3, <1>9 DEF c
<1>10. CASE ~ (l > 0) /\ left = 0 /\ class # "ERROR"
  <2>1. ch \in 0..127 /\ ch \in 0..255 /\ left \in 0..5
    BY <1>1, <1>10
  <2>2. ByteRead(l, ch, left, class)
    BY <1>6, <1>10, <2>1 DEF ByteRead, class
  <2> QED BY <1>3, <1>10, <2>2 DEF c, l
<1> QED BY <1>1, <1>4, <1>5, <1>7, <1>8, <1>9, <1>10

HexByte(c) == c \in 48..57 \/ c \in 65..70 \/ c \in 97..102

(* What a class says of a byte (json.c 94-149).                            *)
LEMMA ClassBytes ==
    ASSUME NEW ch \in 0..127
    PROVE  LET c == character_class(ch)
           IN  /\ c = "ZERO" => ch = 48
               /\ c = "DIGIT" => ch \in 49..57
               /\ c \in Digits => ch \in 48..57
               /\ c = "MINUS" => ch = 45
               /\ c = "PLUS" => ch = 43
               /\ c = "DOT" => ch = 46
               /\ c \in {"e", "E"} => ch \in {69, 101}
               /\ c \in Hex => HexByte(ch)
<1> DEFINE c == character_class(ch)
<1>1. c = "ZERO" => ch = 48
  BY SMT DEF character_class
<1>2. c = "DIGIT" => ch \in 49..57
  BY SMT DEF character_class
<1>3. c = "MINUS" => ch = 45
  BY SMT DEF character_class
<1>4. c = "PLUS" => ch = 43
  BY SMT DEF character_class
<1>5. c = "DOT" => ch = 46
  BY SMT DEF character_class
<1>6. c = "e" => ch = 101
  BY SMT DEF character_class
<1>7. c = "E" => ch = 69
  BY SMT DEF character_class
<1>8. c = "a" => ch = 97
  BY SMT DEF character_class
<1>9. c = "b" => ch = 98
  BY SMT DEF character_class
<1>10. c = "c" => ch = 99
  BY SMT DEF character_class
<1>11. c = "d" => ch = 100
  BY SMT DEF character_class
<1>12. c = "f" => ch = 102
  BY SMT DEF character_class
<1>13. c = "ABCDF" => ch \in {65, 66, 67, 68, 70}
  BY SMT DEF character_class
<1> HIDE DEF c
<1>14. c \in Digits => ch \in 48..57
  BY <1>1, <1>2 DEF Digits
<1>15. c \in Hex => HexByte(ch)
  BY <1>1, <1>2, <1>6, <1>7, <1>8, <1>9, <1>10, <1>11, <1>12, <1>13
     DEF Digits, Hex, HexByte
<1> QED BY <1>1, <1>2, <1>3, <1>4, <1>5, <1>6, <1>7, <1>14, <1>15 DEF c

(* An escape is a byte of ASCII. *)
LEMMA EscapeAscii == \A ch \in 0..127 : Escape(ch) \in 0..127
BY SMT DEF Escape

-----------------------------------------------------------------------------
(* Which classes lead where in a text *)

Blanked == {"RCURB", "RSQRB", "COMMA", "SLASH", "HASH"} \cup White

(* From which states, and with which classes, a text goes on or ends.      *)
TextMove(s, cs, n) ==
    /\ n = "MX" => s \in {"_V", "_A"} /\ cs = {"MINUS"}
    /\ n = "ZX" => s \in {"_V", "_A"} /\ cs = {"ZERO"}
    /\ n = "IX" => s \in {"_V", "_A"} /\ cs = {"DIGIT"}
    /\ n = "Z0" => s = "M0" /\ cs = {"ZERO"}
    /\ n = "I0" => \/ s = "M0" /\ cs = {"DIGIT"}
                   \/ s = "I0" /\ cs = Digits
    /\ n = "DF" => s \in {"Z0", "I0"} /\ cs = {"DOT"}
    /\ n = "DE" => s = "I0" /\ cs = {"e", "E"}
    /\ n = "R2" => s \in {"R1", "R2"} /\ cs = Digits
    /\ n = "X1" => s = "R2" /\ cs = {"e", "E"}
    /\ n = "X2" => s = "X1" /\ cs = {"PLUS", "MINUS"}
    /\ n = "X3" => s \in {"X1", "X2", "X3"} /\ cs = Digits
    /\ n \notin {"M0", "R1", "D1"}
    /\ n = "OK" => s \in {"OK", "Z0", "I0", "R2", "X3"} /\ cs = White
    /\ n \in DoBuffer => /\ s \notin {"M0", "R1", "X1", "X2"}
                         /\ cs \subseteq Blanked
    /\ n = "_S" => \/ s \in BlankStates /\ cs = {"QUOTE"}
                   \/ s = "_S" /\ cs = Classes \ {"NL", "WHITE", "QUOTE", "BACKS"}
                   \/ s = "E0" /\ cs = Escaped
    /\ n = "E0" => s = "_S" /\ cs = {"BACKS"}
    /\ n = "D2" => s = "D1" /\ cs = {"BACKS"}
    /\ n = "U1" => s \in {"E0", "D2"} /\ cs = {"u"}
    /\ n = "U2" => s = "U1" /\ cs = Hex
    /\ n = "U3" => s = "U2" /\ cs = Hex
    /\ n = "U4" => s = "U3" /\ cs = Hex
    /\ n = "UC" => s = "U4" /\ cs = Hex
    /\ n = "SE" => s = "_S" /\ cs = {"QUOTE"}

(* The transition table moves no other way with a text (json.c 257-1559).  *)
LEMMA TextMoves == \A m \in Table : TextMove(m[1], m[2], m[3])
<1> DEFINE P(m) == TextMove(m[1], m[2], m[3])
<1> USE DEF TextMove, Move, White, Blanked, DoBuffer, BlankStates
<1>1. \A m \in StartRows : P(m)    BY DEF StartRows, Blank, Closers
<1>2. \A m \in ObjectRows : P(m)   BY DEF ObjectRows, Blank
<1>3. \A m \in ValueRows : P(m)    BY DEF ValueRows, Blank, Values
<1>4. \A m \in StringRows : P(m)   BY DEF StringRows
<1>5. \A m \in UnicodeRows : P(m)  BY DEF UnicodeRows
<1>6. \A m \in IntegerRows : P(m)  BY DEF IntegerRows, Blank, Closers
<1>7. \A m \in RealRows : P(m)     BY DEF RealRows, Blank, Closers
<1>8. \A m \in TrueRows \cup FalseRows \cup NullRows : P(m)
  BY DEF TrueRows, FalseRows, NullRows
<1>9. \A m \in CommentRows \cup OtherRows : P(m)
  BY DEF CommentRows, OtherRows
<1> HIDE DEF P
<1>10. \A m \in Table : P(m)
  BY <1>1, <1>2, <1>3, <1>4, <1>5, <1>6, <1>7, <1>8, <1>9 DEF Table
<1> QED BY <1>10 DEF P

(* What is kept of them (json.c 1561-1672). *)
LEMMA TextKept ==
    /\ \A s \in {"_V", "_A"}, c \in {"MINUS", "ZERO", "DIGIT"} :
           buffer_policy_table(s, c) = "append"
    /\ \A s \in {"M0", "I0", "R1", "R2", "X1", "X2", "X3"}, c \in Digits :
           buffer_policy_table(s, c) = "append"
    /\ \A s \in {"Z0", "I0"} : buffer_policy_table(s, "DOT") = "append"
    /\ \A s \in {"I0", "R2"}, c \in {"e", "E"} : buffer_policy_table(s, c) = "append"
    /\ \A c \in {"PLUS", "MINUS"} : buffer_policy_table("X1", c) = "append"
    /\ \A c \in Classes \ {"NL", "WHITE", "QUOTE", "BACKS"} :
           buffer_policy_table("_S", c) = "append"
    /\ \A c \in Escaped : buffer_policy_table("E0", c) = "escape"
    /\ buffer_policy_table("E0", "u") = "ignore"
    /\ \A c \in {"QUOTE", "BACKS"} : buffer_policy_table("_S", c) = "ignore"
    /\ \A c : buffer_policy_table("D1", c) = "ignore"
    /\ \A c : buffer_policy_table("D2", c) = "ignore"
    /\ \A s \in {"OK", "Z0", "I0", "R2", "X3"}, c \in Blanked :
           buffer_policy_table(s, c) = "ignore"
<1> USE DEF buffer_policy_table, Buffered
<1>1. \A s \in {"_V", "_A"}, c \in {"MINUS", "ZERO", "DIGIT"} :
           buffer_policy_table(s, c) = "append"
  BY DEF Digits
<1>2. \A s \in {"M0", "I0", "R1", "R2", "X1", "X2", "X3"}, c \in Digits :
           buffer_policy_table(s, c) = "append"
  OBVIOUS
<1>3. \A s \in {"Z0", "I0"} : buffer_policy_table(s, "DOT") = "append"
  OBVIOUS
<1>4. \A s \in {"I0", "R2"}, c \in {"e", "E"} : buffer_policy_table(s, c) = "append"
  OBVIOUS
<1>5. \A c \in {"PLUS", "MINUS"} : buffer_policy_table("X1", c) = "append"
  OBVIOUS
<1>6. \A c \in Classes \ {"NL", "WHITE", "QUOTE", "BACKS"} :
           buffer_policy_table("_S", c) = "append"
  OBVIOUS
<1>7. \A c \in Escaped : buffer_policy_table("E0", c) = "escape"
  OBVIOUS
<1>8. buffer_policy_table("E0", "u") = "ignore"
  BY DEF Escaped
<1>9. \A c \in {"QUOTE", "BACKS"} : buffer_policy_table("_S", c) = "ignore"
  OBVIOUS
<1>10. \A c : buffer_policy_table("D1", c) = "ignore"
  OBVIOUS
<1>11. \A c : buffer_policy_table("D2", c) = "ignore"
  OBVIOUS
<1>12. \A s \in {"OK", "Z0", "I0", "R2", "X3"}, c \in Blanked :
           buffer_policy_table(s, c) = "ignore"
  BY DEF Blanked, White, Digits
<1> HIDE DEF buffer_policy_table, Buffered
<1> QED BY <1>1, <1>2, <1>3, <1>4, <1>5, <1>6, <1>7, <1>8, <1>9, <1>10, <1>11,
           <1>12

(* What keeping a byte leaves (json.c 1806-1843). *)
KeptForm(p, q, b) ==
    /\ HasFields(q)
    /\ q.unicode_multi = p.unicode_multi
    /\ q.utf8_multibyte_left = p.utf8_multibyte_left
    /\ q.ret = "SUCCESS" => q.buffer = b

(* What pushing a byte leaves (json.c 1775-1804). *)
LEMMA PushText ==
    ASSUME NEW p, HasFields(p), NEW c
    PROVE  KeptForm(p, buffer_push(p, c), Append(p.buffer, c))
<1> DEFINE g == IF Len(p.buffer) + 1 >= p.buffer_size THEN buffer_grow(p) ELSE p
           r == [g EXCEPT !.buffer = Append(@, c)]
<1>1. SameText(p, g)
  <2>1. SameText(p, p) /\ (\A n : SameText(p, [p EXCEPT !.buffer_size = n]))
        /\ \A e : SameText(p, Fail(p, e))
    BY DEF SameText, HasFields, Fields, Fail
  <2>2. g = p \/ (\E e : g = Fail(p, e)) \/ (\E n : g = [p EXCEPT !.buffer_size = n])
    BY DEF buffer_grow
  <2> HIDE DEF g
  <2> QED BY <2>1, <2>2
<1>2. buffer_push(p, c) = IF g.ret # "SUCCESS" THEN g ELSE r
  BY DEF buffer_push
<1> HIDE DEF g
<1>3. /\ HasFields(r) /\ r.buffer = Append(g.buffer, c)
      /\ r.unicode_multi = g.unicode_multi
      /\ r.utf8_multibyte_left = g.utf8_multibyte_left
  BY <1>1 DEF SameText, HasFields, Fields
<1> HIDE DEF r
<1> QED BY <1>1, <1>2, <1>3 DEF SameText, KeptForm

(* What is left, policy by policy. *)
LEMMA KeptText ==
    ASSUME NEW p, HasFields(p), NEW ch, NEW class
    PROVE  LET policy == buffer_policy_table(p.state, class)
               q      == Kept(p, ch, class)
           IN  /\ policy = "append" => KeptForm(p, q, Append(p.buffer, ch))
               /\ policy = "escape" => KeptForm(p, q, Append(p.buffer, Escape(ch)))
               /\ policy = "ignore" => q = p /\ KeptForm(p, q, p.buffer)
               /\ HasFields(q) /\ q.unicode_multi = p.unicode_multi
               /\ q.utf8_multibyte_left = p.utf8_multibyte_left
<1> DEFINE policy == buffer_policy_table(p.state, class)
           q      == Kept(p, ch, class)
<1>1. policy \in {"append", "escape", "ignore"}
  BY DEF buffer_policy_table
<1>2. policy = "append" => q = buffer_push(p, ch)
  BY DEF Kept
<1>3. policy = "escape" => q = buffer_push(p, Escape(ch))
  BY DEF Kept, buffer_push_escape
<1>4. policy = "ignore" => q = p
  BY DEF Kept
<1>5. KeptForm(p, p, p.buffer)
  BY DEF KeptForm
<1>6. /\ KeptForm(p, buffer_push(p, ch), Append(p.buffer, ch))
      /\ KeptForm(p, buffer_push(p, Escape(ch)), Append(p.buffer, Escape(ch)))
  BY PushText
<1> HIDE DEF policy, q
<1>7. /\ policy = "append" => KeptForm(p, q, Append(p.buffer, ch))
      /\ policy = "escape" => KeptForm(p, q, Append(p.buffer, Escape(ch)))
      /\ policy = "ignore" => KeptForm(p, q, p.buffer)
  BY <1>2, <1>3, <1>4, <1>5, <1>6
<1>8. \A b : KeptForm(p, q, b) =>
              /\ HasFields(q) /\ q.unicode_multi = p.unicode_multi
              /\ q.utf8_multibyte_left = p.utf8_multibyte_left
  BY DEF KeptForm
<1> QED BY <1>1, <1>4, <1>7, <1>8 DEF policy, q

-----------------------------------------------------------------------------
(* The texts in the buffer *)

(* What TextsWellFormed says of one call. *)
TextOk(e) ==
    CASE e.type = "INT"               -> IsIntText(e.data)
      [] e.type = "FLOAT"             -> IsFloatText(e.data)
      [] e.type \in {"KEY", "STRING"} -> IsUTF8(e.data)
      [] OTHER                        -> e.data = <<>>

CallsFine(calls) == IsSeq(calls) /\ \A i \in DOMAIN calls : TextOk(calls[i])

(* The last k bytes are hexadecimal digits. *)
HexEnd(b, k) ==
    Len(b) >= k /\ \A j \in (Len(b) - k + 1)..Len(b) : HexByte(b[j])

StringText(s, b, l) ==
    /\ BytesLeft(b, l)
    /\ s = "U2" => HexEnd(b, 1)
    /\ s = "U3" => HexEnd(b, 2)
    /\ s = "U4" => HexEnd(b, 3)

NumberText(s, b) == IsSeq(b) /\ NumberForm(s, b, Len(b))

NumberType(s) == IF s \in {"M0", "Z0", "I0"} THEN "INT" ELSE "FLOAT"

(* A value that is still to be given to the callback. *)
Waits(type, b) ==
    /\ type = "INT" => IsSeq(b) /\ IntUpTo(b, Len(b))
    /\ type = "FLOAT" => IsSeq(b) /\ FloatUpTo(b, Len(b))
    /\ type \in {"NULL", "TRUE", "FALSE"} => b = <<>>

TextIn(s, type, b, l) ==
    /\ s \in StringStates => StringText(s, b, l)
    /\ s \in NumberStates => NumberText(s, b) /\ type = NumberType(s)
    /\ s = "OK" => Waits(type, b)

Typed(p) == HasFields(p) /\ p.unicode_multi \in Nat /\ CallsFine(p.calls)

TextInv(p) ==
    /\ Typed(p)
    /\ p.ret = "SUCCESS" =>
           /\ p.utf8_multibyte_left \in 0..5
           /\ TextIn(p.state, p.type, p.buffer, p.utf8_multibyte_left)

(* One more call. *)
LEMMA CallFine ==
    ASSUME NEW calls, CallsFine(calls), NEW e, TextOk(e)
    PROVE  CallsFine(Append(calls, e))
<1>1. PICK S : calls \in Seq(S)
  BY DEF CallsFine, IsSeq
<1> DEFINE more == Append(calls, e)
<1>2. /\ DOMAIN calls = 1..Len(calls) /\ Len(calls) \in Nat
      /\ DOMAIN more = 1..(Len(calls) + 1)
      /\ more[Len(calls) + 1] = e
      /\ \A i \in 1..Len(calls) : more[i] = calls[i]
  BY <1>1
<1>3. IsSeq(more)
  BY AppendSeq DEF CallsFine
<1> HIDE DEF more
<1>4. ASSUME NEW i \in DOMAIN more PROVE TextOk(more[i])
  <2>1. i = Len(calls) + 1 \/ i \in 1..Len(calls)
    BY <1>2
  <2>2. i \in 1..Len(calls) => TextOk(calls[i])
    BY <1>2 DEF CallsFine
  <2> QED BY <1>2, <2>1, <2>2
<1> QED BY <1>3, <1>4 DEF CallsFine, more

(* What waits is what its type says (json.c 1845-1860).                    *)
LEMMA WaitsFine ==
    ASSUME NEW type \in Scalars, NEW b, Waits(type, b)
    PROVE  TextOk(Event(type, b))
<1>1. Event(type, b).type = type /\ Event(type, b).data = b
  BY DEF Event
<1>2. CASE type = "INT"
  <2>1. IsIntText(b)
    BY <1>2, WholeIntText DEF Waits
  <2> QED BY <1>1, <1>2, <2>1 DEF TextOk
<1>3. CASE type = "FLOAT"
  <2>1. IsFloatText(b)
    BY <1>3, FloatText DEF Waits
  <2> QED BY <1>1, <1>3, <2>1 DEF TextOk
<1>4. CASE type \in {"NULL", "TRUE", "FALSE"}
  <2>1. b = <<>>
    BY <1>4 DEF Waits
  <2> QED BY <1>1, <1>4, <2>1 DEF TextOk
<1> QED BY <1>2, <1>3, <1>4 DEF Scalars

(* The begin and the end of a structure have no text. *)
Marks == {"ARRAY_BEGIN", "ARRAY_END", "OBJECT_BEGIN", "OBJECT_END"}

(* Such an event is fine. *)
LEMMA MarkFine == \A type \in Marks : TextOk(Event(type, <<>>))
BY DEF Marks, TextOk, Event

(* A number in one of the states in which it may end.                      *)
LEMMA NumberWaits ==
    ASSUME NEW s \in {"Z0", "I0", "R2", "X3"}, NEW b, NumberText(s, b)
    PROVE  Waits(NumberType(s), b)
BY DEF NumberText, NumberForm, Waits, NumberType, FloatUpTo

(* A text that is not begun, or was given away.                            *)
LEMMA BetweenText ==
    ASSUME NEW p, Between(p), NEW l
    PROVE  TextIn(p.state, p.type, p.buffer, l)
<1> DEFINE s == p.state
<1>1. \/ s \in BlankStates \cup LiteralStates \cup CommentStates
      \/ s = "OK" /\ p.type = "NONE"
  BY DEF Between
<1>2. s \notin StringStates /\ s \notin NumberStates
  BY <1>1, Kinds
<1>3. s = "OK" => p.type = "NONE"
  BY <1>1, Kinds
<1> HIDE DEF s
<1> QED BY <1>2, <1>3 DEF TextIn, Waits, s

(* A sequence with one more element. *)
LEMMA LongerAppend ==
    ASSUME NEW s, IsSeq(s), NEW c
    PROVE  /\ Longer(s, Append(s, c), Len(s), c)
           /\ IsSeq(Append(s, c)) /\ Len(Append(s, c)) = Len(s) + 1
<1>1. PICK S : s \in Seq(S)
  BY DEF IsSeq
<1>2. /\ Len(s) \in Nat /\ Append(s, c)[Len(s) + 1] = c
      /\ \A j \in 1..Len(s) : Append(s, c)[j] = s[j]
  BY <1>1
<1> QED BY <1>2, AppendSeq DEF Longer

(* One digit more at the end. *)
LEMMA HexAppend ==
    ASSUME NEW b, IsSeq(b), NEW k \in Nat, HexEnd(b, k), NEW c, HexByte(c)
    PROVE  HexEnd(Append(b, c), k + 1)
<1> DEFINE t == Append(b, c)
           n == Len(b)
<1>1. n \in Nat /\ t[n + 1] = c /\ Len(t) = n + 1 /\ \A j \in 1..n : t[j] = b[j]
  BY LongerAppend DEF Longer
<1>2. n >= k /\ \A j \in (n - k + 1)..n : HexByte(b[j])
  BY DEF HexEnd
<1> HIDE DEF t, n
<1>3. ASSUME NEW j \in (Len(t) - (k + 1) + 1)..Len(t) PROVE HexByte(t[j])
  <2>1. j = n + 1 \/ (j \in 1..n /\ j \in (n - k + 1)..n)
    BY <1>1, <1>2
  <2> QED BY <1>1, <1>2, <2>1
<1>4. Len(t) >= k + 1
  BY <1>1, <1>2
<1> QED BY <1>3, <1>4 DEF HexEnd, t

(* No digits are always there. *)
LEMMA HexNone == \A b : IsSeq(b) => HexEnd(b, 0)
BY LenNat DEF HexEnd

-----------------------------------------------------------------------------
(* Characters written as \uXXXX *)

(* One digit off the end. *)
LEMMA CutOne ==
    ASSUME NEW b, IsSeq(b), NEW k \in Nat, k < Len(b),
           BytesLeft(SubSeq(b, 1, Len(b) - k), 0), HexByte(b[Len(b) - k])
    PROVE  BytesLeft(SubSeq(b, 1, Len(b) - (k + 1)), 0)
<1> DEFINE s == SubSeq(b, 1, Len(b) - k)
           t == SubSeq(s, 1, Len(s) - 1)
           u == SubSeq(b, 1, Len(b) - (k + 1))
           m == Len(b) - k
<1>1. m \in Nat /\ m >= 1 /\ m <= Len(b) /\ Len(b) \in Nat
      /\ Len(b) - (k + 1) = m - 1
  BY LenNat
<1>2. IsPart(s, b, 1, m)
  <2>1. 1 \in Nat /\ 1 >= 1 /\ 1 <= m + 1
    BY <1>1
  <2> HIDE DEF m
  <2>2. IsPart(SubSeq(b, 1, m), b, 1, m)
    BY <1>1, <2>1, PartOf
  <2> QED BY <2>2 DEF m
<1>3. IsPart(u, b, 1, m - 1)
  <2>1. 1 \in Nat /\ 1 >= 1 /\ 1 <= (m - 1) + 1 /\ m - 1 \in Nat /\ m - 1 <= Len(b)
    BY <1>1
  <2>2. u = SubSeq(b, 1, m - 1)
    BY <1>1
  <2> HIDE DEF m, u
  <2>3. IsPart(SubSeq(b, 1, m - 1), b, 1, m - 1)
    BY <2>1, PartOf
  <2> QED BY <2>2, <2>3
<1> HIDE DEF s, u
<1> HIDE DEF m
<1>4. /\ IsSeq(s) /\ Len(s) = m /\ \A j \in 1..m : s[j] = b[j]
      /\ IsSeq(u) /\ Len(u) = m - 1 /\ \A j \in 1..(m - 1) : u[j] = b[j]
  <2>1. m - 1 + 1 = m /\ (m - 1) - 1 + 1 = m - 1 /\ \A j \in 1..m : 1 + j - 1 = j
    BY <1>1
  <2>2. \A j \in 1..(m - 1) : 1 + j - 1 = j
    BY <1>1
  <2> QED BY <1>2, <1>3, <2>1, <2>2 DEF IsPart
<1>5. Len(s) >= 1 /\ s[Len(s)] \in 0..127 /\ BytesLeft(s, 0)
  <2>1. s[m] = b[m] /\ HexByte(b[m])
    BY <1>1, <1>4 DEF m
  <2> QED BY <1>1, <1>4, <2>1 DEF s, m, HexByte
<1>6. BytesLeft(t, 0) /\ Len(t) = Len(s) - 1 /\ s = Append(t, s[Len(s)])
  BY <1>5, LeftFront
<1> HIDE DEF t
<1>7. IsSeq(t) /\ \A j \in 1..(m - 1) : s[j] = t[j]
  <2>1. IsSeq(t)
    BY <1>6, Member DEF BytesLeft
  <2>2. \A j \in 1..Len(t) : Append(t, s[Len(s)])[j] = t[j]
    BY <2>1, LongerAppend DEF Longer
  <2> QED BY <1>4, <1>6, <2>1, <2>2
<1>8. u = t
  <2>1. PICK S : u \in Seq(S)
    BY <1>4 DEF IsSeq
  <2>2. PICK T : t \in Seq(T)
    BY <1>7 DEF IsSeq
  <2>3. u \in Seq(S \cup T) /\ t \in Seq(S \cup T)
    BY <2>1, <2>2
  <2>4. Len(u) = Len(t)
    BY <1>4, <1>6
  <2>5. \A j \in 1..Len(u) : u[j] = t[j]
    <3>1. \A j \in 1..(m - 1) : j \in 1..m
      BY <1>1
    <3> QED BY <1>4, <1>7, <3>1
  <2> QED BY <2>3, <2>4, <2>5, SeqEqual
<1> QED BY <1>6, <1>8 DEF u

(* Four digits off the end leave whole characters (json.c 1862-1912).      *)
LEMMA CutFour ==
    ASSUME NEW b, BytesLeft(b, 0), HexEnd(b, 4)
    PROVE  LET n == Len(b)
           IN  /\ BytesLeft(SubSeq(b, 1, n - 4), 0)
               /\ HexByte(b[n]) /\ HexByte(b[n - 1]) /\ HexByte(b[n - 2])
               /\ HexByte(b[n - 3])
<1> DEFINE n == Len(b)
<1>1. IsSeq(b)
  BY Member DEF BytesLeft
<1>2. n \in Nat /\ n >= 4
  BY <1>1, LenNat DEF HexEnd
<1>3. HexByte(b[n]) /\ HexByte(b[n - 1]) /\ HexByte(b[n - 2]) /\ HexByte(b[n - 3])
  <2>1. n \in (n - 4 + 1)..n /\ n - 1 \in (n - 4 + 1)..n /\ n - 2 \in (n - 4 + 1)..n
        /\ n - 3 \in (n - 4 + 1)..n
    BY <1>2
  <2> QED BY <2>1 DEF HexEnd
<1>4. SubSeq(b, 1, n - 0) = b
  <2>1. PICK S : b \in Seq(S)
    BY <1>1 DEF IsSeq
  <2> QED BY <2>1
<1>5. BytesLeft(SubSeq(b, 1, n - 1), 0)
  <2>1. 0 + 1 = 1 /\ n - 0 = n /\ 0 < n /\ 0 \in Nat
    BY <1>2
  <2>2. BytesLeft(SubSeq(b, 1, n - 0), 0) /\ HexByte(b[n - 0])
    BY <1>3, <1>4, <2>1
  <2>3. BytesLeft(SubSeq(b, 1, n - (0 + 1)), 0)
    BY <1>1, <2>1, <2>2, CutOne
  <2> QED BY <2>1, <2>3
<1>6. BytesLeft(SubSeq(b, 1, n - 2), 0)
  <2>1. 1 + 1 = 2 /\ 1 < n /\ 1 \in Nat
    BY <1>2
  <2>2. BytesLeft(SubSeq(b, 1, n - (1 + 1)), 0)
    BY <1>1, <1>3, <1>5, <2>1, CutOne
  <2> QED BY <2>1, <2>2
<1>7. BytesLeft(SubSeq(b, 1, n - 3), 0)
  <2>1. 2 + 1 = 3 /\ 2 < n /\ 2 \in Nat
    BY <1>2
  <2>2. BytesLeft(SubSeq(b, 1, n - (2 + 1)), 0)
    BY <1>1, <1>3, <1>6, <2>1, CutOne
  <2> QED BY <2>1, <2>2
<1>8. BytesLeft(SubSeq(b, 1, n - 4), 0)
  <2>1. 3 + 1 = 4 /\ 3 < n /\ 3 \in Nat
    BY <1>2
  <2>2. BytesLeft(SubSeq(b, 1, n - (3 + 1)), 0)
    BY <1>1, <1>3, <1>7, <2>1, CutOne
  <2> QED BY <2>1, <2>2
<1> QED BY <1>3, <1>8

(* The value of four digits, and of two times four, is a character. *)
LEMMA HexValue == \A c : HexByte(c) => hex(c) \in 0..15
<1> TAKE c
<1>1. CASE c \in 48..57
  BY SMT, <1>1 DEF hex
<1>2. CASE c \in 65..70
  BY SMT, <1>2 DEF hex
<1>3. CASE c \in 97..102
  BY SMT, <1>3 DEF hex
<1> QED BY <1>1, <1>2, <1>3 DEF HexByte

FourValue(a, b, c, d) == 4096 * a + 256 * b + 16 * c + d

PairValue(u, v) == 65536 + 1024 * u + v

(* Four digits are a character. *)
LEMMA FourDigits ==
    ASSUME NEW a \in 0..15, NEW b \in 0..15, NEW c \in 0..15, NEW d \in 0..15
    PROVE  FourValue(a, b, c, d) \in Nat /\ CodePoint(FourValue(a, b, c, d))
BY SMT DEF CodePoint, FourValue

(* So are the two halves of a pair. *)
LEMMA TwoHalves ==
    ASSUME NEW u \in Nat, NEW v \in Nat
    PROVE  CodePoint(PairValue(u % 1024, v % 1024))
<1>1. u % 1024 \in 0..1023 /\ v % 1024 \in 0..1023
  BY SMT
<1> DEFINE x == u % 1024
           y == v % 1024
<1>2. x \in 0..1023 /\ y \in 0..1023
  BY <1>1
<1> HIDE DEF x, y
<1>3. CodePoint(PairValue(x, y))
  BY <1>2, SMT DEF CodePoint, PairValue
<1> QED BY <1>3 DEF x, y

(* What is left when four digits have become a character, or the first     *)
(* half of one (json.c 1862-1912).                                         *)
LEMMA DecodeText ==
    ASSUME NEW p, HasFields(p), p.unicode_multi \in Nat,
           BytesLeft(p.buffer, 0), HexEnd(p.buffer, 4)
    PROVE  LET q == decode_unicode_char(p)
           IN  /\ HasFields(q) /\ q.unicode_multi \in Nat
               /\ q.utf8_multibyte_left = p.utf8_multibyte_left
               /\ q.ret = "SUCCESS" => BytesLeft(q.buffer, 0)
<1> DEFINE n    == Len(p.buffer)
           uval == FourValue(hex(p.buffer[n - 3]), hex(p.buffer[n - 2]),
                             hex(p.buffer[n - 1]), hex(p.buffer[n]))
           kept == SubSeq(p.buffer, 1, n - 4)
           cut  == [p EXCEPT !.buffer = kept]
           pair == PairValue(p.unicode_multi % 1024, uval % 1024)
           Ok(q) == /\ HasFields(q) /\ q.unicode_multi \in Nat
                    /\ q.utf8_multibyte_left = p.utf8_multibyte_left
                    /\ q.ret = "SUCCESS" => BytesLeft(q.buffer, 0)
<1>1. BytesLeft(kept, 0) /\ HexByte(p.buffer[n]) /\ HexByte(p.buffer[n - 1])
      /\ HexByte(p.buffer[n - 2]) /\ HexByte(p.buffer[n - 3])
  BY CutFour
<1>2. uval \in Nat /\ CodePoint(uval)
  <2>1. /\ hex(p.buffer[n]) \in 0..15 /\ hex(p.buffer[n - 1]) \in 0..15
        /\ hex(p.buffer[n - 2]) \in 0..15 /\ hex(p.buffer[n - 3]) \in 0..15
    BY <1>1, HexValue
  <2> QED BY <2>1, FourDigits
<1> HIDE DEF uval, kept
<1>3. CodePoint(pair)
  BY <1>2, TwoHalves
<1> HIDE DEF pair
<1>4. decode_unicode_char(p)
          \in {Fail(cut, "UNICODE_MISSING_LOW_SURROGATE"),
               [p EXCEPT !.buffer = kept \o UTF8Bytes(pair), !.unicode_multi = 0],
               Fail(cut, "UNICODE_UNEXPECTED_LOW_SURROGATE"),
               [cut EXCEPT !.unicode_multi = uval],
               [p EXCEPT !.buffer = kept \o UTF8Bytes(uval)]}
  BY SMT DEF decode_unicode_char, FourValue, PairValue, kept, uval, pair
<1>5. /\ HasFields(cut) /\ cut.buffer = kept
      /\ cut.unicode_multi = p.unicode_multi
      /\ cut.utf8_multibyte_left = p.utf8_multibyte_left
  BY DEF HasFields, Fields
<1> HIDE DEF cut
<1>6. ASSUME NEW e, e # "SUCCESS" PROVE Ok(Fail(cut, e))
  <2> DEFINE f == Fail(cut, e)
  <2>1. /\ HasFields(f) /\ f.ret = e
        /\ f.unicode_multi = cut.unicode_multi
        /\ f.utf8_multibyte_left = cut.utf8_multibyte_left
    BY <1>5 DEF Fail, HasFields, Fields
  <2> HIDE DEF f
  <2> QED BY <1>5, <1>6, <2>1 DEF f
<1>7. Ok([cut EXCEPT !.unicode_multi = uval])
  <2> DEFINE f == [cut EXCEPT !.unicode_multi = uval]
  <2>1. /\ HasFields(f) /\ f.unicode_multi = uval /\ f.buffer = cut.buffer
        /\ f.utf8_multibyte_left = cut.utf8_multibyte_left
    BY <1>5 DEF HasFields, Fields
  <2> HIDE DEF f
  <2> QED BY <1>1, <1>2, <1>5, <2>1 DEF f
<1>8. ASSUME NEW uc, CodePoint(uc)
      PROVE  /\ Ok([p EXCEPT !.buffer = kept \o UTF8Bytes(uc), !.unicode_multi = 0])
             /\ Ok([p EXCEPT !.buffer = kept \o UTF8Bytes(uc)])
  <2> DEFINE w == kept \o UTF8Bytes(uc)
             f == [p EXCEPT !.buffer = w, !.unicode_multi = 0]
             g == [p EXCEPT !.buffer = w]
  <2>1. BytesLeft(w, 0)
    BY <1>1, <1>8, LeftCharacter
  <2> HIDE DEF w
  <2>2. /\ HasFields(f) /\ f.unicode_multi = 0 /\ f.buffer = w
        /\ f.utf8_multibyte_left = p.utf8_multibyte_left
    BY DEF HasFields, Fields
  <2>3. /\ HasFields(g) /\ g.unicode_multi = p.unicode_multi /\ g.buffer = w
        /\ g.utf8_multibyte_left = p.utf8_multibyte_left
    BY DEF HasFields, Fields
  <2> HIDE DEF f, g
  <2>4. Ok(f) /\ Ok(g)
    BY <2>1, <2>2, <2>3
  <2> QED BY <2>4 DEF f, g, w
<1> HIDE DEF Ok
<1>9. Ok(decode_unicode_char(p))
  <2> DEFINE f1 == Fail(cut, "UNICODE_MISSING_LOW_SURROGATE")
             f2 == [p EXCEPT !.buffer = kept \o UTF8Bytes(pair), !.unicode_multi = 0]
             f3 == Fail(cut, "UNICODE_UNEXPECTED_LOW_SURROGATE")
             f4 == [cut EXCEPT !.unicode_multi = uval]
             f5 == [p EXCEPT !.buffer = kept \o UTF8Bytes(uval)]
  <2>1. Ok(f1) /\ Ok(f3)
    BY <1>6
  <2>2. Ok(f2)
    BY <1>3, <1>8
  <2>3. Ok(f4)
    BY <1>7
  <2>4. Ok(f5)
    BY <1>2, <1>8
  <2>5. decode_unicode_char(p) \in {f1, f2, f3, f4, f5}
    BY <1>4
  <2> HIDE DEF f1, f2, f3, f4, f5
  <2> QED BY <2>1, <2>2, <2>3, <2>4, <2>5
<1> QED BY <1>9 DEF Ok

-----------------------------------------------------------------------------
(* One byte of a text *)

(* What is kept of a byte, by the policy. *)
KeptOf(policy, b, ch) ==
    CASE policy = "append" -> Append(b, ch)
      [] policy = "escape" -> Append(b, Escape(ch))
      [] OTHER             -> b

(* The byte of a class is of ASCII, and no character is left open by it.   *)
LEMMA AsciiRead ==
    ASSUME NEW l, NEW ch, NEW m, NEW class, ByteRead(l, ch, m, class),
           class # "OTHER"
    PROVE  /\ l = 0 /\ m = 0 /\ ch \in 0..127 /\ LeftAfter(0, ch) = 0
           /\ class = character_class(ch)
BY DEF ByteRead

(* No bytes are whole characters. *)
LEMMA EmptyText == BytesLeft(<<>>, 0)
<1>1. <<>> \in Seq(0..255)
  OBVIOUS
<1> QED BY <1>1, LeftNone DEF BytesLeft

(* A byte of ASCII after whole characters. *)
LEMMA AsciiAppend ==
    ASSUME NEW b, BytesLeft(b, 0), NEW c \in 0..127
    PROVE  BytesLeft(Append(b, c), 0)
<1>1. c \in 0..255 /\ LeftAfter(0, c) = 0
  BY LeftAscii
<1> QED BY <1>1, BytesAppend

(* From a state of a string to the next (json.c 257-1559, 1862-1912).      *)
LEMMA StringMove ==
    ASSUME NEW s, NEW b, NEW l, NEW ch, NEW m, NEW class,
           ByteRead(l, ch, m, class), NEW cs, class \in cs,
           NEW n \in StringStates \cup {"UC", "SE"}, TextMove(s, cs, n),
           s \in StringStates => StringText(s, b, l),
           s \in BlankStates => b = <<>>
    PROVE  LET c == KeptOf(buffer_policy_table(s, class), b, ch)
           IN  /\ n \in StringStates => StringText(n, c, m)
               /\ n = "SE" => BytesLeft(c, 0)
               /\ n \in {"SE", "UC"} => m = 0
               /\ n = "UC" => BytesLeft(c, 0) /\ HexEnd(c, 4)
<1> DEFINE policy == buffer_policy_table(s, class)
           c      == KeptOf(policy, b, ch)
           Goal   == /\ n \in StringStates => StringText(n, c, m)
                     /\ n = "SE" => BytesLeft(c, 0)
                     /\ n \in {"SE", "UC"} => m = 0
                     /\ n = "UC" => BytesLeft(c, 0) /\ HexEnd(c, 4)
<1> SUFFICES Goal
  OBVIOUS
<1>p. /\ policy = "append" => c = Append(b, ch)
      /\ policy = "escape" => c = Append(b, Escape(ch))
      /\ policy = "ignore" => c = b
  BY DEF KeptOf
<1> HIDE DEF c, policy
<1>a. class # "OTHER" => /\ l = 0 /\ m = 0 /\ ch \in 0..127 /\ LeftAfter(0, ch) = 0
                         /\ class = character_class(ch)
  BY AsciiRead
<1>s. s \in StringStates => BytesLeft(b, l)
  BY DEF StringText
<1>1. CASE n = "_S"
  <2>1. BytesLeft(c, m)
    <3>1. CASE s \in BlankStates /\ cs = {"QUOTE"}
      <4>1. class = "QUOTE"
        BY <3>1
      <4>2. s \notin StringStates \cup NumberStates /\ class \notin {"MINUS"} \cup Digits
        BY <3>1, <4>1, Kinds DEF Digits
      <4>3. policy = "ignore"
        BY <4>2, Ignored DEF policy
      <4>4. c = <<>> /\ m = 0
        BY <1>p, <1>a, <3>1, <4>1, <4>3
      <4> QED BY <4>4, EmptyText
    <3>2. CASE s = "_S" /\ cs = Classes \ {"NL", "WHITE", "QUOTE", "BACKS"}
      <4>1. policy = "append"
        BY <3>2, TextKept DEF policy
      <4>2. BytesLeft(b, l) /\ ch \in 0..255 /\ LeftAfter(l, ch) = m
        BY <1>s, <3>2 DEF StringStates, ByteRead
      <4>3. BytesLeft(Append(b, ch), m)
        BY <4>2, BytesAppend
      <4> QED BY <1>p, <4>1, <4>3
    <3>3. CASE s = "E0" /\ cs = Escaped
      <4>1. policy = "escape"
        BY <3>3, TextKept DEF policy
      <4>2. class # "OTHER"
        BY <3>3 DEF Escaped
      <4>3. BytesLeft(b, 0) /\ m = 0
        BY <1>a, <1>s, <3>3, <4>2 DEF StringStates
      <4>4. Escape(ch) \in 0..127
        BY <1>a, <4>2, EscapeAscii
      <4>5. BytesLeft(Append(b, Escape(ch)), 0)
        BY <4>3, <4>4, AsciiAppend
      <4> QED BY <1>p, <4>1, <4>3, <4>5
    <3> QED BY <1>1, <3>1, <3>2, <3>3 DEF TextMove
  <2> QED BY <1>1, <2>1 DEF StringText
<1>2. CASE n \in {"E0", "D2", "U1"}
  <2>1. /\ s \in {"_S", "D1", "E0", "D2"} /\ class # "OTHER"
        /\ policy = "ignore"
    BY <1>2, TextKept DEF TextMove, policy
  <2>2. BytesLeft(b, 0) /\ m = 0 /\ c = b
    BY <1>p, <1>a, <1>s, <2>1 DEF StringStates
  <2> QED BY <1>2, <2>2 DEF StringText
<1>3. CASE n \in {"U2", "U3", "U4", "UC"}
  <2>1. s \in {"U1", "U2", "U3", "U4"} /\ cs = Hex /\ s \in StringStates
    BY <1>3 DEF TextMove, StringStates
  <2>2. class \in Hex /\ class # "OTHER"
    BY <2>1 DEF Hex, Digits
  <2>3. policy = "append"
    BY <2>1, <2>2, HexKept DEF policy
  <2>4. HexByte(ch) /\ ch \in 0..127 /\ l = 0 /\ m = 0
    <3>1. l = 0 /\ m = 0 /\ ch \in 0..127 /\ class = character_class(ch)
      BY <1>a, <2>2
    <3>2. character_class(ch) \in Hex => HexByte(ch)
      BY <3>1, ClassBytes
    <3> QED BY <2>2, <3>1, <3>2
  <2>5. BytesLeft(b, 0) /\ IsSeq(b)
    BY <1>s, <2>1, <2>4, Member DEF BytesLeft
  <2>6. BytesLeft(c, 0) /\ c = Append(b, ch)
    BY <1>p, <2>3, <2>4, <2>5, AsciiAppend
  <2>7. CASE n = "U2"
    <3>1. HexEnd(c, 0 + 1)
      BY <2>4, <2>5, <2>6, HexNone, HexAppend
    <3> QED BY <2>4, <2>6, <2>7, <3>1 DEF StringText
  <2>8. CASE n = "U3"
    <3>1. s = "U2" /\ HexEnd(b, 1)
      BY <2>1, <2>8 DEF TextMove, StringText
    <3>2. HexEnd(c, 1 + 1)
      BY <2>4, <2>5, <2>6, <3>1, HexAppend
    <3> QED BY <2>4, <2>6, <2>8, <3>2 DEF StringText
  <2>9. CASE n = "U4"
    <3>1. s = "U3" /\ HexEnd(b, 2)
      BY <2>1, <2>9 DEF TextMove, StringText
    <3>2. HexEnd(c, 2 + 1)
      BY <2>4, <2>5, <2>6, <3>1, HexAppend
    <3> QED BY <2>4, <2>6, <2>9, <3>2 DEF StringText
  <2>10. CASE n = "UC"
    <3>1. s = "U4" /\ HexEnd(b, 3)
      BY <2>1, <2>10 DEF TextMove, StringText
    <3>2. HexEnd(c, 3 + 1)
      BY <2>4, <2>5, <2>6, <3>1, HexAppend
    <3>3. n \notin StringStates
      BY <2>10 DEF StringStates
    <3> QED BY <2>4, <2>6, <2>10, <3>2, <3>3
  <2> QED BY <1>3, <2>7, <2>8, <2>9, <2>10
<1>4. CASE n = "SE"
  <2>1. s = "_S" /\ class = "QUOTE" /\ class # "OTHER"
    BY <1>4 DEF TextMove
  <2>2. policy = "ignore"
    BY <2>1, TextKept DEF policy
  <2>3. c = b /\ BytesLeft(b, 0) /\ m = 0
    BY <1>p, <1>a, <1>s, <2>1, <2>2 DEF StringStates
  <2>4. n \notin StringStates
    BY <1>4 DEF StringStates
  <2> QED BY <1>4, <2>3, <2>4
<1>5. n # "D1"
  BY DEF TextMove
<1> QED BY <1>1, <1>2, <1>3, <1>4, <1>5 DEF StringStates

(* The state a move leads to, be it by an action. *)
Entered(n) ==
    CASE n = "MX" -> "M0" [] n = "ZX" -> "Z0" [] n = "IX" -> "I0"
      [] n = "DF" -> "R1" [] n = "DE" -> "X1" [] OTHER -> n

NumberStarts == {"MX", "ZX", "IX", "DF", "DE"}

(* What the actions of a number leave (json.c 2041-2059).                  *)
LEMMA NumberActions ==
    \A n \in NumberStarts :
        /\ n \in DOMAIN ActionState /\ n \in DOMAIN ActionType
        /\ ActionState[n] = Entered(n) /\ Entered(n) \in NumberStates
        /\ ActionType[n] = NumberType(Entered(n))
        /\ n \notin DoBuffer /\ n \in Actions
BY DEF NumberStarts, ActionState, ActionType, Entered, NumberStates, NumberType,
       DoBuffer, Actions

(* The class of a byte of a number, and its value. *)
NumberByte(class, ch) ==
    /\ class = "MINUS" => ch = 45
    /\ class = "PLUS" => ch = 43
    /\ class = "DOT" => ch = 46
    /\ class = "ZERO" => ch = 48
    /\ class = "DIGIT" => ch \in 49..57
    /\ class \in Digits => ch \in 48..57
    /\ class \in {"e", "E"} => ch \in {69, 101}

(* The class of a byte read says its value. *)
LEMMA NumberBytes ==
    ASSUME NEW l, NEW ch, NEW m, NEW class, ByteRead(l, ch, m, class),
           class # "OTHER"
    PROVE  NumberByte(class, ch)
<1>1. ch \in 0..127 /\ class = character_class(ch)
  BY AsciiRead
<1>2. LET c == character_class(ch)
      IN  /\ c = "ZERO" => ch = 48
          /\ c = "DIGIT" => ch \in 49..57
          /\ c \in Digits => ch \in 48..57
          /\ c = "MINUS" => ch = 45
          /\ c = "PLUS" => ch = 43
          /\ c = "DOT" => ch = 46
          /\ c \in {"e", "E"} => ch \in {69, 101}
  BY <1>1, ClassBytes
<1> QED BY <1>1, <1>2 DEF NumberByte

(* Only from a number is there a move to one, and the type is then the     *)
(* same.                                                                   *)
LEMMA NumberStays ==
    ASSUME NEW s, NEW cs, NEW n \in NumberStates, TextMove(s, cs, n)
    PROVE  /\ s \in NumberStates /\ Entered(n) = n
           /\ NumberType(n) = NumberType(s)
BY DEF TextMove, NumberStates, Entered, NumberType

(* From a state of a number to the next (json.c 257-1559).                 *)
LEMMA NumberMove ==
    ASSUME NEW s, NEW b, NEW l, NEW ch, NEW m, NEW class,
           ByteRead(l, ch, m, class), NEW cs, class \in cs,
           NEW n \in NumberStates \cup NumberStarts, TextMove(s, cs, n),
           s \in NumberStates => NumberText(s, b),
           s \in {"_V", "_A"} => b = <<>>
    PROVE  /\ buffer_policy_table(s, class) = "append"
           /\ NumberText(Entered(n), Append(b, ch))
<1> DEFINE t == Append(b, ch)
           k == Len(b)
           Goal == /\ buffer_policy_table(s, class) = "append"
                   /\ NumberText(Entered(n), t)
<1> SUFFICES Goal
  OBVIOUS
<1>a. class # "OTHER" => NumberByte(class, ch)
  BY NumberBytes
<1>s. s \in NumberStates => /\ Longer(b, t, k, ch) /\ IsSeq(t) /\ Len(t) = k + 1
                           /\ NumberForm(s, b, k)
  BY LongerAppend DEF NumberText
<1>b. s \in {"_V", "_A"} => t[1] = ch /\ Len(t) = 1 /\ IsSeq(t)
  <2> SUFFICES ASSUME b = <<>> PROVE t[1] = ch /\ Len(t) = 1 /\ IsSeq(t)
    OBVIOUS
  <2>1. Longer(b, t, 0, ch) /\ IsSeq(t) /\ Len(t) = 0 + 1
    BY NoElements, LongerAppend
  <2> QED BY <2>1 DEF Longer
<1> HIDE DEF t, k
<1>1. CASE n \in {"MX", "ZX", "IX"}
  <2>1. /\ s \in {"_V", "_A"} /\ class \in {"MINUS", "ZERO", "DIGIT"}
        /\ n = "MX" => class = "MINUS"
        /\ n = "ZX" => class = "ZERO"
        /\ n = "IX" => class = "DIGIT"
    BY <1>1 DEF TextMove
  <2>2. buffer_policy_table(s, class) = "append"
    BY <2>1, TextKept
  <2>3. NumberByte(class, ch)
    BY <1>a, <2>1
  <2>4. NumberForm(Entered(n), t, 1)
    <3>1. /\ ch = 45 => NumberForm("M0", t, 1)
          /\ ch = 48 => NumberForm("Z0", t, 1)
          /\ ch \in 49..57 => NumberForm("I0", t, 1)
      BY <1>b, <2>1, NumberBegins
    <3> QED BY <1>1, <2>1, <2>3, <3>1 DEF NumberByte, Entered
  <2> QED BY <1>b, <2>1, <2>2, <2>4 DEF NumberText
<1>n. ASSUME s \in NumberStates, buffer_policy_table(s, class) = "append",
             NumberForm(Entered(n), t, k + 1)
      PROVE  Goal
  BY <1>s, <1>n DEF NumberText
<1>2. CASE n \in {"Z0", "I0"}
  <2>1. s \in {"M0", "I0"} /\ class \in Digits
    BY <1>2 DEF TextMove, Digits
  <2>2. buffer_policy_table(s, class) = "append"
    BY <2>1, TextKept
  <2>3. NumberByte(class, ch) /\ ch \in 48..57 /\ s \in NumberStates
    BY <1>a, <2>1 DEF Digits, NumberByte, NumberStates
  <2>4. NumberForm(n, t, k + 1)
    <3>1. CASE s = "M0"
      <4>1. n = "Z0" => class = "ZERO"
        BY <3>1 DEF TextMove
      <4>2. n = "I0" => class = "DIGIT"
        BY <3>1 DEF TextMove
      <4>3. /\ ch = 48 => NumberForm("Z0", t, k + 1)
            /\ ch \in 49..57 => NumberForm("I0", t, k + 1)
        BY <1>s, <2>3, <3>1, DigitAfterSign
      <4> QED BY <1>2, <2>3, <4>1, <4>2, <4>3 DEF NumberByte
    <3>2. CASE s = "I0"
      <4>1. n = "I0"
        BY <1>2, <3>2 DEF TextMove
      <4> QED BY <1>s, <2>3, <3>2, <4>1, DigitInInteger
    <3> QED BY <2>1, <3>1, <3>2
  <2>5. Entered(n) = n
    BY <1>2 DEF Entered
  <2> QED BY <1>n, <2>2, <2>3, <2>4, <2>5
<1>3. CASE n = "DF"
  <2>1. s \in {"Z0", "I0"} /\ class = "DOT"
    BY <1>3 DEF TextMove
  <2>2. buffer_policy_table(s, class) = "append"
    BY <2>1, TextKept
  <2>3. ch = 46 /\ s \in NumberStates
    BY <1>a, <2>1 DEF NumberByte, NumberStates
  <2>4. NumberForm("R1", t, k + 1)
    BY <1>s, <2>1, <2>3, PointAfterInteger
  <2>5. Entered(n) = "R1"
    BY <1>3 DEF Entered
  <2> QED BY <1>n, <2>2, <2>3, <2>4, <2>5
<1>4. CASE n \in {"DE", "X1"}
  <2>1. s \in {"I0", "R2"} /\ class \in {"e", "E"}
    BY <1>4 DEF TextMove
  <2>2. buffer_policy_table(s, class) = "append"
    BY <2>1, TextKept
  <2>3. ch \in {69, 101} /\ s \in NumberStates
    BY <1>a, <2>1 DEF NumberByte, NumberStates
  <2>4. NumberForm("X1", t, k + 1)
    BY <1>s, <2>1, <2>3, ExponentBegins
  <2>5. Entered(n) = "X1"
    BY <1>4 DEF Entered
  <2> QED BY <1>n, <2>2, <2>3, <2>4, <2>5
<1>5. CASE n = "R2"
  <2>1. s \in {"R1", "R2"} /\ class \in Digits
    BY <1>5 DEF TextMove
  <2>2. buffer_policy_table(s, class) = "append"
    BY <2>1, TextKept
  <2>3. ch \in 48..57 /\ s \in NumberStates
    BY <1>a, <2>1 DEF NumberByte, NumberStates, Digits
  <2>4. NumberForm("R2", t, k + 1)
    BY <1>s, <2>1, <2>3, DigitInFraction
  <2>5. Entered(n) = "R2"
    BY <1>5 DEF Entered
  <2> QED BY <1>n, <2>2, <2>3, <2>4, <2>5
<1>6. CASE n = "X2"
  <2>1. s = "X1" /\ class \in {"PLUS", "MINUS"}
    BY <1>6 DEF TextMove
  <2>2. buffer_policy_table(s, class) = "append"
    BY <2>1, TextKept
  <2>3. ch \in {43, 45} /\ s \in NumberStates
    BY <1>a, <2>1 DEF NumberByte, NumberStates
  <2>4. NumberForm("X2", t, k + 1)
    BY <1>s, <2>1, <2>3, ExponentSign
  <2>5. Entered(n) = "X2"
    BY <1>6 DEF Entered
  <2> QED BY <1>n, <2>2, <2>3, <2>4, <2>5
<1>7. CASE n = "X3"
  <2>1. s \in {"X1", "X2", "X3"} /\ class \in Digits
    BY <1>7 DEF TextMove
  <2>2. buffer_policy_table(s, class) = "append"
    BY <2>1, TextKept
  <2>3. ch \in 48..57 /\ s \in NumberStates
    BY <1>a, <2>1 DEF NumberByte, NumberStates, Digits
  <2>4. NumberForm("X3", t, k + 1)
    BY <1>s, <2>1, <2>3, DigitInExponent
  <2>5. Entered(n) = "X3"
    BY <1>7 DEF Entered
  <2> QED BY <1>n, <2>2, <2>3, <2>4, <2>5
<1>8. n \notin {"M0", "R1"}
  BY DEF TextMove
<1> HIDE DEF Goal
<1> QED BY <1>1, <1>2, <1>3, <1>4, <1>5, <1>6, <1>7, <1>8 DEF NumberStates, NumberStarts

-----------------------------------------------------------------------------
(* Texts, byte by byte *)

(* The calls after those before: no more, or one of a structure. *)
Gives(before, after) ==
    \/ after = before
    \/ \E type \in Marks : after = Append(before, Event(type, <<>>))

(* What is called for an action gives no text, but for the end of a string *)
(* (json.c 1954-2037).                                                     *)
LEMMA CalledGives ==
    ASSUME NEW p, HasFields(p), p.ret = "SUCCESS", NEW a \in Actions \ {"SE"}
    PROVE  Gives(p.calls, Called(p, a).calls)
<1> DEFINE Ok(q) == Gives(p.calls, q.calls)
<1>f. \A q, e : HasFields(q) => Fail(q, e).calls = q.calls
  BY FailDoc DEF SameDoc
<1>c. \A q : q.calls = p.calls => Ok(q)
  BY DEF Gives
<1>1. CASE a = "SP"
  <2> DEFINE k == [p EXCEPT !.expecting_key = TRUE, !.state = "_K"]
             v == [p EXCEPT !.state = "_V"]
  <2>1. Called(p, a) \in {Fail(p, "COMMA_OUT_OF_STRUCTURE"), k, v}
    BY <1>1, SMT DEF Called, act_sp
  <2>2. k.calls = p.calls /\ v.calls = p.calls
    BY DEF HasFields, Fields
  <2>3. Fail(p, "COMMA_OUT_OF_STRUCTURE").calls = p.calls
    BY <1>f
  <2> HIDE DEF k, v, Ok
  <2> QED BY <2>1, <2>2, <2>3, <1>c DEF Ok
<1>2. CASE a \in {"AB", "OB"}
  <2> DEFINE type == IF a = "AB" THEN "ARRAY_BEGIN" ELSE "OBJECT_BEGIN"
             mode == IF a = "AB" THEN "ARRAY" ELSE "OBJECT"
             c == do_callback(p, type)
             q == state_push(c, mode)
             r == [q EXCEPT !.expecting_key = TRUE]
  <2>a. IF a = "AB" THEN type = "ARRAY_BEGIN" /\ mode = "ARRAY"
        ELSE type = "OBJECT_BEGIN" /\ mode = "OBJECT"
    OBVIOUS
  <2> HIDE DEF type, mode
  <2>1. Called(p, a) \in {q, r}
    <3>1. CASE a = "AB"
      BY <2>a, <3>1, Zenon DEF Called, act_ab
    <3>2. CASE a = "OB"
      <4>1. Called(p, a) = IF q.ret # "SUCCESS" THEN q ELSE r
        BY <2>a, <3>2, Zenon DEF Called, act_ob
      <4> QED BY <4>1
    <3> QED BY <1>2, <3>1, <3>2
  <2>2. HasFields(c) /\ c.calls = Append(p.calls, Event(type, <<>>))
    BY CallbackTells
  <2> HIDE DEF c
  <2>3. HasFields(q) /\ q.calls = c.calls
    BY <2>2, PushDoc
  <2> HIDE DEF q
  <2>4. r.calls = q.calls
    BY <2>3 DEF HasFields, Fields
  <2> HIDE DEF r
  <2>5. type \in Marks
    BY <2>a DEF Marks
  <2> QED BY <2>1, <2>2, <2>3, <2>4, <2>5 DEF Gives
<1>3. CASE a \in {"AE", "OE"}
  <2> DEFINE type == IF a = "AE" THEN "ARRAY_END" ELSE "OBJECT_END"
             mode == IF a = "AE" THEN "ARRAY" ELSE "OBJECT"
             q == state_pop(p, mode)
             c == do_callback(q, type)
             r == [c EXCEPT !.expecting_key = FALSE]
  <2>a. IF a = "AE" THEN type = "ARRAY_END" /\ mode = "ARRAY"
        ELSE type = "OBJECT_END" /\ mode = "OBJECT"
    OBVIOUS
  <2> HIDE DEF type, mode
  <2>1. Called(p, a) \in {q, c, r}
    <3>1. CASE a = "AE"
      <4>1. Called(p, a) = IF q.ret # "SUCCESS" THEN q ELSE c
        BY <2>a, <3>1, Zenon DEF Called, act_ae
      <4> QED BY <4>1
    <3>2. CASE a = "OE"
      <4>1. Called(p, a) = IF q.ret # "SUCCESS" THEN q ELSE r
        BY <2>a, <3>2, Zenon DEF Called, act_oe
      <4> QED BY <4>1
    <3> QED BY <1>3, <3>1, <3>2
  <2>2. HasFields(q) /\ q.calls = p.calls
    BY PopDoc
  <2> HIDE DEF q
  <2>3. HasFields(c) /\ c.calls = Append(p.calls, Event(type, <<>>))
    BY <2>2, CallbackTells
  <2> HIDE DEF c
  <2>4. r.calls = c.calls
    BY <2>3 DEF HasFields, Fields
  <2> HIDE DEF r
  <2>5. type \in Marks
    BY <2>a DEF Marks
  <2> QED BY <2>1, <2>2, <2>3, <2>4, <2>5 DEF Gives
<1>4. CASE a \in {"CB", "YB"}
  <2> DEFINE r == [p EXCEPT !.save_state = p.state]
  <2>1. Called(p, a) \in {Fail(p, "COMMENT_NOT_ALLOWED"), r}
    BY <1>4, SMT DEF Called, act_comment
  <2>2. r.calls = p.calls
    BY DEF HasFields, Fields
  <2>3. Fail(p, "COMMENT_NOT_ALLOWED").calls = p.calls
    BY <1>f
  <2> HIDE DEF r, Ok
  <2> QED BY <2>1, <2>2, <2>3, <1>c DEF Ok
<1>5. CASE a = "CE"
  <2>1. PICK s : Called(p, a) = [p EXCEPT !.state = s]
    BY <1>5, Zenon DEF Called, act_ce
  <2>2. [p EXCEPT !.state = s].calls = p.calls
    BY DEF HasFields, Fields
  <2> QED BY <2>1, <2>2 DEF Gives
<1>6. CASE a = "UC"
  <2> DEFINE d == decode_unicode_char(p)
             r == [d EXCEPT !.state = IF d.unicode_multi # 0 THEN "D1" ELSE "_S"]
  <2>1. Called(p, a) = IF d.ret # "SUCCESS" THEN d ELSE r
    BY <1>6, Zenon DEF Called, act_uc
  <2>2. HasFields(d) /\ d.calls = p.calls
    BY DecodeDoc DEF SameDoc
  <2> HIDE DEF d
  <2>3. r.calls = d.calls
    BY <2>2 DEF HasFields, Fields
  <2> HIDE DEF r
  <2> QED BY <2>1, <2>2, <2>3 DEF Gives
<1>7. CASE a \in {"KS", "FA", "TR", "NU", "DE", "DF", "MX", "ZX", "IX"}
  <2>1. Called(p, a) = p
    BY <1>7, Zenon DEF Called
  <2> QED BY <2>1 DEF Gives
<1>8. a \in {"SP", "AB", "AE", "OB", "OE", "CB", "YB", "CE", "UC", "KS", "FA",
             "TR", "NU", "DE", "DF", "MX", "ZX", "IX"}
  BY DEF Actions
<1> QED BY <1>1, <1>2, <1>3, <1>4, <1>5, <1>6, <1>7, <1>8

(* Such calls stay fine. *)
LEMMA GivesFine ==
    ASSUME NEW before, CallsFine(before), NEW after, Gives(before, after)
    PROVE  CallsFine(after)
<1>1. CASE after = before
  BY <1>1
<1>2. CASE \E type \in Marks : after = Append(before, Event(type, <<>>))
  BY <1>2, MarkFine, CallFine
<1> QED BY <1>1, <1>2 DEF Gives

(* An error gives nothing to the callback.                                 *)
LEMMA FailTyped ==
    ASSUME NEW p, Typed(p), NEW e, e # "SUCCESS"
    PROVE  TextInv(Fail(p, e))
<1> DEFINE f == Fail(p, e)
<1>1. HasFields(f) /\ f.calls = p.calls /\ f.unicode_multi = p.unicode_multi
      /\ f.ret = e
  BY DEF Fail, Typed, HasFields, Fields
<1> HIDE DEF f
<1> QED BY <1>1 DEF TextInv, Typed, f

(* Between two texts there is nothing more to say. *)
LEMMA BetweenInv ==
    ASSUME NEW p, Typed(p), p.utf8_multibyte_left \in 0..5,
           p.ret = "SUCCESS" => Between(p)
    PROVE  TextInv(p)
BY BetweenText DEF TextInv

(* What an action called had typed stays so.                               *)
LEMMA ActionTyped ==
    ASSUME NEW p, NEW a,
           Typed(Called(IF a \in DoBuffer THEN do_buffer(p) ELSE p, a))
    PROVE  LET c == Called(IF a \in DoBuffer THEN do_buffer(p) ELSE p, a)
               d == do_action(p, a)
           IN  /\ Typed(d) /\ d.buffer = c.buffer
               /\ d.utf8_multibyte_left = c.utf8_multibyte_left
               /\ d.unicode_multi = c.unicode_multi
               /\ d.ret = "SUCCESS" => c.ret = "SUCCESS"
               /\ c.ret = "SUCCESS" =>
                     /\ d.state = IF a \in DOMAIN ActionState
                                  THEN ActionState[a] ELSE c.state
                     /\ d.type = IF a \in DOMAIN ActionType
                                 THEN ActionType[a] ELSE "NONE"
<1> DEFINE c == Called(IF a \in DoBuffer THEN do_buffer(p) ELSE p, a)
           d == do_action(p, a)
<1>1. HasFields(c)
  BY DEF Typed
<1>2. SameText(c, d)
  BY <1>1, ActionText
<1>3. /\ c.ret # "SUCCESS" => d = c
      /\ c.ret = "SUCCESS" =>
            /\ d.calls = c.calls
            /\ d.state = IF a \in DOMAIN ActionState THEN ActionState[a] ELSE c.state
            /\ d.type = IF a \in DOMAIN ActionType THEN ActionType[a] ELSE "NONE"
  BY <1>1, ActionForm
<1>4. Typed(c)
  OBVIOUS
<1> HIDE DEF c, d
<1>5. Typed(d)
  BY <1>2, <1>3, <1>4 DEF SameText, Typed
<1> QED BY <1>2, <1>3, <1>5 DEF SameText, c, d

(* A parser whose text is as its state says, before the byte ch. *)
Readable(p, l, ch, class) ==
    /\ NestInv(p) /\ Emptied(p) /\ Typed(p) /\ p.ret = "SUCCESS"
    /\ TextIn(p.state, p.type, p.buffer, l)
    /\ ByteRead(l, ch, p.utf8_multibyte_left, class)

(* What keeping the byte leaves. *)
Took(p, q, ch, class) ==
    /\ Typed(q)
    /\ q.utf8_multibyte_left = p.utf8_multibyte_left
    /\ q.type = p.type /\ q.expecting_key = p.expecting_key
    /\ q.ret = "SUCCESS" =>
          /\ q.state = p.state
          /\ q.buffer = KeptOf(buffer_policy_table(p.state, class), p.buffer, ch)
    /\ buffer_policy_table(p.state, class) = "ignore" => q = p

(* Keeping a byte is no more than that. *)
LEMMA TookKept ==
    ASSUME NEW p, Typed(p), NEW ch, NEW class
    PROVE  Took(p, Kept(p, ch, class), ch, class)
<1> DEFINE q == Kept(p, ch, class)
           policy == buffer_policy_table(p.state, class)
<1>1. HasFields(p)
  BY DEF Typed
<1>2. /\ SameDoc(p, q) /\ (q.ret = "SUCCESS" => q.state = p.state)
  BY <1>1, KeptDoc
<1>3. /\ policy = "append" => KeptForm(p, q, Append(p.buffer, ch))
      /\ policy = "escape" => KeptForm(p, q, Append(p.buffer, Escape(ch)))
      /\ policy = "ignore" => q = p /\ KeptForm(p, q, p.buffer)
      /\ HasFields(q) /\ q.unicode_multi = p.unicode_multi
      /\ q.utf8_multibyte_left = p.utf8_multibyte_left
  BY <1>1, KeptText
<1>4. policy \in {"append", "escape", "ignore"}
  BY DEF buffer_policy_table
<1>5. KeptForm(p, q, KeptOf(policy, p.buffer, ch))
  <2> HIDE DEF q, policy
  <2> QED BY <1>3, <1>4 DEF KeptOf
<1>6. Typed(q)
  <2> HIDE DEF q
  <2> QED BY <1>2, <1>3 DEF Typed, SameDoc
<1> HIDE DEF q, policy
<1> QED BY <1>2, <1>3, <1>5, <1>6 DEF Took, SameDoc, KeptForm, q, policy

(* A move the table has, and what it says of the text.                     *)
LEMMA MoveFound ==
    ASSUME NEW s, NEW class, state_transition_table(s, class) # "__"
    PROVE  LET n == state_transition_table(s, class)
           IN  Leads(s, n) /\ \E cs : class \in cs /\ TextMove(s, cs, n)
<1> DEFINE n == state_transition_table(s, class)
<1>1. PICK m \in Table : m[1] = s /\ class \in m[2] /\ m[3] = n
  BY TableLookup
<1>2. Leads(m[1], m[3])
  BY Leading
<1>3. TextMove(m[1], m[2], m[3])
  BY TextMoves
<1> HIDE DEF n
<1>4. TextMove(s, m[2], n)
  BY <1>1, <1>3
<1> QED BY <1>1, <1>2, <1>4 DEF n

(* Outside a text nothing is waiting, and nothing is kept.                 *)
LEMMA NothingWaits ==
    ASSUME NEW p, NEW l, NEW ch, NEW class, Readable(p, l, ch, class)
    PROVE  /\ HasFields(p) /\ p.state \in States
           /\ p.state \in BlankStates \cup CommentStates => p.type = "NONE"
           /\ p.state \in BlankStates \cup LiteralStates \cup CommentStates
                  => p.buffer = <<>>
           /\ p.state = "OK" => p.type \in Scalars \cup {"NONE"}
           /\ p.state \in NumberStates =>
                 NumberText(p.state, p.buffer) /\ p.type = NumberType(p.state)
           /\ p.state = "OK" => Waits(p.type, p.buffer)
           /\ p.state \in StringStates => StringText(p.state, p.buffer, l)
<1>1. HasFields(p) /\ p.state \in States /\ Position(p, Resumed(p))
  BY DEF Readable, NestInv, Core
<1>2. p.state \in BlankStates \cup CommentStates => p.type = "NONE"
  <2>1. p.state \in BlankStates => Resumed(p) = p.state
    BY Kinds DEF Resumed
  <2> QED BY <1>1, <2>1 DEF Position
<1>3. p.state = "OK" => p.type \in Scalars \cup {"NONE"}
  <2>1. p.state = "OK" => Resumed(p) = "OK"
    BY Kinds DEF Resumed
  <2> QED BY <1>1, <2>1 DEF Position
<1>4. p.state \in BlankStates \cup LiteralStates \cup CommentStates
          => p.buffer = <<>>
  BY DEF Readable, Emptied, Between
<1>5. TextIn(p.state, p.type, p.buffer, l)
  BY DEF Readable
<1> QED BY <1>1, <1>2, <1>3, <1>4, <1>5 DEF TextIn

(* A move to a state (json.c 2167-2213).                                   *)
LEMMA PlainText ==
    ASSUME NEW p, NEW l, NEW ch, NEW class, Readable(p, l, ch, class),
           NEW n, n \notin Actions, Leads(p.state, n),
           NEW cs, class \in cs, TextMove(p.state, cs, n)
    PROVE  TextIn(n, p.type, KeptOf(buffer_policy_table(p.state, class), p.buffer, ch),
                  p.utf8_multibyte_left)
<1> DEFINE s == p.state
           b == p.buffer
           m == p.utf8_multibyte_left
           policy == buffer_policy_table(s, class)
           c == KeptOf(policy, b, ch)
           type == p.type
           Goal == TextIn(n, type, c, m)
<1> SUFFICES Goal
  OBVIOUS
<1>1. /\ s \in States
      /\ s \in BlankStates => b = <<>>
      /\ s \in NumberStates => NumberText(s, b) /\ type = NumberType(s)
      /\ s = "OK" => Waits(type, b)
      /\ s \in StringStates => StringText(s, b, l)
  BY NothingWaits
<1>2. ByteRead(l, ch, m, class) /\ TextMove(s, cs, n) /\ Leads(s, n)
  BY DEF Readable
<1>3. policy = "ignore" => c = b
  BY DEF KeptOf
<1>4. policy = "append" => c = Append(b, ch)
  BY DEF KeptOf
<1> HIDE DEF s, b, m, type
<1>5. CASE n \in StringStates
  <2>1. StringText(n, c, m)
    BY <1>1, <1>2, <1>5, StringMove
  <2>2. n \notin NumberStates \cup {"OK"}
    BY <1>5, Kinds
  <2> QED BY <1>5, <2>1, <2>2 DEF TextIn
<1>6. CASE n \in NumberStates
  <2>1. s \in {"_V", "_A"} => b = <<>>
    BY <1>1 DEF BlankStates
  <2>2. /\ policy = "append" /\ NumberText(Entered(n), Append(b, ch))
        /\ s \in NumberStates /\ Entered(n) = n /\ NumberType(n) = NumberType(s)
    <3>1. n \in NumberStates \cup NumberStarts
      BY <1>6
    <3>2. /\ buffer_policy_table(s, class) = "append"
          /\ NumberText(Entered(n), Append(b, ch))
      <4>1. /\ s \in NumberStates => NumberText(s, b)
            /\ s \in {"_V", "_A"} => b = <<>>
        BY <1>1, <2>1
      <4>2. ByteRead(l, ch, m, class) /\ TextMove(s, cs, n)
        BY <1>2
      <4>3. buffer_policy_table(s, class) = "append"
        BY <3>1, <4>1, <4>2, NumberMove, Zenon
      <4>4. NumberText(Entered(n), Append(b, ch))
        BY <3>1, <4>1, <4>2, NumberMove, Zenon
      <4> QED BY <4>3, <4>4
    <3>3. s \in NumberStates /\ Entered(n) = n /\ NumberType(n) = NumberType(s)
      BY <1>2, <1>6, NumberStays
    <3> QED BY <3>2, <3>3
  <2>3. NumberText(n, c) /\ type = NumberType(n)
    BY <1>1, <1>4, <2>2
  <2>4. n \notin StringStates \cup {"OK"}
    BY <1>6, Kinds
  <2> QED BY <1>6, <2>3, <2>4 DEF TextIn
<1>7. CASE n = "OK"
  <2>1. s \in {"OK", "Z0", "I0", "R2", "X3"} /\ class \in Blanked
    BY <1>2, <1>7 DEF TextMove, Blanked
  <2>2. c = b
    BY <1>3, <2>1, TextKept
  <2>3. Waits(type, b)
    <3>1. CASE s = "OK"
      BY <1>1, <3>1
    <3>2. CASE s \in {"Z0", "I0", "R2", "X3"}
      <4>1. s \in NumberStates
        BY <3>2 DEF NumberStates
      <4> QED BY <1>1, <3>2, <4>1, NumberWaits
    <3> QED BY <2>1, <3>1, <3>2
  <2>4. n \notin StringStates \cup NumberStates
    BY <1>7, Kinds
  <2> QED BY <2>2, <2>3, <2>4 DEF TextIn
<1>8. CASE n \notin StringStates \cup NumberStates \cup {"OK"}
  BY <1>8 DEF TextIn
<1> HIDE DEF Goal
<1> QED BY <1>5, <1>6, <1>7, <1>8

(* An action that first gives the waiting text to the callback (json.c     *)
(* 1845-1860, 1961-2030).                                                  *)
LEMMA FlushedText ==
    ASSUME NEW p, NEW l, NEW ch, NEW class, Readable(p, l, ch, class),
           NEW n \in DoBuffer, Leads(p.state, n),
           NEW cs, class \in cs, TextMove(p.state, cs, n)
    PROVE  /\ buffer_policy_table(p.state, class) = "ignore"
           /\ TextInv(do_action(p, n))
<1> DEFINE s == p.state
           b == do_buffer(p)
           c == Called(b, n)
           d == do_action(p, n)
<1>1. /\ HasFields(p) /\ Typed(p) /\ p.ret = "SUCCESS"
      /\ p.utf8_multibyte_left \in 0..5
  BY NothingWaits DEF Readable, ByteRead
<1>2. class \in Blanked /\ s \in BlankStates \cup {"OK", "Z0", "I0", "R2", "X3"}
  BY DEF TextMove, Leads, DoBuffer, BlankStates, NumberStates
<1>3. buffer_policy_table(s, class) = "ignore"
  <2>1. CASE s \in {"OK", "Z0", "I0", "R2", "X3"}
    BY <1>2, <2>1, TextKept
  <2>2. CASE s \in BlankStates
    <3>1. s \notin StringStates \cup NumberStates
      BY <2>2, Kinds
    <3>2. class \notin {"MINUS"} \cup Digits
      BY <1>2 DEF Blanked, White, Digits
    <3> HIDE DEF s
    <3> QED BY <3>1, <3>2, Ignored
  <2> QED BY <1>2, <2>1, <2>2
<1>4. p.type \in Texts => p.type \in Scalars /\ Waits(p.type, p.buffer)
  <2>1. CASE s \in BlankStates
    <3>1. p.type = "NONE"
      BY <2>1, NothingWaits
    <3> QED BY <3>1 DEF Texts
  <2>2. CASE s = "OK"
    <3>1. p.type \in Scalars \cup {"NONE"} /\ Waits(p.type, p.buffer)
      BY <2>2, NothingWaits
    <3> QED BY <3>1 DEF Texts
  <2>3. CASE s \in {"Z0", "I0", "R2", "X3"}
    <3>1. s \in NumberStates
      BY <2>3 DEF NumberStates
    <3>2. NumberText(s, p.buffer) /\ p.type = NumberType(s)
      BY <3>1, NothingWaits
    <3>3. Waits(p.type, p.buffer)
      <4> DEFINE buffer == p.buffer
      <4> HIDE DEF s, buffer
      <4>1. Waits(NumberType(s), buffer)
        BY <2>3, <3>2, NumberWaits DEF buffer
      <4> QED BY <3>2, <4>1 DEF buffer
    <3>4. p.type \in Scalars
      BY <3>2 DEF NumberType, Scalars
    <3> QED BY <3>3, <3>4
  <2> QED BY <1>2, <2>1, <2>2, <2>3
<1>5. Typed(b) /\ b.ret = "SUCCESS" /\ b.utf8_multibyte_left = p.utf8_multibyte_left
  <2>1. /\ HasFields(b)
        /\ b.calls = IF p.type \in Texts THEN Append(p.calls, Event(p.type, p.buffer))
                     ELSE p.calls
        /\ b.ret = p.ret /\ b.utf8_multibyte_left = p.utf8_multibyte_left
        /\ b.unicode_multi = p.unicode_multi
    BY <1>1, BufferForm
  <2>2. p.type \in Texts => CallsFine(Append(p.calls, Event(p.type, p.buffer)))
    <3> SUFFICES ASSUME p.type \in Texts
                 PROVE  CallsFine(Append(p.calls, Event(p.type, p.buffer)))
      OBVIOUS
    <3>1. TextOk(Event(p.type, p.buffer))
      BY <1>4, WaitsFine
    <3> QED BY <1>1, <3>1, CallFine DEF Typed
  <2> HIDE DEF b
  <2> QED BY <1>1, <2>1, <2>2 DEF Typed
<1>6. Typed(c) /\ c.utf8_multibyte_left = p.utf8_multibyte_left
  <2>1. n \in Actions \ {"SE"} /\ n \in Actions \ {"SE", "UC"}
    BY DEF Actions, DoBuffer
  <2> HIDE DEF b
  <2>2. Gives(b.calls, c.calls)
    BY <1>5, <2>1, CalledGives DEF Typed
  <2>3. SameText(b, c)
    BY <1>5, <2>1, CalledText DEF Typed
  <2>4. CallsFine(c.calls)
    BY <1>5, <2>2, GivesFine DEF Typed
  <2> QED BY <1>5, <2>3, <2>4 DEF SameText, Typed
<1>7. /\ Typed(d) /\ d.utf8_multibyte_left = c.utf8_multibyte_left
      /\ d.ret = "SUCCESS" => c.ret = "SUCCESS"
      /\ c.ret = "SUCCESS" =>
            /\ d.state = IF n \in DOMAIN ActionState THEN ActionState[n] ELSE c.state
            /\ d.type = IF n \in DOMAIN ActionType THEN ActionType[n] ELSE "NONE"
  BY <1>6, ActionTyped
<1>8. n = "SP" /\ c.ret = "SUCCESS" => c.state \in {"_K", "_V"}
  <2> SUFFICES ASSUME n = "SP", c.ret = "SUCCESS" PROVE c.state \in {"_K", "_V"}
    OBVIOUS
  <2> DEFINE k == [b EXCEPT !.expecting_key = TRUE, !.state = "_K"]
             v == [b EXCEPT !.state = "_V"]
             f == Fail(b, "COMMA_OUT_OF_STRUCTURE")
  <2> HIDE DEF b
  <2>1. c \in {f, k, v}
    BY SMT DEF Called, act_sp
  <2>2. k.state = "_K" /\ v.state = "_V" /\ f.ret # "SUCCESS"
    BY <1>5 DEF Typed, Fail, HasFields, Fields
  <2> HIDE DEF k, v, f, c
  <2> QED BY <2>1, <2>2
<1> HIDE DEF c, d, s
<1>9. d.ret = "SUCCESS" => Between(d)
  <2> SUFFICES ASSUME c.ret = "SUCCESS" PROVE Between(d)
    BY <1>7
  <2>1. d.type = "NONE"
    BY <1>7, ActionTables DEF DoBuffer
  <2>2. CASE n = "SP"
    BY <1>7, <1>8, <2>2, ActionTables DEF Between, BlankStates
  <2>3. CASE n \in {"AE", "OE"}
    <3>1. d.state = "OK"
      BY <1>7, <2>3, ActionTables
    <3> QED BY <2>1, <3>1 DEF Between
  <2>4. CASE n \in {"CB", "YB"}
    BY <1>7, <2>4, ActionTables DEF Between
  <2> QED BY <2>2, <2>3, <2>4 DEF DoBuffer
<1>10. TextInv(d)
  BY <1>1, <1>6, <1>7, <1>9, BetweenInv
<1> QED BY <1>3, <1>10 DEF d, s

(* An action that calls nothing for a text, nor gives one away (json.c     *)
(* 1954-2037).                                                             *)
LEMMA QuietText ==
    ASSUME NEW p, NEW l, NEW ch, NEW class, Readable(p, l, ch, class),
           NEW q, Took(p, q, ch, class), q.ret = "SUCCESS",
           NEW n \in {"KS", "AB", "OB", "CE", "TR", "FA", "NU"}, Leads(p.state, n)
    PROVE  TextInv(do_action(q, n))
<1> DEFINE c == Called(q, n)
           d == do_action(q, n)
<1>1. /\ Typed(q) /\ q.utf8_multibyte_left \in 0..5
      /\ q.utf8_multibyte_left = p.utf8_multibyte_left
      /\ q.state = p.state /\ q.type = p.type
  BY DEF Readable, ByteRead, Took
<1>2. n \notin DoBuffer /\ n \in Actions \ {"SE", "UC"} /\ n \in Actions \ {"SE"}
  BY DEF DoBuffer, Actions
<1>3. Typed(c) /\ SameText(q, c)
  <2>1. Gives(q.calls, c.calls)
    BY <1>1, <1>2, CalledGives DEF Typed
  <2>2. SameText(q, c)
    BY <1>1, <1>2, CalledText DEF Typed
  <2>3. CallsFine(c.calls)
    BY <1>1, <2>1, GivesFine DEF Typed
  <2> HIDE DEF c
  <2> QED BY <1>1, <2>2, <2>3 DEF SameText, Typed
<1>4. /\ Typed(d) /\ d.utf8_multibyte_left = c.utf8_multibyte_left
      /\ d.buffer = c.buffer
      /\ d.ret = "SUCCESS" => c.ret = "SUCCESS"
      /\ c.ret = "SUCCESS" =>
            /\ d.state = IF n \in DOMAIN ActionState THEN ActionState[n] ELSE c.state
            /\ d.type = IF n \in DOMAIN ActionType THEN ActionType[n] ELSE "NONE"
  BY <1>2, <1>3, ActionTyped
<1>5. d.utf8_multibyte_left \in 0..5
  BY <1>1, <1>3, <1>4 DEF SameText
<1> HIDE DEF d
<1>6. CASE n \in {"KS", "AB", "OB"}
  <2>1. d.ret = "SUCCESS" => d.state \in BlankStates
    BY <1>4, <1>6, ActionTables DEF BlankStates
  <2> QED BY <1>4, <1>5, <2>1, BetweenInv DEF Between, d
<1>7. CASE n = "CE"
  <2>1. c = act_ce(q)
    BY <1>7, Zenon DEF Called
  <2>2. c.state \in BlankStates \cup {"OK"}
    BY <1>1, <2>1 DEF act_ce, BlankStates, Typed, HasFields, Fields
  <2> HIDE DEF c
  <2>3. d.ret = "SUCCESS" => d.state \in BlankStates \cup {"OK"} /\ d.type = "NONE"
    BY <1>4, <1>7, <2>2, ActionTables
  <2> QED BY <1>4, <1>5, <2>3, BetweenInv DEF Between, d
<1>8. CASE n \in {"TR", "FA", "NU"}
  <2>1. p.state \in LiteralStates
    BY <1>8 DEF Leads
  <2>2. buffer_policy_table(p.state, class) = "ignore"
    <3> DEFINE s == p.state
    <3>1. s \notin StringStates \cup NumberStates /\ s \notin {"_V", "_A"}
      BY <2>1, Kinds
    <3> HIDE DEF s
    <3>2. buffer_policy_table(s, class) = "ignore"
      BY <3>1, Ignored
    <3> QED BY <3>2 DEF s
  <2>3. q.buffer = <<>>
    BY <2>1, <2>2, NothingWaits DEF Took
  <2>4. d.buffer = <<>>
    BY <1>3, <1>4, <2>3 DEF SameText
  <2>5. d.ret = "SUCCESS" => /\ d.state = "OK"
                             /\ d.type \in {"TRUE", "FALSE", "NULL"}
    <3>1. /\ n \in DOMAIN ActionState /\ n \in DOMAIN ActionType
          /\ ActionState[n] = "OK" /\ ActionType[n] \in {"TRUE", "FALSE", "NULL"}
      BY <1>8 DEF ActionState, ActionType
    <3> QED BY <1>4, <3>1
  <2>6. d.ret = "SUCCESS" => TextIn(d.state, d.type, d.buffer, d.utf8_multibyte_left)
    <3>1. "OK" \notin StringStates \cup NumberStates
      BY Kinds
    <3> QED BY <2>4, <2>5, <3>1 DEF TextIn, Waits
  <2> QED BY <1>4, <1>5, <2>6 DEF TextInv, d
<1> QED BY <1>6, <1>7, <1>8 DEF d

(* An action with which a number begins or becomes a float.                *)
LEMMA StartedText ==
    ASSUME NEW p, NEW l, NEW ch, NEW class, Readable(p, l, ch, class),
           NEW q, Took(p, q, ch, class), q.ret = "SUCCESS",
           NEW n \in NumberStarts, NEW cs, class \in cs, TextMove(p.state, cs, n)
    PROVE  TextInv(do_action(q, n))
<1> DEFINE s == p.state
           b == p.buffer
           m == p.utf8_multibyte_left
           d == do_action(q, n)
<1>1. /\ Typed(q) /\ q.utf8_multibyte_left = m /\ m \in 0..5
      /\ q.buffer = KeptOf(buffer_policy_table(s, class), b, ch)
  BY DEF Readable, ByteRead, Took
<1>2. /\ s \in NumberStates => NumberText(s, b)
      /\ s \in {"_V", "_A"} => b = <<>>
  BY NothingWaits DEF BlankStates
<1>3. ByteRead(l, ch, m, class) /\ TextMove(s, cs, n)
  BY DEF Readable
<1>4. n \in NumberStates \cup NumberStarts
  OBVIOUS
<1> HIDE DEF s, b, m
<1>5. /\ buffer_policy_table(s, class) = "append"
      /\ NumberText(Entered(n), Append(b, ch))
  BY <1>2, <1>3, <1>4, NumberMove, Zenon
<1>6. NumberText(Entered(n), q.buffer)
  BY <1>1, <1>5 DEF KeptOf
<1>7. /\ n \in DOMAIN ActionState /\ n \in DOMAIN ActionType
      /\ ActionState[n] = Entered(n) /\ Entered(n) \in NumberStates
      /\ ActionType[n] = NumberType(Entered(n))
      /\ n \notin DoBuffer /\ n \in Actions
  BY NumberActions
<1>8. Called(q, n) = q
  BY Zenon DEF Called, NumberStarts
<1>9. /\ Typed(d) /\ d.utf8_multibyte_left = q.utf8_multibyte_left
      /\ d.buffer = q.buffer
      /\ d.state = Entered(n) /\ d.type = NumberType(Entered(n))
  BY <1>1, <1>7, <1>8, ActionTyped
<1> HIDE DEF d
<1>10. TextIn(d.state, d.type, d.buffer, d.utf8_multibyte_left)
  <2>1. Entered(n) \notin StringStates \cup {"OK"}
    BY <1>7, Kinds
  <2> QED BY <1>6, <1>9, <2>1 DEF TextIn
<1> QED BY <1>1, <1>9, <1>10 DEF TextInv, d

(* A character is complete, or a string.                                   *)
LEMMA EndedText ==
    ASSUME NEW p, NEW l, NEW ch, NEW class, Readable(p, l, ch, class),
           NEW q, Took(p, q, ch, class), q.ret = "SUCCESS",
           NEW n \in {"UC", "SE"}, Leads(p.state, n),
           NEW cs, class \in cs, TextMove(p.state, cs, n)
    PROVE  TextInv(do_action(q, n))
<1> DEFINE s == p.state
           b == p.buffer
           m == p.utf8_multibyte_left
           c == Called(q, n)
           d == do_action(q, n)
<1>1. /\ Typed(q) /\ q.utf8_multibyte_left = m /\ m \in 0..5
      /\ q.buffer = KeptOf(buffer_policy_table(s, class), b, ch)
  BY DEF Readable, ByteRead, Took
<1>2. /\ s \in StringStates => StringText(s, b, l)
      /\ s \in BlankStates => b = <<>>
  BY NothingWaits
<1>3. ByteRead(l, ch, m, class) /\ TextMove(s, cs, n)
  BY DEF Readable
<1>4. n \in StringStates \cup {"UC", "SE"}
  OBVIOUS
<1>5. m = 0 /\ BytesLeft(q.buffer, 0) /\ (n = "UC" => HexEnd(q.buffer, 4))
  <2> DEFINE k == KeptOf(buffer_policy_table(s, class), b, ch)
  <2> HIDE DEF s, b, m
  <2>1. /\ n = "SE" => BytesLeft(k, 0)
        /\ n \in {"SE", "UC"} => m = 0
        /\ n = "UC" => BytesLeft(k, 0) /\ HexEnd(k, 4)
    BY <1>2, <1>3, <1>4, StringMove
  <2> QED BY <1>1, <2>1
<1> HIDE DEF s, b, m
<1>6. n \notin DoBuffer
  BY DEF DoBuffer
<1>7. CASE n = "SE"
  <2> DEFINE type == IF q.expecting_key THEN "KEY" ELSE "STRING"
             t == IF q.expecting_key THEN "CO" ELSE "OK"
             u == do_callback_withbuf(q, type)
             r == [u EXCEPT !.buffer = <<>>, !.state = t, !.expecting_key = FALSE]
  <2>1. c = r
    BY <1>7, Zenon DEF Called, act_se
  <2>2. type \in {"KEY", "STRING"} /\ t \in {"CO", "OK"}
    OBVIOUS
  <2> HIDE DEF type, t
  <2>3. /\ HasFields(u) /\ u.calls = Append(q.calls, Event(type, q.buffer))
        /\ u.unicode_multi = q.unicode_multi
        /\ u.utf8_multibyte_left = q.utf8_multibyte_left
    BY <1>1 DEF do_callback_withbuf, Typed, HasFields, Fields
  <2> HIDE DEF u
  <2>4. /\ HasFields(r) /\ r.calls = u.calls /\ r.state = t
        /\ r.unicode_multi = u.unicode_multi
        /\ r.utf8_multibyte_left = u.utf8_multibyte_left
    BY <2>3 DEF HasFields, Fields
  <2> HIDE DEF c, r
  <2>5. TextOk(Event(type, q.buffer))
    BY <1>5, <2>2 DEF TextOk, Event, IsUTF8, BytesLeft
  <2>6. CallsFine(Append(q.calls, Event(type, q.buffer)))
    BY <1>1, <2>5, CallFine DEF Typed
  <2>7. Typed(c) /\ c.state = t /\ c.utf8_multibyte_left = m
    BY <1>1, <2>1, <2>3, <2>4, <2>6 DEF Typed
  <2>8. /\ Typed(d) /\ d.utf8_multibyte_left = c.utf8_multibyte_left
        /\ d.ret = "SUCCESS" => c.ret = "SUCCESS"
        /\ c.ret = "SUCCESS" =>
              /\ d.state = IF n \in DOMAIN ActionState THEN ActionState[n] ELSE c.state
              /\ d.type = IF n \in DOMAIN ActionType THEN ActionType[n] ELSE "NONE"
    BY <1>6, <2>7, ActionTyped DEF c
  <2>9. d.ret = "SUCCESS" => Between(d)
    <3> SUFFICES ASSUME c.ret = "SUCCESS" PROVE Between(d)
      BY <2>8
    <3>1. d.state = t /\ d.type = "NONE"
      BY <1>7, <2>7, <2>8, ActionTables
    <3> HIDE DEF d
    <3> QED BY <2>2, <3>1 DEF Between, BlankStates
  <2> QED BY <1>1, <2>7, <2>8, <2>9, BetweenInv
<1>8. CASE n = "UC"
  <2> DEFINE u == decode_unicode_char(q)
             t == IF u.unicode_multi # 0 THEN "D1" ELSE "_S"
             r == [u EXCEPT !.state = t]
  <2>1. c = IF u.ret # "SUCCESS" THEN u ELSE r
    BY <1>8, Zenon DEF Called, act_uc
  <2>2. t \in {"D1", "_S"}
    OBVIOUS
  <2>3. /\ HasFields(u) /\ u.unicode_multi \in Nat
        /\ u.utf8_multibyte_left = q.utf8_multibyte_left
        /\ u.ret = "SUCCESS" => BytesLeft(u.buffer, 0)
    BY <1>1, <1>5, <1>8, DecodeText DEF Typed
  <2>4. u.calls = q.calls
    BY <1>1, DecodeDoc DEF Typed, SameDoc
  <2> HIDE DEF u, t
  <2>5. /\ HasFields(r) /\ r.calls = u.calls /\ r.state = t
        /\ r.unicode_multi = u.unicode_multi /\ r.buffer = u.buffer
        /\ r.utf8_multibyte_left = u.utf8_multibyte_left /\ r.ret = u.ret
    BY <2>3 DEF HasFields, Fields
  <2> HIDE DEF c, r
  <2>6. /\ Typed(c) /\ c.utf8_multibyte_left = m
        /\ c.ret = "SUCCESS" => c.state = t /\ BytesLeft(c.buffer, 0)
    BY <1>1, <2>1, <2>3, <2>4, <2>5 DEF Typed
  <2>7. /\ Typed(d) /\ d.utf8_multibyte_left = c.utf8_multibyte_left
        /\ d.buffer = c.buffer
        /\ d.ret = "SUCCESS" => c.ret = "SUCCESS"
        /\ c.ret = "SUCCESS" =>
              d.state = IF n \in DOMAIN ActionState THEN ActionState[n] ELSE c.state
    BY <1>6, <2>6, ActionTyped DEF c
  <2>8. d.ret = "SUCCESS" =>
            TextIn(d.state, d.type, d.buffer, d.utf8_multibyte_left)
    <3> SUFFICES ASSUME c.ret = "SUCCESS"
                 PROVE  TextIn(d.state, d.type, d.buffer, d.utf8_multibyte_left)
      BY <2>7
    <3>1. d.state = t
      BY <1>8, <2>6, <2>7, ActionTables
    <3>2. BytesLeft(d.buffer, 0) /\ d.utf8_multibyte_left = 0
      BY <1>5, <2>6, <2>7
    <3>3. t \in StringStates /\ t \notin NumberStates \cup {"OK"}
          /\ t \notin {"U2", "U3", "U4"}
      BY <2>2 DEF StringStates, NumberStates
    <3> HIDE DEF d
    <3> QED BY <3>1, <3>2, <3>3 DEF TextIn, StringText
  <2> HIDE DEF d
  <2> QED BY <1>1, <2>6, <2>7, <2>8 DEF TextInv, d
<1> QED BY <1>7, <1>8

(* A byte of its class (json.c 2167-2213).                                 *)
LEMMA MovedText ==
    ASSUME NEW p, NEW l, NEW ch, NEW class, Readable(p, l, ch, class)
    PROVE  TextInv(Moved(p, ch, class))
<1> DEFINE s == p.state
           n == state_transition_table(s, class)
           q == Kept(p, ch, class)
           r == [q EXCEPT !.state = n]
           o == Moved(p, ch, class)
<1> SUFFICES TextInv(o)
  OBVIOUS
<1>1. Typed(p) /\ p.ret = "SUCCESS" /\ p.utf8_multibyte_left \in 0..5
  BY DEF Readable, ByteRead
<1>2. Took(p, q, ch, class)
  BY <1>1, TookKept
<1>3. n # "__" => Leads(s, n) /\ \E cs : class \in cs /\ TextMove(s, cs, n)
  BY MoveFound
<1>4. o = IF n = "__" THEN Fail(p, "UNEXPECTED_CHAR")
          ELSE IF q.ret # "SUCCESS" THEN q
          ELSE IF n \in Actions THEN do_action(q, n) ELSE r
  BY DEF Moved, IS_STATE_ACTION
<1>5. /\ HasFields(r) /\ r.calls = q.calls /\ r.unicode_multi = q.unicode_multi
      /\ r.utf8_multibyte_left = q.utf8_multibyte_left /\ r.buffer = q.buffer
      /\ r.state = n /\ r.type = q.type /\ r.ret = q.ret
  BY <1>2 DEF Took, Typed, HasFields, Fields
<1> HIDE DEF n, q, r, o
<1>6. CASE n = "__"
  BY <1>1, <1>4, <1>6, FailTyped
<1>7. CASE n # "__" /\ q.ret # "SUCCESS"
  BY <1>2, <1>4, <1>7 DEF TextInv, Took
<1>8. CASE n # "__" /\ q.ret = "SUCCESS" /\ n \notin Actions
  <2>1. PICK cs : class \in cs /\ TextMove(s, cs, n)
    BY <1>3, <1>8
  <2> DEFINE c == KeptOf(buffer_policy_table(s, class), p.buffer, ch)
  <2>2. TextIn(n, p.type, c, p.utf8_multibyte_left)
    BY <1>3, <1>8, <2>1, PlainText
  <2>3. q.buffer = c /\ q.type = p.type
        /\ q.utf8_multibyte_left = p.utf8_multibyte_left
    BY <1>2, <1>8 DEF Took
  <2> HIDE DEF c
  <2>4. TextIn(r.state, r.type, r.buffer, r.utf8_multibyte_left)
    BY <1>5, <2>2, <2>3
  <2>5. Typed(r)
    BY <1>2, <1>5 DEF Took, Typed
  <2>6. o = r
    BY <1>4, <1>8
  <2> QED BY <1>1, <1>5, <2>3, <2>4, <2>5, <2>6 DEF TextInv
<1>9. CASE n # "__" /\ q.ret = "SUCCESS" /\ n \in Actions
  <2>1. PICK cs : class \in cs /\ TextMove(s, cs, n)
    BY <1>3, <1>9
  <2>2. o = do_action(q, n) /\ Leads(s, n)
    BY <1>3, <1>4, <1>9
  <2>3. CASE n \in DoBuffer
    <3>1. buffer_policy_table(s, class) = "ignore" /\ TextInv(do_action(p, n))
      BY <2>1, <2>2, <2>3, FlushedText
    <3>2. q = p
      BY <1>2, <3>1 DEF Took
    <3> QED BY <2>2, <3>1, <3>2
  <2>4. CASE n \in {"KS", "AB", "OB", "CE", "TR", "FA", "NU"}
    <3>1. TextInv(do_action(q, n))
      BY <1>2, <1>9, <2>2, <2>4, QuietText
    <3> QED BY <2>2, <3>1
  <2>5. CASE n \in NumberStarts
    <3>1. TextInv(do_action(q, n))
      BY <1>2, <1>9, <2>1, <2>5, StartedText
    <3> QED BY <2>2, <3>1
  <2>6. CASE n \in {"UC", "SE"}
    <3>1. TextInv(do_action(q, n))
      BY <1>2, <1>9, <2>1, <2>2, <2>6, EndedText
    <3> QED BY <2>2, <3>1
  <2> QED BY <1>9, <2>3, <2>4, <2>5, <2>6 DEF Actions, DoBuffer, NumberStarts
<1> QED BY <1>6, <1>7, <1>8, <1>9

(* Any byte (json.c 2145-2213).                                            *)
LEMMA CharText ==
    ASSUME NEW p, NestInv(p), Emptied(p), TextInv(p), p.ret = "SUCCESS", NEW ch
    PROVE  TextInv(json_parser_char(p, ch))
<1> DEFINE l == p.utf8_multibyte_left
<1>1. /\ HasFields(p) /\ Typed(p) /\ l \in 0..5
      /\ TextIn(p.state, p.type, p.buffer, l)
  BY DEF TextInv, Typed
<1> HIDE DEF l
<1>2. ASSUME NEW n
      PROVE  LET q == Awaiting(p, n)
             IN  /\ NestInv(q) /\ Emptied(q) /\ q.ret = "SUCCESS" /\ Typed(q)
                 /\ TextIn(q.state, q.type, q.buffer, l)
                 /\ q.utf8_multibyte_left = n
  <2> DEFINE q == Awaiting(p, n)
  <2>1. /\ HasFields(q) /\ q.state = p.state /\ q.type = p.type /\ q.ret = p.ret
        /\ q.calls = p.calls /\ q.stack = p.stack /\ q.buffer = p.buffer
        /\ q.expecting_key = p.expecting_key /\ q.save_state = p.save_state
        /\ q.unicode_multi = p.unicode_multi /\ q.utf8_multibyte_left = n
    BY <1>1, AwaitingForm
  <2> HIDE DEF q
  <2>2. Whole(p) /\ Whole(q) /\ Core(q) /\ Resumed(q) = Resumed(p)
    BY <2>1 DEF NestInv, Whole, Core, Resumed
  <2>3. Position(q, Resumed(q))
    <3> DEFINE s == Resumed(p)
    <3>1. Position(p, s) /\ Resumed(q) = s
      BY <2>2 DEF NestInv
    <3> HIDE DEF s
    <3> QED BY <2>1, <3>1 DEF Position, KeyFits, ValueFits, InObject, InArray
  <2>4. NestInv(q)
    BY <2>1, <2>2, <2>3 DEF NestInv
  <2>5. Emptied(q)
    BY <2>1 DEF Emptied, Between
  <2>6. Typed(q)
    BY <1>1, <2>1 DEF Typed
  <2> QED BY <1>1, <2>1, <2>4, <2>5, <2>6 DEF q
<1>3. CASE \E e : e # "SUCCESS" /\ json_parser_char(p, ch) = Fail(p, e)
  BY <1>1, <1>3, FailTyped
<1>4. CASE \E e, n : e # "SUCCESS" /\ json_parser_char(p, ch) = Fail(Awaiting(p, n), e)
  BY <1>2, <1>4, FailTyped
<1>5. CASE \E n, class : /\ ByteRead(l, ch, n, class)
                         /\ json_parser_char(p, ch) = Moved(Awaiting(p, n), ch, class)
  <2>1. PICK n, class : /\ ByteRead(l, ch, n, class)
                        /\ json_parser_char(p, ch) = Moved(Awaiting(p, n), ch, class)
    BY <1>5
  <2>2. Readable(Awaiting(p, n), l, ch, class)
    BY <1>2, <2>1 DEF Readable
  <2> QED BY <2>1, <2>2, MovedText
<1> QED BY <1>1, <1>3, <1>4, <1>5, ReadForm DEF l

(* Every number is one that strtoimax or strtof reads to its end, and      *)
(* every key and string is whole characters, whatever bytes a file holds   *)
(* (json.c 1862-1912, dump.c 111, 129).                                    *)
THEOREM TextsAreWellFormed == FileSpec => []TextsWellFormed
<1> DEFINE Inv == NestInv(parser) /\ Emptied(parser) /\ TextInv(parser)
<1>1. ASSUME FileInit PROVE Inv
  <2>1. PICK config \in Configs : parser = json_parser_init(config)
    BY <1>1 DEF FileInit
  <2>2. NestInv(parser)
    BY <2>1, InitNest
  <2>3. /\ HasFields(parser) /\ parser.state = "GO" /\ parser.buffer = <<>>
        /\ parser.calls = <<>> /\ parser.unicode_multi = 0
        /\ parser.utf8_multibyte_left = 0
    BY <2>1 DEF json_parser_init, HasFields, Fields
  <2>4. CallsFine(parser.calls)
    <3>1. IsSeq(<<>>) /\ DOMAIN <<>> = {}
      BY NoElements
    <3> QED BY <2>3, <3>1 DEF CallsFine
  <2>5. Between(parser) /\ Emptied(parser)
    BY <2>3 DEF Emptied, Between, BlankStates
  <2>6. Typed(parser)
    BY <2>3, <2>4 DEF Typed
  <2>7. TextInv(parser)
    BY <2>3, <2>5, <2>6, BetweenInv
  <2> QED BY <2>2, <2>5, <2>7
<1>2. ASSUME Inv, [FileNext]_filevars PROVE Inv'
  <2>1. CASE Write
    BY <1>2, <2>1 DEF Write
  <2>2. CASE PrintEvent
    BY <1>2, <2>2 DEF PrintEvent
  <2>3. CASE Read
    <3>1. /\ parser.ret = "SUCCESS"
          /\ parser' = json_parser_char(parser, Head(unread))
      BY <2>3 DEF Read, Reading
    <3> QED BY <1>2, <3>1, CharNest, CharEmptied, CharText
  <2>4. CASE UNCHANGED filevars
    BY <1>2, <2>4 DEF filevars
  <2> QED BY <1>2, <2>1, <2>2, <2>3, <2>4 DEF FileNext
<1>3. Inv => TextsWellFormed
  <2> SUFFICES ASSUME Inv, NEW i \in DOMAIN parser.calls
               PROVE  TextOk(parser.calls[i])
    BY DEF TextsWellFormed, TextOk
  <2> QED BY DEF TextInv, Typed, CallsFine
<1> HIDE DEF Inv
<1> QED BY <1>1, <1>2, <1>3, PTL DEF FileSpec
=============================================================================
