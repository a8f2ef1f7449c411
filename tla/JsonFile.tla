------------------------------ MODULE JsonFile ------------------------------
(***************************************************************************)
(* A JSON file and the program that reads it (dump_read_json_init to       *)
(* dump_read_json_free and callback_append of src/dump.c, over the parser  *)
(* and the printer of src/json.c).                                         *)
(*                                                                         *)
(* The file comes from the printer, event by event, or from a user, word   *)
(* by word.  The program reads what is there byte by byte, so that the     *)
(* end of the file may be anywhere: there is nothing it does only at the   *)
(* end.  A parser error, or a number out of range, ends the program.       *)
(* There is one file: errno is 0 when it is opened.                        *)
(*                                                                         *)
(* twin is no part of the program.  It is a second parser that reads one   *)
(* space in the place of every comment, also of one the parser refuses.    *)
(***************************************************************************)
EXTENDS JsonParser, JsonPrinter

CONSTANTS
    Words,     \* what a user may write, as sequences of bytes
    Data,      \* what may be printed: for a type with a text, its texts
    MaxWords,  \* bound: how many words are written
    MaxEvents, \* bound: how many events are printed
    INTMAX,    \* INTMAX_MAX
    MaxExponent, \* the largest decimal exponent of a float
    RoundedToMin \* the texts of the floats that strtof rounds up to FLT_MIN

VARIABLES
    writer,  \* "user", "raw" or "pretty"
    printer, \* struct json_printer
    printed, \* the events printed
    words,   \* how many words the user wrote
    unread,  \* the bytes in the file not yet read
    parser,  \* struct json_parser
    twin,
    reader   \* errno and the list of numbers of the program

filevars == <<writer, printer, printed, words, unread, parser, twin, reader>>

-----------------------------------------------------------------------------
(* The events that make a document                                         *)

Begins == {"ARRAY_BEGIN", "OBJECT_BEGIN"}

(* The structures open after one more event. *)
OpenAfter(open, type) ==
    CASE type = "ARRAY_BEGIN"  -> Append(open, "ARRAY")
      [] type = "OBJECT_BEGIN" -> Append(open, "OBJECT")
      [] type \in Ends         -> Front(open)
      [] OTHER                 -> open

(* The structures open after a sequence of events. *)
Open(events) ==
    LET open[n \in 0..Len(events)] ==
            IF n = 0 THEN <<>> ELSE OpenAfter(open[n - 1], events[n].type)
    IN  open[Len(events)]

(* Whether an event may come next: a document is one structure, and in an  *)
(* object keys and values alternate.                                       *)
MayFollow(events, type) ==
    LET open  == Open(events)
        after == IF events = <<>> THEN "NONE" ELSE Last(events).type
    IN  IF open = <<>> THEN events = <<>> /\ type \in Begins
        ELSE CASE type = "ARRAY_END"            -> Last(open) = "ARRAY"
               [] type \in {"OBJECT_END", "KEY"} ->
                      Last(open) = "OBJECT" /\ after # "KEY"
               [] OTHER -> Last(open) = "ARRAY" \/ after = "KEY"

IsComplete(events) == events # <<>> /\ Open(events) = <<>>

-----------------------------------------------------------------------------
(* callback_append                                                         *)

Digits10(text) == SelectSeq(text, LAMBDA c : c \in 48..57)

Decimal(text) == FoldLeft(LAMBDA n, c : 10 * n + c - 48, 0, Digits10(text))

IsNegative(text) == text # <<>> /\ text[1] = 45

strtoimax(text) ==
    LET n == Decimal(text)
    IN  IF IsNegative(text) THEN (IF n > INTMAX + 1 THEN -INTMAX - 1 ELSE -n)
        ELSE IF n > INTMAX THEN INTMAX ELSE n

IntOutOfRange(text) ==
    Decimal(text) > IF IsNegative(text) THEN INTMAX + 1 ELSE INTMAX

(* The decimals of a float move its exponent little; they are left out.    *)
FloatOutOfRange(text) ==
    \E i \in DOMAIN text :
        /\ text[i] \in {69, 101}
        /\ Decimal(SubSeq(text, 1, i - 1)) # 0
        /\ Decimal(SubSeq(text, i + 1, Len(text))) > MaxExponent

(* Fault: errno is not reset before a float is converted. *)
callback_append_ErrnoKept(r, e) ==
    CASE e.type = "FLOAT" ->
           IF e.data \in RoundedToMin
           THEN [r EXCEPT !.erange = TRUE, !.exited = TRUE]
           ELSE [r EXCEPT !.erange = @ \/ FloatOutOfRange(e.data),
                          !.list   = Append(@, e.data)]
      [] e.type = "INT" ->
           LET erange == r.erange \/ IntOutOfRange(e.data)
           IN  IF erange THEN [r EXCEPT !.erange = TRUE, !.exited = TRUE]
               ELSE [r EXCEPT !.list = Append(@, strtoimax(e.data))]
      [] OTHER -> r

(* A float out of range becomes an infinity or something about 0, and      *)
(* leaves ERANGE behind; converting an integer never resets it.  The       *)
(* program ends only if it becomes FLT_MIN: FLT_MAX comes without ERANGE.  *)
callback_append(r, e) ==
    CASE e.type = "FLOAT" ->
           IF e.data \in RoundedToMin
           THEN [r EXCEPT !.erange = TRUE, !.exited = TRUE]
           ELSE [r EXCEPT !.erange = FloatOutOfRange(e.data),
                          !.list   = Append(@, e.data)]
      [] e.type = "INT" ->
           LET erange == r.erange \/ IntOutOfRange(e.data)
           IN  IF erange THEN [r EXCEPT !.erange = TRUE, !.exited = TRUE]
               ELSE [r EXCEPT !.list = Append(@, strtoimax(e.data))]
      [] OTHER -> r

(* What the calls of one byte come to, one after the other. *)
AppendAll(r, calls) ==
    LET after[n \in 0..Len(calls)] ==
            IF n = 0 THEN r ELSE callback_append(after[n - 1], calls[n])
    IN  after[Len(calls)]

-----------------------------------------------------------------------------

FileInit ==
    /\ writer \in {"user", "raw", "pretty"}
    /\ printer = json_print_init
    /\ printed = <<>>
    /\ words = 0
    /\ unread = <<>>
    /\ \E config \in Configs : parser = json_parser_init(config)
    /\ twin = parser
    /\ reader = [erange |-> FALSE, list |-> <<>>, exited |-> FALSE]

Reading == parser.ret = "SUCCESS" /\ ~ reader.exited

Write ==
    /\ writer = "user"
    /\ Reading /\ unread = <<>>
    /\ words < MaxWords
    /\ words' = words + 1
    /\ unread' \in Words
    /\ UNCHANGED <<writer, printer, printed, parser, twin, reader>>

PrintEvent ==
    /\ writer # "user"
    /\ Reading /\ unread = <<>>
    /\ Len(printed) < MaxEvents
    /\ \E e \in Data :
          /\ MayFollow(printed, e.type)
          /\ printer' = json_print_mode([printer EXCEPT !.out = <<>>],
                                        e.type, e.data, writer = "pretty")
          /\ printed' = Append(printed, e)
    /\ unread' = printer'.out
    /\ UNCHANGED <<writer, words, parser, twin, reader>>

InComment(p) == p.state \in {"C1", "C2", "C3", "Y1"}

InString(p) ==
    p.state \in {"_S", "E0", "U1", "U2", "U3", "U4", "D1", "D2"}

(* Outside of a string # and / are nothing but the beginning of a comment. *)
BeginsComment(p, ch) == ch \in {35, 47} /\ ~ InString(p)

Read ==
    /\ Reading /\ unread # <<>>
    /\ unread' = Tail(unread)
    /\ parser' = json_parser_char(parser, Head(unread))
    /\ LET comment == InComment(parser) \/ BeginsComment(parser, Head(unread))
       IN  twin' = IF InComment(parser') THEN twin
                   ELSE json_parser_char(twin, IF comment THEN 32 ELSE Head(unread))
    /\ reader' = AppendAll(reader, SubSeq(parser'.calls, Len(parser.calls) + 1,
                                          Len(parser'.calls)))
    /\ UNCHANGED <<writer, printer, printed, words>>

FileNext == Write \/ PrintEvent \/ Read

FileSpec == FileInit /\ [][FileNext]_filevars

-----------------------------------------------------------------------------
(* Properties                                                              *)

(* No byte is written past the end of a block, the 0 that ends a text      *)
(* included, and no block grows past its limit (json.c 1741-1804, 1811,    *)
(* 1862-1912).                                                             *)
InBounds ==
    /\ Len(parser.buffer) < parser.buffer_size
    /\ Len(parser.stack) <= parser.stack_size
    /\ parser.config.max_nesting > 0 =>
           parser.stack_size = parser.config.max_nesting
    /\ parser.config.max_data > 0 =>
           parser.buffer_size <= parser.config.max_data

(* Whatever a file holds, what the callback gets is the beginning of a     *)
(* document: structures close in the order they were opened, and in an     *)
(* object keys and values alternate (json.c 1766-1773, 1981-2030).         *)
WellNested ==
    \A i \in DOMAIN parser.calls :
        MayFollow(SubSeq(parser.calls, 1, i - 1), parser.calls[i].type)

(* The stack is what the callback has seen opened and not closed, and the  *)
(* parser is done only at the end of a document (json.c 2135-2139) - or in *)
(* a comment before it.                                                    *)
DoneMeansComplete ==
    parser.ret = "SUCCESS" =>
        /\ parser.stack = Open(parser.calls)
        /\ json_parser_is_done(parser) =>
               \/ IsComplete(parser.calls)
               \/ parser.calls = <<>> /\ InComment(parser)

IsDigits(s) == s # <<>> /\ \A i \in DOMAIN s : s[i] \in 48..57

IsIntText(s) ==
    LET digits == IF IsNegative(s) THEN Tail(s) ELSE s
    IN  IsDigits(digits) /\ (digits[1] = 48 => Len(digits) = 1)

IsExponent(s) ==
    /\ s # <<>> /\ s[1] \in {69, 101}
    /\ LET digits == IF Len(s) > 1 /\ s[2] \in {43, 45} THEN SubSeq(s, 3, Len(s))
                                                        ELSE Tail(s)
       IN  IsDigits(digits)

IsFloatText(s) ==
    \E i \in 1..Len(s), k \in 1..Len(s) + 1 :
        /\ i <= k /\ i <= Len(s)
        /\ IsIntText(SubSeq(s, 1, i - 1))
        /\ i < k => s[i] = 46 /\ IsDigits(SubSeq(s, i + 1, k - 1))
        /\ k <= Len(s) => IsExponent(SubSeq(s, k, Len(s)))

(* How many bytes are left of a character after one more; 255 if that is   *)
(* none of it.                                                             *)
LeftAfter(left, c) ==
    IF left = 0 THEN utf8_header_table(c)
    ELSE IF left < 6 /\ utf8_continuation_table(c) = 0 THEN left - 1
    ELSE 255

Left(s) ==
    LET left[n \in 0..Len(s)] ==
            IF n = 0 THEN 0 ELSE LeftAfter(left[n - 1], s[n])
    IN  left[Len(s)]

(* Bytes that are characters, each with all the bytes that belong to it.   *)
IsUTF8(s) == Left(s) = 0

(* Every text the callback gets is what its type says: a number in the     *)
(* form of JSON, which strtoimax and strtof read to its end, and a key or  *)
(* a string of whole characters, those written as one or two \uXXXX        *)
(* included (json.c 1862-1912, dump.c 111, 129).                           *)
TextsWellFormed ==
    \A i \in DOMAIN parser.calls :
        LET e == parser.calls[i]
        IN  CASE e.type = "INT"               -> IsIntText(e.data)
              [] e.type = "FLOAT"             -> IsFloatText(e.data)
              [] e.type \in {"KEY", "STRING"} -> IsUTF8(e.data)
              [] OTHER                        -> e.data = <<>>

(* The parser refused a comment: one of a kind that is not allowed (json.c *)
(* 1962, 1969), or any right after a float with an exponent, where white   *)
(* space is accepted (lines 963-965, 974 and 996).                         *)
CommentRefused(p) ==
    \/ /\ p.ret = "COMMENT_NOT_ALLOWED"
       /\ ~ (p.config.allow_c_comments /\ p.config.allow_yaml_comments)
    \/ p.ret = "UNEXPECTED_CHAR" /\ p.state = "X3"

(* A comment is refused for those two reasons only, or is no more than a   *)
(* space: the parser that reads it ends up where the one that reads a      *)
(* space does.  Either way the callback got the same, a text that a        *)
(* comment ended sooner (json.c 1961-1979).                                *)
CommentsNeutral ==
    ~ InComment(parser) =>
        /\ \/ parser.ret = twin.ret /\ parser.state = twin.state
           \/ twin.ret = "SUCCESS" /\ CommentRefused(parser)
        /\ parser.stack = twin.stack
        /\ parser.expecting_key = twin.expecting_key
        /\ parser.calls \in {twin.calls, do_buffer(twin).calls}

(* How an event comes back: a binary string as the characters U+0000 to    *)
(* U+00FF. *)
ReadBack(e) ==
    IF e.type # "BSTRING" THEN e
    ELSE Event("STRING", FlattenSeq([i \in DOMAIN e.data |->
                                        UTF8Bytes(e.data[i])]))

(* What was printed is read back, event by event, and wherever the file is *)
(* cut off, what was read of it is the beginning of what was printed: only *)
(* the last text may be missing, and no number is cut short (eventloop.c   *)
(* 264-293 and 296-301, dump.c 159-171).                                   *)
RoundTrip ==
    writer # "user" =>
        LET events == [i \in DOMAIN printed |-> ReadBack(printed[i])]
        IN  /\ parser.ret \in {"SUCCESS", "NESTING_LIMIT", "DATA_LIMIT",
                               "NO_MEMORY"}
            /\ IsPrefix(parser.calls, events)
            /\ Reading /\ unread = <<>> =>
                   /\ Len(parser.calls) >= Len(events) - 1
                   /\ IsComplete(events) <=> json_parser_is_done(parser)
                   /\ IsComplete(events) => parser.calls = events

Calls(calls, types) == {i \in DOMAIN calls : calls[i].type \in types}

(* Of the floats before call i the last one is out of range. *)
AfterRange(calls, i) ==
    LET floats == Calls(calls, {"FLOAT"})
    IN  \E k \in floats : /\ k < i /\ FloatOutOfRange(calls[k].data)
                          /\ \A m \in floats : m < i => m <= k

(* The calls the program has to exit at: a float that becomes FLT_MIN, an  *)
(* integer it cannot store, or one for which a float has left ERANGE.      *)
Exits(calls) ==
    {i \in Calls(calls, {"FLOAT"}) : calls[i].data \in RoundedToMin}
        \cup {i \in Calls(calls, {"INT"}) :
                  IntOutOfRange(calls[i].data) \/ AfterRange(calls, i)}

(* A number as it is in the file. *)
Value(e) ==
    IF e.type = "FLOAT" THEN e.data
    ELSE IF IsNegative(e.data) THEN -Decimal(e.data) ELSE Decimal(e.data)

(* Which of the numbers call i is. *)
Nth(calls, i) == Cardinality({k \in Calls(calls, {"INT", "FLOAT"}) : k <= i})

(* The program goes on with the numbers that are in the file, all of them, *)
(* each with its value and in their order, until it exits: at a number it  *)
(* cannot store, or for the errno a float left (dump.c 106-141).           *)
NumbersFaithful ==
    LET calls   == parser.calls
        numbers == Calls(calls, {"INT", "FLOAT"})
    IN  /\ reader.exited <=> Exits(calls) # {}
        /\ Len(reader.list) + (IF reader.exited THEN 1 ELSE 0) = Cardinality(numbers)
        /\ \A i \in numbers : Nth(calls, i) <= Len(reader.list) =>
               reader.list[Nth(calls, i)] = Value(calls[i])
=============================================================================
