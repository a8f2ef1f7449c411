----------------------------- MODULE JsonParser -----------------------------
(***************************************************************************)
(* The JSON parser (src/json.c): struct json_parser as a record and the    *)
(* functions that change it as operators on that record.                   *)
(*                                                                         *)
(*   ret     what the function last called on the parser returned          *)
(*   calls   what the callback got, in order: a type, and for a text its   *)
(*           bytes; the callbacks of this program return 0 or exit         *)
(*   stack   its length is stack_offset, stack_size what is allocated      *)
(*   buffer  its length is buffer_offset, buffer_size what is allocated    *)
(*                                                                         *)
(* A block larger than Memory cannot be allocated; sizes are not wrapped   *)
(* at 2^32.                                                                *)
(***************************************************************************)
EXTENDS JsonTables, Integers, Sequences

CONSTANTS
    Configs,             \* the values of json_config the program may choose
    DEFAULT_STACK_SIZE,  \* LIBJSON_DEFAULT_STACK_SIZE
    DEFAULT_BUFFER_SIZE, \* LIBJSON_DEFAULT_BUFFER_SIZE
    Memory               \* bound: the largest block that can be allocated

json_config == [buffer_initial_size : Nat, max_nesting : Nat, max_data : Nat,
                allow_c_comments : BOOLEAN, allow_yaml_comments : BOOLEAN]

ASSUME JsonConfigAssumption ==
    /\ Configs \subseteq json_config
    /\ DEFAULT_STACK_SIZE \in Nat \ {0} /\ DEFAULT_BUFFER_SIZE \in Nat \ {0}
    /\ Memory \in Nat

(* Of json_type those that do_buffer and act_se give with the buffer. *)
Texts  == {"KEY", "STRING", "FLOAT", "INT", "NULL", "TRUE", "FALSE"}

Event(type, data) == [type |-> type, data |-> data]

Fail(p, error) == [p EXCEPT !.ret = error]

(* Both blocks are taken to fit in the memory. *)
InitialBufferSize(config) ==
    LET size == IF config.buffer_initial_size > 0
                THEN config.buffer_initial_size ELSE DEFAULT_BUFFER_SIZE
    IN  IF config.max_data > 0 /\ size > config.max_data THEN config.max_data
                                                         ELSE size

json_parser_init(config) ==
    [config     |-> config,
     state      |-> "GO", save_state |-> "GO", expecting_key |-> FALSE,
     utf8_multibyte_left |-> 0, unicode_multi |-> 0, type |-> "NONE",
     stack      |-> <<>>,
     stack_size |-> IF config.max_nesting > 0 THEN config.max_nesting
                                              ELSE DEFAULT_STACK_SIZE,
     buffer     |-> <<>>,
     buffer_size |-> InitialBufferSize(config),
     calls |-> <<>>, ret |-> "SUCCESS"]

(* True in a comment before the document, too. *)
json_parser_is_done(p) == p.stack = <<>> /\ p.state # "GO"

-----------------------------------------------------------------------------
(* The stack of open structures and the buffer                             *)

state_grow(p) ==
    IF p.config.max_nesting # 0 THEN Fail(p, "NESTING_LIMIT")
    ELSE IF 2 * p.stack_size > Memory THEN Fail(p, "NO_MEMORY")
    ELSE [p EXCEPT !.stack_size = 2 * @]

(* Fault: what made the stack grow is not pushed. *)
state_push_GrowOnly(p, mode) ==
    IF Len(p.stack) >= p.stack_size THEN state_grow(p)
                                    ELSE [p EXCEPT !.stack = Append(@, mode)]

state_push(p, mode) ==
    LET q == IF Len(p.stack) >= p.stack_size THEN state_grow(p) ELSE p
    IN  IF q.ret # "SUCCESS" THEN q
        ELSE [q EXCEPT !.stack = Append(@, mode)]

state_pop(p, mode) ==
    IF p.stack = <<>> THEN Fail(p, "POP_EMPTY")
    ELSE LET q == [p EXCEPT !.stack = SubSeq(@, 1, Len(@) - 1)]
         IN  IF p.stack[Len(p.stack)] # mode
             THEN Fail(q, "POP_UNEXPECTED_MODE")
             ELSE q

buffer_grow(p) ==
    LET max     == p.config.max_data
        twice   == 2 * p.buffer_size
        newsize == IF max > 0 /\ twice > max THEN max ELSE twice
    IN  IF max > 0 /\ p.buffer_size = max THEN Fail(p, "DATA_LIMIT")
        ELSE IF newsize > Memory THEN Fail(p, "NO_MEMORY")
        ELSE [p EXCEPT !.buffer_size = newsize]

(* Fault: the buffer is filled to its end. *)
buffer_push_NoRoom(p, c) ==
    LET q == IF Len(p.buffer) >= p.buffer_size THEN buffer_grow(p) ELSE p
    IN  IF q.ret # "SUCCESS" THEN q
        ELSE [q EXCEPT !.buffer = Append(@, c)]

(* One byte is kept free for the 0 that ends a text. *)
buffer_push(p, c) ==
    LET q == IF Len(p.buffer) + 1 >= p.buffer_size THEN buffer_grow(p) ELSE p
    IN  IF q.ret # "SUCCESS" THEN q
        ELSE [q EXCEPT !.buffer = Append(@, c)]

(* b f n r t; a quote, a slash and a backslash stand for themselves. *)
Escape(next) ==
    CASE next = 98  -> 8  [] next = 102 -> 12 [] next = 110 -> 10
      [] next = 114 -> 13 [] next = 116 -> 9  [] OTHER -> next

buffer_push_escape(p, next) == buffer_push(p, Escape(next))

do_callback_withbuf(p, type) ==
    [p EXCEPT !.calls = Append(@, Event(type, p.buffer))]

do_callback(p, type) == [p EXCEPT !.calls = Append(@, Event(type, <<>>))]

do_buffer(p) ==
    LET q == IF p.type \in Texts THEN do_callback_withbuf(p, p.type) ELSE p
    IN  [q EXCEPT !.buffer = <<>>]

-----------------------------------------------------------------------------
(* \uXXXX                                                                  *)

hex(c) == CASE c \in 48..57  -> c - 48
            [] c \in 65..70  -> c - 55
            [] c \in 97..102 -> c - 87

IS_HIGH_SURROGATE(uc) == uc \in 55296..56319
IS_LOW_SURROGATE(uc)  == uc \in 56320..57343

(* The bytes of a character, as the code computes them. *)
Continuation(bits) == 128 + (bits % 64)

UTF8Bytes(uc) ==
    IF uc < 128 THEN <<uc>>
    ELSE IF uc < 2048 THEN <<192 + uc \div 64, Continuation(uc)>>
    ELSE IF uc < 65536
    THEN <<224 + uc \div 4096, Continuation(uc \div 64), Continuation(uc)>>
    ELSE <<240 + uc \div 262144, Continuation(uc \div 4096),
           Continuation(uc \div 64), Continuation(uc)>>

(* The four digits at the end of the buffer make place for the character.  *)
(* The first half of a surrogate pair waits in unicode_multi.              *)
decode_unicode_char(p) ==
    LET n    == Len(p.buffer)
        uval == 4096 * hex(p.buffer[n - 3]) + 256 * hex(p.buffer[n - 2])
                   + 16 * hex(p.buffer[n - 1]) + hex(p.buffer[n])
        kept == SubSeq(p.buffer, 1, n - 4)
        q    == [p EXCEPT !.buffer = kept]
        pair == 65536 + 1024 * (p.unicode_multi % 1024) + (uval % 1024)
    IN  IF p.unicode_multi # 0
        THEN IF ~ IS_LOW_SURROGATE(uval)
             THEN Fail(q, "UNICODE_MISSING_LOW_SURROGATE")
             ELSE [p EXCEPT !.buffer = kept \o UTF8Bytes(pair),
                            !.unicode_multi = 0]
        ELSE IF IS_LOW_SURROGATE(uval)
        THEN Fail(q, "UNICODE_UNEXPECTED_LOW_SURROGATE")
        ELSE IF IS_HIGH_SURROGATE(uval)
        THEN [q EXCEPT !.unicode_multi = uval]
        ELSE [p EXCEPT !.buffer = kept \o UTF8Bytes(uval)]

-----------------------------------------------------------------------------
(* The actions                                                             *)

act_uc(p) ==
    LET q == decode_unicode_char(p)
    IN  IF q.ret # "SUCCESS" THEN q
        ELSE [q EXCEPT !.state = IF q.unicode_multi # 0 THEN "D1" ELSE "_S"]

(* act_yb and act_cb. *)
act_comment(p, allowed) ==
    IF ~ allowed THEN Fail(p, "COMMENT_NOT_ALLOWED")
    ELSE [p EXCEPT !.save_state = p.state]

(* Fault: a comment after a number goes back into the number. *)
act_ce_Resume(p) == [p EXCEPT !.state = p.save_state]

(* A comment right after a number ends the number. *)
act_ce(p) ==
    [p EXCEPT !.state = IF p.save_state \in {"GO", "OK", "_O", "_K", "CO",
                                             "_V", "_A"}
                        THEN p.save_state ELSE "OK"]

act_ob(p) ==
    LET q == state_push(do_callback(p, "OBJECT_BEGIN"), "OBJECT")
    IN  IF q.ret # "SUCCESS" THEN q ELSE [q EXCEPT !.expecting_key = TRUE]

act_oe(p) ==
    LET q == state_pop(p, "OBJECT")
    IN  IF q.ret # "SUCCESS" THEN q
        ELSE [do_callback(q, "OBJECT_END") EXCEPT !.expecting_key = FALSE]

act_ab(p) == state_push(do_callback(p, "ARRAY_BEGIN"), "ARRAY")

act_ae(p) ==
    LET q == state_pop(p, "ARRAY")
    IN  IF q.ret # "SUCCESS" THEN q ELSE do_callback(q, "ARRAY_END")

act_se(p) ==
    [do_callback_withbuf(p, IF p.expecting_key THEN "KEY" ELSE "STRING") EXCEPT
        !.buffer = <<>>,
        !.state = IF p.expecting_key THEN "CO" ELSE "OK",
        !.expecting_key = FALSE]

(* Fault: after a comma in an object a value is expected. *)
act_sp_AnyValue(p) ==
    IF p.stack = <<>> THEN Fail(p, "COMMA_OUT_OF_STRUCTURE")
    ELSE [p EXCEPT !.state = "_V"]

act_sp(p) ==
    IF p.stack = <<>> THEN Fail(p, "COMMA_OUT_OF_STRUCTURE")
    ELSE IF p.stack[Len(p.stack)] = "OBJECT"
    THEN [p EXCEPT !.expecting_key = TRUE, !.state = "_K"]
    ELSE [p EXCEPT !.state = "_V"]

(* actions_map: the type and the state an action leaves; an action without *)
(* a state here sets its own.                                              *)
ActionType ==
    [FA |-> "FALSE", TR |-> "TRUE", NU |-> "NULL", DE |-> "FLOAT", DF |-> "FLOAT",
     MX |-> "INT", ZX |-> "INT", IX |-> "INT"]

ActionState ==
    [KS |-> "_V", AB |-> "_A", AE |-> "OK", OB |-> "_O", OE |-> "OK", CB |-> "C1",
     YB |-> "Y1", FA |-> "OK", TR |-> "OK", NU |-> "OK", DE |-> "X1", DF |-> "R1",
     MX |-> "M0", ZX |-> "Z0", IX |-> "I0"]

(* The actions that first give the text in the buffer to the callback.     *)
DoBuffer == {"SP", "AE", "OE", "CB", "YB"}

Called(p, a) ==
    CASE a = "SP" -> act_sp(p)
      [] a = "AB" -> act_ab(p)
      [] a = "AE" -> act_ae(p)
      [] a = "OB" -> act_ob(p)
      [] a = "OE" -> act_oe(p)
      [] a = "CB" -> act_comment(p, p.config.allow_c_comments)
      [] a = "YB" -> act_comment(p, p.config.allow_yaml_comments)
      [] a = "CE" -> act_ce(p)
      [] a = "SE" -> act_se(p)
      [] a = "UC" -> act_uc(p)
      [] OTHER    -> p

(* Fault: a comma leaves the text before it in the buffer. *)
do_action_NoFlush(p, a) ==
    LET q == Called(IF a \in DoBuffer \ {"SP"} THEN do_buffer(p) ELSE p, a)
    IN  IF q.ret # "SUCCESS" THEN q
        ELSE [q EXCEPT
                !.state = IF a \in DOMAIN ActionState THEN ActionState[a] ELSE @,
                !.type  = IF a \in DOMAIN ActionType THEN ActionType[a]
                                                     ELSE "NONE"]

do_action(p, a) ==
    LET q == Called(IF a \in DoBuffer THEN do_buffer(p) ELSE p, a)
    IN  IF q.ret # "SUCCESS" THEN q
        ELSE [q EXCEPT
                !.state = IF a \in DOMAIN ActionState THEN ActionState[a] ELSE @,
                !.type  = IF a \in DOMAIN ActionType THEN ActionType[a]
                                                     ELSE "NONE"]

-----------------------------------------------------------------------------
(* json_parser_string, one byte of it *)

Kept(p, ch, class) ==
    LET policy == buffer_policy_table(p.state, class)
    IN  IF policy = "escape" THEN buffer_push_escape(p, ch)
        ELSE IF policy = "append" THEN buffer_push(p, ch)
        ELSE p

Moved(p, ch, class) ==
    LET next == state_transition_table(p.state, class)
        q    == Kept(p, ch, class)
    IN  IF next = "__" THEN Fail(p, "UNEXPECTED_CHAR")
        ELSE IF q.ret # "SUCCESS" THEN q
        ELSE IF IS_STATE_ACTION(next) THEN do_action(q, next)
        ELSE [q EXCEPT !.state = next]

json_parser_char(p, ch) ==
    IF p.utf8_multibyte_left > 0
    THEN IF utf8_continuation_table(ch) # 0 THEN Fail(p, "UTF8")
         ELSE Moved([p EXCEPT !.utf8_multibyte_left = @ - 1], ch, "OTHER")
    ELSE LET left == utf8_header_table(ch)
             q    == [p EXCEPT !.utf8_multibyte_left = left]
         IN  IF left = 255 THEN Fail(q, "UTF8")
             ELSE IF left > 0 THEN Moved(q, ch, "OTHER")
             ELSE IF character_class(ch) = "ERROR" THEN Fail(q, "BAD_CHAR")
             ELSE Moved(q, ch, character_class(ch))
=============================================================================
