---------------------------- MODULE JsonPrinter ----------------------------
(***************************************************************************)
(* The JSON printer (json_print_init to json_print_pretty of src/json.c):  *)
(* struct json_printer as a record, and one call that prints one event.    *)
(*                                                                         *)
(* The callback is the one of src/dump.c, which appends the bytes to a     *)
(* file and of which no result is looked at: out is what it was given.     *)
(***************************************************************************)
EXTENDS Naturals, Sequences, SequencesExt, TLC

json_print_init ==
    [indentlevel |-> 0, afterkey |-> FALSE, enter_object |-> TRUE,
     first |-> TRUE, out |-> <<>>]

Digit16(n) == IF n < 10 THEN 48 + n ELSE 87 + n

(* The bytes that have a short escape, and \u00XX for the others that are  *)
(* escaped. *)
ShortEscapes == 8 :> 98 @@ 9 :> 116 @@ 10 :> 110 @@ 12 :> 102 @@ 13 :> 114
             @@ 34 :> 34 @@ 92 :> 92

character_escape(c) ==
    IF c \in DOMAIN ShortEscapes THEN <<92, ShortEscapes[c]>>
    ELSE IF c < 32 \/ c > 126
    THEN <<92, 117, 48, 48, Digit16(c \div 16), Digit16(c % 16)>>
    ELSE <<c>>

(* Fault: the table is used for the control characters only. *)
print_string_ControlsOnly(data) ==
    <<34>> \o FlattenSeq([i \in DOMAIN data |->
                 IF data[i] < 32 \/ data[i] = 92 THEN character_escape(data[i])
                                                 ELSE <<data[i]>>]) \o <<34>>

(* Bytes above 126 go out as they are. *)
print_string(data) ==
    <<34>> \o FlattenSeq([i \in DOMAIN data |->
                 IF data[i] < 36 \/ data[i] = 92 THEN character_escape(data[i])
                                                 ELSE <<data[i]>>]) \o <<34>>

print_binary_string(data) ==
    <<34>> \o FlattenSeq([i \in DOMAIN data |-> character_escape(data[i])])
           \o <<34>>

print_indent(level) == <<10>> \o [i \in 1..level |-> 9]

Ends == {"ARRAY_END", "OBJECT_END"}

(* What comes before an event, and the event itself, printed at a level.   *)
Separator(r, type, pretty) ==
    LET indent == IF pretty THEN print_indent(r.indentlevel) ELSE <<>>
    IN  CASE type \in Ends ->
               (IF r.enter_object \/ ~ pretty THEN <<>>
                ELSE print_indent(r.indentlevel - 1))
          [] type \notin Ends /\ ~ r.enter_object /\ ~ r.afterkey -> <<44>> \o indent
          [] type \notin Ends /\ r.enter_object /\ ~ r.first -> indent
          [] OTHER -> <<>>

Printed(type, data, pretty) ==
    CASE type = "ARRAY_BEGIN"      -> <<91>>
      [] type = "ARRAY_END"        -> <<93>>
      [] type = "OBJECT_BEGIN"     -> <<123>>
      [] type = "OBJECT_END"       -> <<125>>
      [] type \in {"INT", "FLOAT"} -> data
      [] type = "NULL"             -> <<110, 117, 108, 108>>
      [] type = "TRUE"             -> <<116, 114, 117, 101>>
      [] type = "FALSE"            -> <<102, 97, 108, 115, 101>>
      [] type = "KEY"     -> print_string(data) \o (IF pretty THEN <<58, 32>>
                                                              ELSE <<58>>)
      [] type = "STRING"  -> print_string(data)
      [] type = "BSTRING" -> print_binary_string(data)

(* json_print_pretty and json_print_raw, by the last argument. *)
json_print_mode(r, type, data, pretty) ==
    [indentlevel |-> CASE type \in {"ARRAY_BEGIN", "OBJECT_BEGIN"} ->
                             r.indentlevel + 1
                       [] type \in Ends -> r.indentlevel - 1
                       [] OTHER         -> r.indentlevel,
     afterkey     |-> type = "KEY",
     enter_object |-> type \in {"ARRAY_BEGIN", "OBJECT_BEGIN"},
     first        |-> FALSE,
     out |-> r.out \o Separator(r, type, pretty) \o Printed(type, data, pretty)]
=============================================================================
