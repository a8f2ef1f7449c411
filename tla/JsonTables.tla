----------------------------- MODULE JsonTables -----------------------------
(***************************************************************************)
(* The tables of the JSON parser (src/json.c): which class a byte has,     *)
(* which state a class leads to, and which bytes are kept in the buffer.   *)
(*                                                                         *)
(* A byte is a number.  Classes, states and actions have the names of the  *)
(* code without their prefixes C_ and STATE_.                              *)
(***************************************************************************)
EXTENDS Naturals

(* Character classes.                                                      *)

White   == {"SPACE", "NL", "WHITE"}
Digits  == {"ZERO", "DIGIT"}
Hex     == Digits \cup {"a", "b", "c", "d", "e", "f", "ABCDF", "E"}
Classes == White \cup Hex
             \cup {"LCURB", "RCURB", "LSQRB", "RSQRB", "COLON", "COMMA",
                   "QUOTE", "BACKS", "SLASH", "PLUS", "MINUS", "DOT",
                   "l", "n", "r", "s", "t", "u", "OTHER", "STAR", "HASH"}

(* Of the bytes below 128, in ASCII; the error class is for the controls   *)
(* that have no other.                                                     *)
character_class(ch) ==
    CASE ch = 32  -> "SPACE" [] ch = 10 -> "NL"    [] ch \in {9, 13} -> "WHITE"
      [] ch = 123 -> "LCURB" [] ch = 125 -> "RCURB" [] ch = 91  -> "LSQRB"
      [] ch = 93  -> "RSQRB" [] ch = 58  -> "COLON" [] ch = 44  -> "COMMA"
      [] ch = 34  -> "QUOTE" [] ch = 92  -> "BACKS" [] ch = 47  -> "SLASH"
      [] ch = 43  -> "PLUS"  [] ch = 45  -> "MINUS" [] ch = 46  -> "DOT"
      [] ch = 48  -> "ZERO"  [] ch \in 49..57 -> "DIGIT"
      [] ch = 97  -> "a" [] ch = 98  -> "b" [] ch = 99  -> "c" [] ch = 100 -> "d"
      [] ch = 101 -> "e" [] ch = 102 -> "f" [] ch = 108 -> "l" [] ch = 110 -> "n"
      [] ch = 114 -> "r" [] ch = 115 -> "s" [] ch = 116 -> "t" [] ch = 117 -> "u"
      [] ch = 69  -> "E" [] ch \in {65, 66, 67, 68, 70} -> "ABCDF"
      [] ch = 42  -> "STAR"  [] ch = 35  -> "HASH"
      [] ch \in (0..31) \ {9, 10, 13} -> "ERROR"
      [] OTHER    -> "OTHER"

(* How many bytes follow a byte that starts a character, and which bytes   *)
(* may follow; 255 marks the bytes that cannot start one.                  *)
utf8_header_table(ch) ==
    CASE ch \in 0..127   -> 0
      [] ch \in 192..223 -> 1
      [] ch \in 224..239 -> 2
      [] ch \in 240..247 -> 3
      [] ch \in 248..251 -> 4
      [] ch \in 252..253 -> 5
      [] OTHER           -> 255

utf8_continuation_table(ch) == IF ch \in 128..191 THEN 0 ELSE 255

-----------------------------------------------------------------------------
(* The transition table, row by row, as the set of its moves: from a state *)
(* with one of some classes to a state or an action.  Where there is no    *)
(* move the table has an error.                                            *)

Move(from, classes, next) == <<from, classes, next>>

(* Both kinds of comment may start where white space may stand. *)
Blank(from, next) == {Move(from, White, next), Move(from, {"SLASH"}, "CB"),
                      Move(from, {"HASH"}, "YB")}

(* What may follow a value. *)
Closers(from) == {Move(from, {"RCURB"}, "OE"), Move(from, {"RSQRB"}, "AE"),
                  Move(from, {"COMMA"}, "SP")}

(* What a value may start with. *)
Values(from) == {Move(from, {"LCURB"}, "OB"), Move(from, {"LSQRB"}, "AB"),
                 Move(from, {"QUOTE"}, "_S"), Move(from, {"MINUS"}, "MX"),
                 Move(from, {"ZERO"}, "ZX"),  Move(from, {"DIGIT"}, "IX"),
                 Move(from, {"f"}, "F1"),     Move(from, {"n"}, "N1"),
                 Move(from, {"t"}, "T1")}

StartRows ==
    Blank("GO", "GO") \cup Blank("OK", "OK") \cup Closers("OK")
        \cup {Move("GO", {"LCURB"}, "OB"), Move("GO", {"LSQRB"}, "AB")}

ObjectRows ==
    Blank("_O", "_O") \cup Blank("_K", "_K") \cup Blank("CO", "CO")
        \cup {Move("_O", {"RCURB"}, "OE"), Move("_O", {"QUOTE"}, "_S"),
              Move("_K", {"QUOTE"}, "_S"), Move("CO", {"COLON"}, "KS")}

ValueRows ==
    Blank("_V", "_V") \cup Values("_V") \cup Blank("_A", "_A") \cup Values("_A")
        \cup {Move("_A", {"RSQRB"}, "AE")}

(* What a backslash may escape, apart from \uXXXX. *)
Escaped == {"QUOTE", "BACKS", "SLASH", "b", "f", "n", "r", "t"}

StringRows ==
    {Move("_S", {"QUOTE"}, "SE"), Move("_S", {"BACKS"}, "E0"),
     Move("_S", Classes \ {"NL", "WHITE", "QUOTE", "BACKS"}, "_S"),
     Move("E0", Escaped, "_S"),
     Move("E0", {"u"}, "U1")}

UnicodeRows ==
    {Move("U1", Hex, "U2"), Move("U2", Hex, "U3"), Move("U3", Hex, "U4"),
     Move("U4", Hex, "UC")}

IntegerRows ==
    Blank("Z0", "OK") \cup Closers("Z0") \cup Blank("I0", "OK") \cup Closers("I0")
        \cup {Move("M0", {"ZERO"}, "Z0"), Move("M0", {"DIGIT"}, "I0"),
              Move("Z0", {"DOT"}, "DF"), Move("I0", {"DOT"}, "DF"),
              Move("I0", Digits, "I0"), Move("I0", {"e", "E"}, "DE"),
              Move("R1", Digits, "R2")}

RealRows ==
    Blank("R2", "OK") \cup Closers("R2") \cup Closers("X3")
        \cup {Move("R2", Digits, "R2"), Move("R2", {"e", "E"}, "X1"),
              Move("X1", {"PLUS", "MINUS"}, "X2"), Move("X1", Digits, "X3"),
              Move("X2", Digits, "X3"), Move("X3", White, "OK"),
              Move("X3", Digits, "X3")}

TrueRows  == {Move("T1", {"r"}, "T2"), Move("T2", {"u"}, "T3"),
              Move("T3", {"e"}, "TR")}

FalseRows == {Move("F1", {"a"}, "F2"), Move("F2", {"l"}, "F3"),
              Move("F3", {"s"}, "F4"), Move("F4", {"e"}, "FA")}

NullRows  == {Move("N1", {"u"}, "N2"), Move("N2", {"l"}, "N3"),
              Move("N3", {"l"}, "NU")}

CommentRows ==
    {Move("C1", {"STAR"}, "C2"),
     Move("C2", {"STAR"}, "C3"), Move("C2", Classes \ {"STAR"}, "C2"),
     Move("C3", {"SLASH"}, "CE"), Move("C3", {"STAR"}, "C3"),
     Move("C3", Classes \ {"SLASH", "STAR"}, "C2")}

OtherRows ==
    {Move("Y1", {"NL"}, "CE"), Move("Y1", Classes \ {"NL"}, "Y1"),
     Move("D1", {"BACKS"}, "D2"), Move("D2", {"u"}, "U1")}

Table == StartRows \cup ObjectRows \cup ValueRows \cup StringRows
            \cup UnicodeRows \cup IntegerRows \cup RealRows \cup TrueRows
            \cup FalseRows \cup NullRows \cup CommentRows \cup OtherRows

state_transition_table(s, c) ==
    LET moves == {m \in Table : m[1] = s /\ c \in m[2]}
    IN  IF moves = {} THEN "__" ELSE (CHOOSE m \in moves : TRUE)[3]

Actions == {"KS", "SP", "AB", "AE", "OB", "OE", "CB", "YB", "CE", "FA", "TR",
            "NU", "DE", "DF", "SE", "MX", "ZX", "IX", "UC"}

IS_STATE_ACTION(s) == s \in Actions

-----------------------------------------------------------------------------
(* The classes whose bytes a state keeps in the buffer, and those it keeps *)
(* as the escape they stand for.                                           *)

Buffered ==
    {<<"_V", {"MINUS"} \cup Digits>>, <<"_A", {"MINUS"} \cup Digits>>,
     <<"_S", Classes \ {"NL", "WHITE", "QUOTE", "BACKS"}>>,
     <<"U1", Hex>>, <<"U2", Hex>>, <<"U3", Hex>>, <<"U4", Hex>>,
     <<"M0", Digits>>, <<"Z0", {"DOT"}>>,
     <<"I0", {"DOT", "e", "E"} \cup Digits>>,
     <<"R1", Digits>>, <<"R2", {"e", "E"} \cup Digits>>,
     <<"X1", {"PLUS", "MINUS"} \cup Digits>>, <<"X2", Digits>>, <<"X3", Digits>>}

buffer_policy_table(s, c) ==
    IF \E b \in Buffered : b[1] = s /\ c \in b[2] THEN "append"
    ELSE IF s = "E0" /\ c \in Escaped THEN "escape"
    ELSE "ignore"
=============================================================================
