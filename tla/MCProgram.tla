------------------------------ MODULE MCProgram ------------------------------
(***************************************************************************)
(* An instance of Program for TLC.                                         *)
(***************************************************************************)
EXTENDS Program

SomeCharacters ==
    Flags \cup Others \cup WithArgument \cup {"s", "p", "2", "7", "_dump.json"}

(* Arguments that are empty, that look like an option or its letters, that *)
(* are too long, and names of files that are there or not; the one to      *)
(* resume from may be the one that the dump is written to.                 *)
SomeArguments ==
    [c \in WithArgument |->
        CASE c = "n" -> {<<>>, <<"n">>, <<"-", "b">>, <<"p", "p", "p">>}
          [] c = "j" -> {<<"t", "s">>, <<"-", "b">>}
          [] c = "r" -> {<<"n", "_dump.json">>}
          [] c = "t" -> {<<"7", "2">>, <<"-", "2">>}
          [] c = "z" -> {<<"7", "x">>}
          [] c = "w" -> {<<"a">>}]

SomeWords == {<<>>, <<"-">>}

SomeDisk == (<<"t", "s">> :> "tasks") @@ (<<"n", "_dump.json">> :> "dump")
=============================================================================
