------------------------------ MODULE MCPQueue ------------------------------
(***************************************************************************)
(* Instances of PQueue for TLC.                                            *)
(***************************************************************************)
EXTENDS PQueue, TLC

(* Seven jobs fill three levels; some tie, also for the first place.      *)
SevenKeys == ("a" :> 0) @@ ("b" :> 0) @@ ("c" :> 1) @@ ("d" :> 2) @@ ("e" :> 2)
             @@ ("f" :> 3) @@ ("g" :> 3)
=============================================================================
