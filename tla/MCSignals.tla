------------------------------ MODULE MCSignals ------------------------------
(***************************************************************************)
(* An instance of Signals for TLC.                                         *)
(***************************************************************************)
EXTENDS Signals

(* Two tasks, the second of which may exceed its budget and miss.          *)
TwoTasks == ("short" :> [period |-> 2, reldead |-> 2,
                         comp |-> <<1, 1, 0, 0, 0, 0>>, prob |-> <<100, 0>>])
            @@ ("long" :> [period |-> 4, reldead |-> 3,
                           comp |-> <<1, 1, 2, 3, 0, 0>>, prob |-> <<50, 50>>])
=============================================================================
