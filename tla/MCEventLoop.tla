----------------------------- MODULE MCEventLoop -----------------------------
(***************************************************************************)
(* Instances of EventLoop for TLC.                                         *)
(***************************************************************************)
EXTENDS EventLoop, TLC

(* A high criticality task that may exceed its budget of 1 by 2, and a low *)
(* criticality task with a shorter period.  Together they can miss.        *)
LoHi == ("lo" :> [period |-> 3, reldead |-> 3,
                  comp |-> <<1, 2, 0, 0, 0, 0>>, prob |-> <<100, 0>>])
        @@ ("hi" :> [period |-> 4, reldead |-> 4,
                     comp |-> <<1, 1, 3, 3, 0, 0>>, prob |-> <<50, 50>>])
=============================================================================
