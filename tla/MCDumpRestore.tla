---------------------------- MODULE MCDumpRestore ----------------------------
(***************************************************************************)
(* An instance of DumpRestore for TLC.                                     *)
(***************************************************************************)
EXTENDS DumpRestore

(* Two tasks with a common multiple of their periods, so that jobs arrive  *)
(* together; the second may exceed its budget.                             *)
TwoTasks == ("short" :> [period |-> 2, reldead |-> 2,
                         comp |-> <<1, 1, 0, 0, 0, 0>>, prob |-> <<100, 0>>])
            @@ ("long" :> [period |-> 4, reldead |-> 4,
                           comp |-> <<1, 1, 2, 3, 0, 0>>, prob |-> <<50, 50>>])
=============================================================================
