------------------------------ MODULE MCSEList ------------------------------
(***************************************************************************)
(* An instance of SEList for TLC: nodes of 4, and lists of 3 nodes.        *)
(***************************************************************************)
EXTENDS SEList
=============================================================================
