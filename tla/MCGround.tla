------------------------------ MODULE MCGround ------------------------------
(***************************************************************************)
(* Values of Ground's constants for TLC.                                   *)
(***************************************************************************)
EXTENDS Ground

\* Of each kind a short payload, and one that looks like a frame.
MCReports == {<<0, 3>>, <<204, 129, 1, 0>>}
MCAnswers == {<<0, 5, 7>>, <<204, 136, 3>>}
=============================================================================
