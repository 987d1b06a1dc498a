------------------------------ MODULE MCSystem ------------------------------
(***************************************************************************)
(* Values of System's constants for TLC.                                   *)
(***************************************************************************)
EXTENDS System

\* What the display may schedule in one tick.
MCOthers == {<<>>, <<"redraw">>}

\* The receivers of the streams: without and with the one that does not exist
\* (system.cpp:135-138, 11 and 30).
MCReceivers == <<"display">>
MCNullReceivers == <<"display", "null">>
=============================================================================
