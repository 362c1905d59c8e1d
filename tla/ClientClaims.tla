---------------------------- MODULE ClientClaims ----------------------------
(* What comments of the client say of it and a run of the model refutes.    *)
EXTENDS Client

\* li_qu_thread.c:149 "Show the Window, because the max. of catalogs is loaded": with
\* more catalogs than that the player, who closes nothing, still gets to choose.
\* The name that was not read is taken for the next header and ends the client.
OverflowSurvives == proc # "exited"

\* li_qu_thread.c:415 "Block listener thread, until process gets closed": a fatal
\* message ends the process.  A callback of the GUI whose write fails on the closed
\* socket waits in the GUI thread, with its lock, for a post that never comes.
FatalEnds == srv = "over" ~> proc # "running"

=============================================================================
