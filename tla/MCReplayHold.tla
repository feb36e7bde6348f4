---------------------------- MODULE MCReplayHold -----------------------------
(* One game thread, which also draws, and the tick.                        *)
EXTENDS ReplayHold

CONSTANTS g1, isr

OneGame == {g1}
=============================================================================
