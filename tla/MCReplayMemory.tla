--------------------------- MODULE MCReplayMemory ----------------------------
(* One page of a heap below one of a reservation: a heap that grows moves  *)
(* the reservation's place in every buffer.                                *)
EXTENDS ReplayMemory
=============================================================================
