----------------------------- MODULE MCDcsMask -----------------------------
(* One or two game threads and the tick, each nesting DCS locks twice.     *)
EXTENDS DcsMask

CONSTANTS g1, g2, isr

OneGame == {g1}
TwoGames == {g1, g2}
=============================================================================
