----------------------------- MODULE MCTimebase ------------------------------
(* A counter of two ticks a second and a clock of three, sped up to four,  *)
(* over seven ticks of the counter.                                        *)
EXTENDS Timebase

CONSTANTS window, callback

CallbackReads == {callback}
=============================================================================
