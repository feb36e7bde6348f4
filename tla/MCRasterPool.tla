---------------------------- MODULE MCRasterPool ----------------------------
(* A pool of at most three threads (two workers) over triangles of up to   *)
(* three rows: equal and unequal blocks, empty blocks (fewer rows than     *)
(* threads) and a pool truncated by a failed CreateThread all occur.       *)
EXTENDS RasterPool

CONSTANTS p1, p2

MCIncarnations == {p1, p2}
=============================================================================
