------------------------------ MODULE MCIoSeam ------------------------------
(* The main thread, which starts the game and renders, and one more.       *)
EXTENDS IoSeam

CONSTANTS main, other, poll, nobody

TwoThreads == {main, other}
OnlyMain == {main}
OnlyOther == {other}
OnlyPoll == {poll}
Everyone == {main, other, poll}
=============================================================================
