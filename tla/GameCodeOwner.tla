---------------------------- MODULE GameCodeOwner ----------------------------
(***************************************************************************)
(* What the I/O bridge promises about the game's own packet decoder and    *)
(* control callback: one thread at a time runs them, the poll thread from  *)
(* the start, and the frame thread once it has been handed them, for good. *)
(***************************************************************************)
VARIABLES
    holder,   \* who may run the game's code: "poll", "frame" or "nobody"
    inside    \* who is running it: "poll", "frame" or "none"

vars == <<holder, inside>>

Init == holder = "poll" /\ inside = "none"

\* The holder calls into the game's code, and comes back.
Enter ==
    /\ inside = "none" /\ holder /= "nobody"
    /\ inside' = holder
    /\ UNCHANGED holder

Leave ==
    /\ inside /= "none"
    /\ inside' = "none"
    /\ UNCHANGED holder

\* The frame thread takes the code over, with nobody inside it.
HandOver ==
    /\ holder = "poll" /\ inside = "none"
    /\ holder' = "frame"
    /\ UNCHANGED inside

\* The process ends, with whoever is inside; the poll thread never is, for the
\* shutdown has waited for it.
Close ==
    /\ holder /= "nobody" /\ inside /= "poll"
    /\ holder' = "nobody" /\ inside' = "none"

Next == Enter \/ Leave \/ HandOver \/ Close

Spec == Init /\ [][Next]_vars
=============================================================================
