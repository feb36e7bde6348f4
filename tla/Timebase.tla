------------------------------ MODULE Timebase -------------------------------
(***************************************************************************)
(* The virtual CPU clock of timebase.c.  synth_ticks turns the time since  *)
(* an epoch into ticks of the cabinet's processor; timebase_pause freezes  *)
(* the clock over a modal loop of the window and moves the epoch by the    *)
(* time it was frozen.  Neither takes a lock: the window thread pauses,    *)
(* and any thread that runs game code reads.                               *)
(***************************************************************************)
EXTENDS Integers

CONSTANTS
    Pauser,        \* the thread of the window
    Readers,       \* threads that call _cpuTimeStamp or timebase_ticks
    Qpf,           \* ticks of the host's performance counter per second
    TargetHz,      \* s_target_hz
    SpeedPercent,  \* the configured speed_percent
    Word,          \* 2^64: the elapsed time is a uint64_t
    MaxQpc,        \* bound: how long a behaviour lasts
    MaxDepth       \* bound: how deep modal loops nest

ASSUME TimeAssumption ==
    /\ Qpf \in Nat \ {0} /\ TargetHz \in Nat \ {0} /\ SpeedPercent \in Nat
    /\ MaxQpc \in Nat /\ MaxDepth \in Nat
    /\ Word \in Nat /\ Word > MaxQpc

VARIABLES
    qpc,       \* the host's performance counter
    epoch,     \* s_qpc0, zero when timebase_init read it
    paused,    \* s_paused
    mark,      \* s_pause_qpc
    depth,     \* s_pause_depth
    ppc,       \* where the window thread is in timebase_pause
    end,       \* its local `now`
    rpc,       \* where each reader is in synth_ticks
    now,       \* its local `now`
    held,      \* history: how long the clock was to stand still so far
    met,       \* history: the reads in progress that met an edge of a pause
    ideal      \* history: how long it had not, when a reader took its `now`

pause == <<paused, mark, depth, ppc, end>>
reads == <<rpc, now, met, ideal>>
vars == <<qpc, epoch, pause, reads, held>>

\* timebase_init's choice of a rate.
ClockHz == (TargetHz * (IF SpeedPercent \in 25 .. 400 THEN SpeedPercent
                                                      ELSE 100)) \div 100

\* synth_ticks: whole seconds and the remainder apart.
Ticks(d) == (d \div Qpf) * ClockHz + ((d % Qpf) * ClockHz) \div Qpf

TypeOK ==
    /\ qpc \in 0 .. MaxQpc /\ epoch \in 0 .. MaxQpc
    /\ mark \in 0 .. MaxQpc /\ end \in 0 .. MaxQpc /\ held \in 0 .. MaxQpc
    /\ paused \in BOOLEAN
    /\ depth \in 0 .. MaxDepth
    /\ ppc \in {"out", "marked", "measured", "moved"}
    /\ rpc \in [Readers -> {"out", "held", "live", "epoch"}]
    /\ now \in [Readers -> 0 .. MaxQpc]
    /\ met \subseteq Readers
    /\ ideal \in [Readers -> 0 .. MaxQpc]

Init ==
    /\ qpc = 0 /\ epoch = 0 /\ mark = 0 /\ end = 0 /\ held = 0
    /\ paused = FALSE /\ depth = 0 /\ ppc = "out"
    /\ rpc = [r \in Readers |-> "out"]
    /\ now = [r \in Readers |-> 0]
    /\ met = {} /\ ideal = [r \in Readers |-> 0]

\* A window thread that reads the clock itself does one thing at a time.
NotReading == Pauser \in Readers => rpc[Pauser] = "out"

\* Time passes; the clock is to stand still from the first pause to the last
\* resume.
Elapse ==
    /\ qpc < MaxQpc
    /\ qpc' = qpc + 1
    /\ held' = IF depth > 0 THEN held + 1 ELSE held
    /\ UNCHANGED <<epoch, pause, reads>>

\* The reads that are in progress meet an edge of a pause.
MeetsEdge ==
    /\ met' = met \cup {r \in Readers : rpc[r] /= "out"}
    /\ UNCHANGED <<rpc, now, ideal>>

-----------------------------------------------------------------------------
(* timebase_pause(1).                                                      *)

\* Mutant of PauseNested: an inner loop takes its own mark.
MarkAgain ==
    /\ ppc = "out" /\ NotReading
    /\ depth \in 1 .. (MaxDepth - 1)
    /\ depth' = depth + 1
    /\ mark' = qpc
    /\ UNCHANGED <<qpc, epoch, paused, ppc, end, reads, held>>

PauseNested ==
    /\ ppc = "out" /\ NotReading
    /\ depth \in 1 .. (MaxDepth - 1)
    /\ depth' = depth + 1
    /\ UNCHANGED <<qpc, epoch, paused, mark, ppc, end, reads, held>>

PauseBegins ==
    /\ ppc = "out" /\ NotReading
    /\ depth = 0 /\ MaxDepth > 0
    /\ depth' = 1
    /\ mark' = qpc
    /\ ppc' = "marked"
    /\ MeetsEdge
    /\ UNCHANGED <<qpc, epoch, paused, end, held>>

PauseSet ==
    /\ ppc = "marked"
    /\ paused' = TRUE
    /\ ppc' = "out"
    /\ UNCHANGED <<qpc, epoch, mark, depth, end, reads, held>>

(* timebase_pause(0).  Without a pause to end it returns.                  *)

ResumeNested ==
    /\ ppc = "out" /\ NotReading
    /\ depth > 1
    /\ depth' = depth - 1
    /\ UNCHANGED <<qpc, epoch, paused, mark, ppc, end, reads, held>>

ResumeBegins ==
    /\ ppc = "out" /\ NotReading
    /\ depth = 1
    /\ depth' = 0
    /\ end' = qpc
    /\ ppc' = "measured"
    /\ MeetsEdge
    /\ UNCHANGED <<qpc, epoch, paused, mark, held>>

EpochMoves ==
    /\ ppc = "measured"
    /\ epoch' = epoch + (end - mark)
    /\ ppc' = "moved"
    /\ UNCHANGED <<qpc, paused, mark, depth, end, reads, held>>

PauseClears ==
    /\ ppc = "moved"
    /\ paused' = FALSE
    /\ ppc' = "out"
    /\ UNCHANGED <<qpc, epoch, mark, depth, end, reads, held>>

-----------------------------------------------------------------------------
(* synth_ticks on thread r.                                                *)

ReadPaused(r) ==
    /\ rpc[r] = "out"
    /\ r = Pauser => ppc = "out"
    /\ rpc' = [rpc EXCEPT ![r] = IF paused THEN "held" ELSE "live"]
    /\ met' = IF ppc = "out" THEN met \ {r} ELSE met \cup {r}
    /\ UNCHANGED <<qpc, epoch, pause, now, ideal, held>>

ReadNow(r) ==
    /\ rpc[r] \in {"held", "live"}
    /\ now' = [now EXCEPT ![r] = IF rpc[r] = "held" THEN mark ELSE qpc]
    /\ rpc' = [rpc EXCEPT ![r] = "epoch"]
    /\ ideal' = [ideal EXCEPT ![r] = qpc - held]
    /\ UNCHANGED <<qpc, epoch, pause, met, held>>

\* The value a reader is about to return: an unsigned difference, converted.
Value(r) == Ticks((now[r] - epoch) % Word)

ReadEpoch(r) ==
    /\ rpc[r] = "epoch"
    /\ rpc' = [rpc EXCEPT ![r] = "out"]
    /\ UNCHANGED <<qpc, epoch, pause, now, met, ideal, held>>

Next ==
    \/ Elapse \/ PauseNested \/ PauseBegins \/ PauseSet
    \/ ResumeNested \/ ResumeBegins \/ EpochMoves \/ PauseClears
    \/ \E r \in Readers : ReadPaused(r) \/ ReadNow(r) \/ ReadEpoch(r)

Spec == Init /\ [][Next]_vars

-----------------------------------------------------------------------------
\* A read that is about to return, and around which no outermost pause began
\* or ended.
Clean(r) == rpc[r] = "epoch" /\ r \notin met

\* Such a read, on any thread, returns the ticks of the time that had passed
\* outside the pauses when it took the counter; so it is not ahead of the time
\* that has passed, and of two the later returns no less: the game subtracts
\* time stamps, and a sleep of its own waits on them.
TrueReads ==
    /\ \A r \in Readers :
        Clean(r) => Value(r) = Ticks(ideal[r]) /\ Value(r) <= Ticks(qpc)
    /\ \A r, q \in Readers :
        Clean(r) /\ Clean(q) /\ ideal[r] <= ideal[q] => Value(r) <= Value(q)

\* What timebase.c says of a pause: no read at all is ahead of the time that
\* has passed, no artificial long frame.
NeverAhead == \A r \in Readers : rpc[r] = "epoch" => Value(r) <= Ticks(qpc)

\* Between two pauses the epoch has moved by exactly the time the clock was to
\* stand still, nested modal loops counted once, and so has every read around
\* which no pause began or ended, inside a pause as well.
PauseAccounts ==
    /\ ppc = "out" /\ depth = 0 => epoch = held
    /\ \A r \in Readers : Clean(r) => now[r] - epoch = ideal[r]
=============================================================================
