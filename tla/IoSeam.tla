------------------------------- MODULE IoSeam --------------------------------
(***************************************************************************)
(* The I/O bridge of diego.c: who runs the game's packet decoder and       *)
(* control callback.  The poll thread does from the start.  At a frame     *)
(* boundary the thread that renders may claim them, once, if it is the     *)
(* thread the game's own code was seen on.  shim_exit shuts the bridge     *)
(* down from whichever thread called it.                                   *)
(*                                                                         *)
(* game_irq_wait and the side-thread lock around the poll thread's calls   *)
(* bound when those calls start, not who makes them, and are left out; so  *)
(* is the time arithmetic of dispatch_game_callbacks, whose result is that *)
(* between 0 and CatchUp ticks are owed.                                   *)
(***************************************************************************)
EXTENDS Integers

CONSTANTS
    Threads,     \* threads of the game
    Poll,        \* the thread of poll_thread
    Frame,       \* the thread that calls grBufferSwap
    Starter,     \* s_game_thread, the one that calls game_run
    HasPrintf,   \* G->printf_empty: the title's printf is hooked
    Printers,    \* threads that call it while they run game code
    Exits,       \* threads that may call shim_exit
    MaxWaits,    \* the 120 boundaries that wait for a printf
    CatchUp,     \* IO_CATCHUP_MAX
    Nobody       \* no thread

ASSUME SeamAssumption ==
    /\ Poll \notin Threads /\ Nobody \notin Threads \cup {Poll}
    /\ Frame \in Threads /\ Starter \in Threads
    /\ HasPrintf \in BOOLEAN
    /\ Printers \subseteq Threads \cup {Poll}
    /\ Exits \subseteq Threads \cup {Poll}
    /\ MaxWaits \in Nat /\ CatchUp \in Nat

VARIABLES
    flag,      \* s_frame_dispatch
    idle,      \* s_poll_idle, manual-reset
    started,   \* s_poll_start, manual-reset
    stop,      \* s_stop
    stopEv,    \* s_poll_stop, manual-reset
    rx,        \* s_rx /= NULL, and the events exist
    open,      \* s_transport is open
    logic,     \* s_gt_logic, or Nobody
    checked,   \* the frame boundary's static `checked`
    waited,    \* and its static `waited`
    pc,        \* where each thread is
    owed,      \* ticks a dispatch still owes, of the thread that dispatches
    exiting,   \* the thread that runs shim_exit's shutdowns, or Nobody
    xpc        \* where it is in diego_shutdown

events == <<idle, started, stopEv>>
bridge == <<rx, open, stop>>
census == <<logic, checked, waited>>
shut == <<exiting, xpc>>
vars == <<flag, events, bridge, census, pc, owed, shut>>

GameCode == {"decode", "callback"}
Dispatch == GameCode \cup {"transmit"}
PollPlace == {"start", "top", "test", "reset", "recheck", "recheckstop",
              "idle", "sleep", "deliver", "gone", "exit"} \cup Dispatch
GamePlace == {"out", "check", "claim", "refuse", "exit"} \cup Dispatch

TypeOK ==
    /\ flag \in BOOLEAN /\ idle \in BOOLEAN /\ started \in BOOLEAN
    /\ stop \in BOOLEAN /\ stopEv \in BOOLEAN
    /\ rx \in BOOLEAN /\ open \in BOOLEAN
    /\ logic \in Threads \cup {Poll, Nobody}
    /\ checked \in BOOLEAN /\ waited \in 0 .. MaxWaits
    /\ pc \in [Threads \cup {Poll} -> PollPlace \cup GamePlace]
    /\ pc[Poll] \in PollPlace
    /\ \A t \in Threads : pc[t] \in IF t = Frame THEN GamePlace
                                                 ELSE {"out", "exit"}
    /\ owed \in [{Frame, Poll} -> 0 .. CatchUp]
    /\ exiting \in Threads \cup {Poll, Nobody}
    /\ xpc \in {"none", "stop", "event", "join", "close", "clear", "unflag",
                "dead"}

\* diego_install has created the events and the thread.
Init ==
    /\ flag = FALSE
    /\ idle = TRUE /\ started = FALSE /\ stopEv = FALSE
    /\ rx = TRUE /\ open = TRUE /\ stop = FALSE
    /\ logic = Nobody /\ checked = FALSE /\ waited = 0
    /\ pc = [t \in Threads \cup {Poll} |-> IF t = Poll THEN "start" ELSE "out"]
    /\ owed = [t \in {Frame, Poll} |-> 0]
    /\ exiting = Nobody /\ xpc = "none"

Alive == xpc /= "dead"
Goto(t, p) == pc' = [pc EXCEPT ![t] = p]

\* Thread t moves from one place to another and changes nothing else.
Moves(t, from, to) ==
    /\ Alive /\ pc[t] = from
    /\ Goto(t, to)
    /\ UNCHANGED <<flag, events, bridge, census, owed, shut>>

\* The rest of diego_install: its own first decode, with the poll thread held
\* back; then the game runs.
Seeded ==
    /\ ~started
    /\ started' = TRUE
    /\ UNCHANGED <<flag, idle, stopEv, bridge, census, pc, owed, shut>>

-----------------------------------------------------------------------------
(* One dispatch, on either thread: a board frame into the decoder, then    *)
(* every control callback owed, each with its own transmit and, after the  *)
(* first, with a board frame of its own.                                   *)

\* Where thread t goes on when its dispatch is over.
DispatchEnd(t) == IF t = Poll THEN "idle" ELSE "out"

\* The first decode returns; so many ticks are owed.
OwedTicks(t) ==
    /\ Alive /\ pc[t] = "decode" /\ owed[t] = 0
    /\ \E n \in 0 .. CatchUp :
        /\ owed' = [owed EXCEPT ![t] = n]
        /\ Goto(t, IF n = 0 THEN DispatchEnd(t) ELSE "callback")
    /\ UNCHANGED <<flag, events, bridge, census, shut>>

\* No callback is registered, or comm is off: transmit once.
NoCallback(t) ==
    /\ owed[t] = 0
    /\ Moves(t, "decode", IF open THEN "transmit" ELSE DispatchEnd(t))

NextTick(t) == owed[t] > 0 /\ Moves(t, "decode", "callback")

\* transmit() leaves a transport that is gone alone.
CallbackDone(t) ==
    /\ Alive /\ pc[t] = "callback"
    /\ owed' = [owed EXCEPT ![t] = @ - 1]
    /\ Goto(t, IF open THEN "transmit"
               ELSE IF owed[t] > 1 THEN "decode" ELSE DispatchEnd(t))
    /\ UNCHANGED <<flag, events, bridge, census, shut>>

Transmitted(t) ==
    Moves(t, "transmit", IF owed[t] > 0 THEN "decode" ELSE DispatchEnd(t))

Dispatching(t) ==
    OwedTicks(t) \/ NoCallback(t) \/ NextTick(t) \/ CallbackDone(t)
        \/ Transmitted(t)

-----------------------------------------------------------------------------
(* diego_frame_boundary and claim_frame_dispatch.                          *)

Boundary == started /\ rx /\ Moves(Frame, "out", "check")

\* No printf has told where the game's logic runs; wait some boundaries more.
WaitForLogic ==
    /\ Alive /\ pc[Frame] = "check" /\ ~checked
    /\ logic = Nobody /\ HasPrintf /\ waited < MaxWaits
    /\ waited' = waited + 1
    /\ Goto(Frame, "out")
    /\ UNCHANGED <<flag, events, bridge, logic, checked, owed, shut>>

\* The thread that renders is the one the game was seen on, or started on.
RightThread == IF logic = Nobody THEN Frame = Starter ELSE Frame = logic

Check ==
    /\ Alive /\ pc[Frame] = "check" /\ ~checked
    /\ ~(logic = Nobody /\ HasPrintf /\ waited < MaxWaits)
    /\ checked' = TRUE
    /\ IF RightThread THEN flag' = TRUE /\ Goto(Frame, "claim")
                      ELSE UNCHANGED flag /\ Goto(Frame, "out")
    /\ UNCHANGED <<events, bridge, logic, waited, owed, shut>>

\* Mutant of ClaimGranted: the flag is set, the acknowledgement not awaited.
ClaimUnacknowledged == rx /\ Moves(Frame, "claim", "out")

ClaimGranted == idle /\ rx /\ Moves(Frame, "claim", "out")

\* IO_CLAIM_WAIT_MS went by, or the event is gone.
ClaimFails == (~idle \/ ~rx) /\ Moves(Frame, "claim", "refuse")

Refuse ==
    /\ Alive /\ pc[Frame] = "refuse"
    /\ flag' = FALSE
    /\ Goto(Frame, "out")
    /\ UNCHANGED <<events, bridge, census, owed, shut>>

\* Mutant of NotTheSeam: the boundary returns whatever the flag says.
NeverTheSeam == checked /\ Moves(Frame, "check", "out")

NotTheSeam == checked /\ ~flag /\ Moves(Frame, "check", "out")

FrameDispatch == checked /\ flag /\ Moves(Frame, "check", "decode")

FrameStep ==
    WaitForLogic \/ Check \/ ClaimGranted \/ ClaimFails \/ Refuse
        \/ NotTheSeam \/ FrameDispatch \/ Dispatching(Frame)

-----------------------------------------------------------------------------
(* poll_thread and poll_wait.                                              *)

PollStarts == started /\ Moves(Poll, "start", "top")
PollSamples == ~stop /\ Moves(Poll, "top", "test")
PollEnds == stop /\ Moves(Poll, "top", "gone")
PollTests == Moves(Poll, "test", IF flag THEN "sleep" ELSE "reset")

PollResetsIdle ==
    /\ Alive /\ pc[Poll] = "reset"
    /\ idle' = FALSE
    /\ Goto(Poll, "recheck")
    /\ UNCHANGED <<flag, started, stopEv, bridge, census, owed, shut>>

\* Mutant of PollRechecks: the flag was tested once, that will do.
RecheckNothing == Moves(Poll, "recheck", "recheckstop")

\* Closes the race with claim_frame_dispatch.
PollRechecks == Moves(Poll, "recheck", IF flag THEN "idle" ELSE "recheckstop")
PollRechecksStop == Moves(Poll, "recheckstop", IF stop THEN "idle" ELSE "decode")

PollSetsIdle ==
    /\ Alive /\ pc[Poll] = "idle"
    /\ idle' = TRUE
    /\ Goto(Poll, "sleep")
    /\ UNCHANGED <<flag, started, stopEv, bridge, census, owed, shut>>

PollStopped == stopEv /\ Moves(Poll, "sleep", "gone")
PollWakes == ~stopEv /\ Moves(Poll, "sleep", "top")

\* A queued force falls due during the wait.
ForceDue == ~stopEv /\ open /\ Moves(Poll, "sleep", "deliver")
Delivered == Moves(Poll, "deliver", "sleep")

PollStep ==
    PollStarts \/ PollSamples \/ PollEnds \/ PollTests \/ PollResetsIdle
        \/ PollRechecks \/ PollRechecksStop \/ PollSetsIdle \/ PollStopped
        \/ PollWakes \/ Delivered \/ Dispatching(Poll)

-----------------------------------------------------------------------------
(* The game around them: its printf, and its ways out.                     *)

RunsGameCode(t) ==
    started /\ pc[t] \in IF t = Poll THEN GameCode ELSE GameCode \cup {"out"}

\* The census takes the last thread that called the game's printf.
Printf(t) ==
    /\ Alive /\ HasPrintf /\ RunsGameCode(t)
    /\ logic' = t
    /\ UNCHANGED <<flag, events, bridge, checked, waited, pc, owed, shut>>

\* shim_exit: the first thread shuts down, every later one sleeps for good.
Exit(t) ==
    /\ Alive /\ RunsGameCode(t)
    /\ Goto(t, "exit")
    /\ IF exiting = Nobody THEN exiting' = t /\ xpc' = "stop"
                           ELSE UNCHANGED shut
    /\ UNCHANGED <<flag, events, bridge, census, owed>>

ShutDown(from, to) == xpc = from /\ xpc' = to /\ UNCHANGED <<exiting, pc, owed>>

ExitStops ==
    /\ ShutDown("stop", "event")
    /\ stop' = TRUE
    /\ UNCHANGED <<flag, events, rx, open, census>>

ExitSignals ==
    /\ ShutDown("event", "join")
    /\ stopEv' = TRUE /\ started' = TRUE
    /\ UNCHANGED <<flag, idle, bridge, census>>

\* Mutants of ExitJoins: no join; a join of the frame thread as well.
ExitUnjoined ==
    /\ ShutDown("join", "close")
    /\ UNCHANGED <<flag, events, bridge, census>>

ExitJoinsFrame ==
    /\ pc[Poll] = "gone" /\ pc[Frame] = "out"
    /\ ShutDown("join", "close")
    /\ UNCHANGED <<flag, events, bridge, census>>

\* The join has no timeout.
ExitJoins ==
    /\ pc[Poll] = "gone"
    /\ ShutDown("join", "close")
    /\ UNCHANGED <<flag, events, bridge, census>>

\* The transport, the wheel and the motors are released.
ExitCloses ==
    /\ ShutDown("close", "clear")
    /\ open' = FALSE
    /\ UNCHANGED <<flag, events, rx, stop, census>>

ExitClears ==
    /\ ShutDown("clear", "unflag")
    /\ rx' = FALSE
    /\ UNCHANGED <<flag, events, open, stop, census>>

\* The last line of diego_shutdown, and ExitProcess.
ExitProcess ==
    /\ ShutDown("unflag", "dead")
    /\ flag' = FALSE
    /\ UNCHANGED <<events, bridge, census>>

ExitStep ==
    ExitStops \/ ExitSignals \/ ExitJoins \/ ExitCloses \/ ExitClears
        \/ ExitProcess

\* The process is gone.
Ended == ~Alive /\ UNCHANGED vars

Next ==
    \/ Seeded \/ Boundary \/ FrameStep \/ PollStep \/ ForceDue
    \/ \E t \in Printers : Printf(t)
    \/ \E t \in Exits : Exit(t)
    \/ ExitStep \/ Ended

Spec == Init /\ [][Next]_vars

\* The system schedules every thread, the game goes on rendering, its decoder
\* and callback return, and the few forces queued do not keep poll_wait busy
\* for ever.
FairSpec ==
    /\ Spec
    /\ WF_vars(Seeded) /\ WF_vars(Boundary) /\ WF_vars(FrameStep)
    /\ WF_vars(PollStep) /\ WF_vars(ExitStep)
    /\ SF_vars(PollWakes \/ PollStopped)

-----------------------------------------------------------------------------
\* The frame thread has been granted the seam.
Claimed == checked /\ flag /\ pc[Frame] \notin {"claim", "refuse"}

\* From the moment claim_frame_dispatch returns 1 the poll thread never is in
\* the game's decoder or callback again: the handshake of s_frame_dispatch and
\* s_poll_idle leaves no pass that started before the claim.
SeamExclusion == Claimed => pc[Poll] \notin Dispatch

\* The transport, the wheel and the motors are there for the thread that
\* transmits through them, and are not being released.
MayTransmit == open /\ xpc /= "close"

\* Whichever thread exits, diego_shutdown takes nothing away from under the
\* poll thread: it calls no decoder through a cleared s_rx and transmits
\* through no transport, wheel or motor that is released.
ShutdownOrder ==
    Alive => /\ pc[Poll] \in GameCode => rx
             /\ pc[Poll] \in {"transmit", "deliver"} => MayTransmit

\* The decoder and the callback are one resource with one holder, handed over
\* once and with nobody inside, and at the end the process goes under the frame
\* thread at most, never under the poll thread (module GameCodeOwner).
Owner == INSTANCE GameCodeOwner WITH
    holder <- IF ~Alive THEN "nobody" ELSE IF Claimed THEN "frame" ELSE "poll",
    inside <- IF ~Alive THEN "none"
              ELSE IF pc[Poll] \in Dispatch THEN "poll"
              ELSE IF pc[Frame] \in Dispatch THEN "frame" ELSE "none"

OneOwner == Owner!Spec

\* Whether the seam is granted, refused or not wanted, board frames go on
\* reaching the decoder until the process shuts down.
DispatchContinues ==
    []<>(pc[Frame] = "decode" \/ pc[Poll] = "decode" \/ exiting /= Nobody)

\* Once a thread is in shim_exit the process ends.
ExitEnds == exiting /= Nobody ~> ~Alive
=============================================================================
