----------------------------- MODULE WheelQueue ------------------------------
(***************************************************************************)
(* From the control tick to the wheel: dispatch_game_callbacks and         *)
(* transmit of diego.c decide how many ticks a pass owes and stamp each    *)
(* tick's force; the queue of io_board.c sends it now or at its stamp, by  *)
(* a timer that wakes the poll thread.                                     *)
(*                                                                         *)
(* Time is in milliseconds.  The half millisecond by which a send may be   *)
(* early is below that grain and left out.  Forces are numbered in the     *)
(* order the game wrote them.                                              *)
(***************************************************************************)
EXTENDS Integers, Sequences, SequencesExt

CONSTANTS
    Period,      \* s_callback_period_ms, even
    CatchUp,     \* IO_CATCHUP_MAX
    QueueMax,    \* WHEEL_QUEUE
    StampMin,    \* IO_STAMP_MIN_MS
    LastPass,    \* bound: no pass begins after it
    LastTime,    \* bound of the clock
    Never        \* no time

WheelAssumption ==
    /\ Period \in Nat \ {0} /\ Period % 2 = 0
    /\ CatchUp \in Nat \ {0} /\ QueueMax \in Nat \ {0}
    /\ StampMin \in Nat \ {0}
    /\ LastPass \in Nat /\ LastTime \in Nat
    /\ Never \notin Int

VARIABLES
    now,      \* io_clock_ms
    due,      \* s_due_ms, or Never when s_due_set is clear
    stamp,    \* s_stamp_last
    prior,    \* s_pass_last: the time of the last pass
    pass,     \* the pass under way: its time, step, ticks owed and done
    queue,    \* s_wheel_q from s_wheel_head on
    timer,    \* what s_wheel_timer is set to, Never when it is not
    handle,   \* s_wheel_timer # NULL
    open,     \* sim_close has not run
    given,    \* forces the game wrote
    sent,     \* the last one given to di_set_force
    base,     \* the time of the last resynchronisation
    calls     \* callbacks since

wheelVars == <<now, due, stamp, prior, pass, queue, timer, handle, open,
               given, sent, base, calls>>

cadence == <<due, base, calls>>
wheel == <<queue, timer, sent>>
Idle == [at |-> 0, step |-> 0, owed |-> 0, n |-> 0]

WheelTypeOK ==
    /\ now \in 0 .. LastTime
    /\ due = Never \/ due \in 0 .. LastTime + Period * CatchUp
    /\ stamp \in Nat /\ prior \in 0 .. LastTime
    /\ pass \in [at : 0 .. LastTime, step : 0 .. Period,
                 owed : 0 .. CatchUp, n : 0 .. CatchUp]
    /\ queue \in Seq([force : Nat, when : Nat]) /\ Len(queue) <= QueueMax
    /\ timer = Never \/ timer \in Nat
    /\ handle \in BOOLEAN /\ open \in BOOLEAN
    /\ given \in Nat /\ sent \in 0 .. given
    /\ base \in 0 .. LastTime /\ calls \in Nat

\* sim_open: the timer may not be had.
Init ==
    /\ now = 1 /\ due = Never /\ stamp = 0 /\ prior = 0 /\ pass = Idle
    /\ queue = <<>> /\ timer = Never
    /\ handle \in BOOLEAN /\ open = TRUE
    /\ given = 0 /\ sent = 0 /\ base = 0 /\ calls = 0

----------------------------------------------------------------------------
\* Mutant of Owed: a tick may come a whole period early.
OwedEarly(from) ==
    CHOOSE k \in 0 .. CatchUp :
        /\ \A j \in 0 .. k - 1 : now >= from + j * Period - Period
        /\ k = CatchUp \/ now < from + k * Period - Period

\* How many ticks a pass owes: those that are due within half a period.
Owed(from) ==
    CHOOSE k \in 0 .. CatchUp :
        /\ \A j \in 0 .. k - 1 : now >= from + j * Period - (Period \div 2)
        /\ k = CatchUp \/ now < from + k * Period - (Period \div 2)

\* Where the count starts: afresh when it fell too far behind.
From == IF due = Never \/ now - due > CatchUp * Period THEN now ELSE due

\* A burst that is wider than the passes are apart is spread over them:
\* s_pass_ms is an average, so any step up to the period.
Steps(owed) == IF owed > 1 THEN 1 .. Period ELSE {Period}

\* A frame or a poll period apart: never two in one millisecond.
Begins ==
    /\ pass = Idle /\ prior < now /\ now <= LastPass
    /\ prior' = now

PassBegins ==
    /\ Begins
    /\ \E step \in Steps(Owed(From)) :
          pass' = IF Owed(From) = 0 THEN Idle
                  ELSE [at |-> now, step |-> step, owed |-> Owed(From), n |-> 0]
    /\ due' = From + Owed(From) * Period
    /\ base' = IF From = due THEN base ELSE now
    /\ calls' = (IF From = due THEN calls ELSE 0) + Owed(From)
    /\ UNCHANGED <<now, stamp, wheel, handle, open, given>>

\* transmit: no stamp before the last one.
Stamp(when) ==
    IF stamp # 0 /\ when < stamp + StampMin THEN stamp + StampMin ELSE when

\* Mutant of Arm: the timer is left to the next delivery.
ArmLater(q) == UNCHANGED timer

\* wheel_arm
Arm(q) == timer' = IF q # <<>> /\ handle THEN q[1].when ELSE timer

\* The queue as it is in a full one after the oldest went out.
Room(q) == IF Len(q) = QueueMax THEN Tail(q) ELSE q

\* Mutant of Submit: a force that is due overtakes those that wait.
SubmitPast(force, when) ==
    IF ~handle \/ when <= now
        THEN /\ sent' = force
             /\ UNCHANGED <<queue, timer>>
        ELSE /\ sent' = IF Len(queue) = QueueMax THEN queue[1].force ELSE sent
             /\ queue' = Append(Room(queue), [force |-> force, when |-> when])
             /\ Arm(queue')

\* wheel_submit
Submit(force, when) ==
    IF ~handle \/ when <= now
        THEN /\ sent' = force
             /\ queue' = <<>>
             /\ UNCHANGED timer
        ELSE /\ sent' = IF Len(queue) = QueueMax THEN queue[1].force ELSE sent
             /\ queue' = Append(Room(queue), [force |-> force, when |-> when])
             /\ Arm(queue')

Transmit(when) ==
    /\ given' = given + 1
    /\ stamp' = Stamp(when)
    /\ Submit(given', stamp')

\* A callback of the pass and the transmit that follows it.
Tick ==
    /\ pass # Idle
    /\ pass' = IF pass.n + 1 = pass.owed THEN Idle
                                         ELSE [pass EXCEPT !.n = @ + 1]
    /\ Transmit(pass.at + pass.n * pass.step)
    /\ UNCHANGED <<now, prior, cadence, handle, open>>

\* With no callback or comm off a pass transmits once and forgets the count.
QuietPass ==
    /\ Begins
    /\ due' = Never
    /\ Transmit(now)
    /\ UNCHANGED <<now, pass, base, calls, handle, open>>

----------------------------------------------------------------------------
\* How much of the queue is due.
DueCount ==
    CHOOSE k \in 0 .. Len(queue) :
        /\ \A i \in 1 .. k : queue[i].when <= now
        /\ k = Len(queue) \/ queue[k + 1].when > now

\* sim_deliver, when the timer has woken poll_wait.
Deliver ==
    /\ open /\ timer # Never /\ timer <= now
    /\ sent' = IF DueCount = 0 THEN sent ELSE queue[DueCount].force
    /\ queue' = SubSeq(queue, DueCount + 1, Len(queue))
    /\ timer' = IF queue' # <<>> /\ handle THEN queue'[1].when ELSE Never
    /\ UNCHANGED <<now, stamp, prior, pass, cadence, handle, open, given>>

\* sim_close, of diego_shutdown.
Close ==
    /\ open /\ open' = FALSE
    /\ queue' = <<>> /\ timer' = Never /\ handle' = FALSE
    /\ UNCHANGED <<now, stamp, prior, pass, cadence, given, sent>>

Elapse ==
    /\ now < LastTime /\ now' = now + 1
    /\ UNCHANGED <<stamp, prior, pass, cadence, wheel, handle, open, given>>

Next == PassBegins \/ Tick \/ QuietPass \/ Deliver \/ Close \/ Elapse

\* Time passes, and the poll thread comes back to its wait.
Fairness == WF_wheelVars(Elapse) /\ WF_wheelVars(Deliver)
Spec == Init /\ [][Next]_wheelVars /\ Fairness

----------------------------------------------------------------------------
\* Forces go out in the order the game wrote them, and all that are newer than
\* the last one out wait in the queue: a full queue sends its oldest early, a
\* force that is due at once takes the place of those that wait, and neither
\* ever loses the newest, until a close.
InOrder ==
    open => /\ given = sent + Len(queue)
            /\ \A i \in 1 .. Len(queue) : queue[i].force = sent + i

\* Since the last resynchronisation the game was never called more often than
\* its period allows, half a period of grace and the first call aside.
Paced == due # Never => calls * Period <= now - base + Period + (Period \div 2)

\* Every force the game writes reaches the wheel, though no later tick pushes
\* it out, unless the board is closed.
Delivered == \A k \in {2, 4} : given = k ~> (sent >= k \/ ~open)
=============================================================================
