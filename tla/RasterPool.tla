----------------------------- MODULE RasterPool -----------------------------
(***************************************************************************)
(* The raster worker pool of renderer/win32/thread.c.  One render thread   *)
(* (the submitter) splits a triangle into contiguous blocks of rows, draws *)
(* the first block itself and hands the others to worker threads through   *)
(* a generation counter; a worker that has been idle for long sleeps on an *)
(* auto-reset event of its slot.  The pool is closed and reopened with the *)
(* surface.                                                                *)
(*                                                                         *)
(* A thread is <<incarnation, slot>>: s_worker[slot] is reused by every    *)
(* pool, the OS thread running on it is not.  s_gen is a LONG, so it wraps *)
(* at GenMod; nothing else counts, and the state space is finite without   *)
(* a bound on the number of jobs or pools.                                 *)
(***************************************************************************)
EXTENDS Integers, FiniteSets

CONSTANTS
    MaxWorkers,      \* VGL_PAR_MAX
    MaxRows,         \* bound: the tallest triangle
    Incarnations,    \* bound: names for the successive pools' OS threads
    GenMod,          \* 2^32 in the code: s_gen is a LONG
    CloseMayTimeOut  \* a worker may fail to be scheduled for 1000 ms

ASSUME PoolAssumption ==
    /\ MaxWorkers \in Nat \ {0}
    /\ MaxRows \in Nat
    /\ GenMod \in Nat /\ GenMod > 1
    /\ CloseMayTimeOut \in BOOLEAN

Slots   == 1 .. (MaxWorkers - 1)
Threads == Incarnations \X Slots
Rows    == 0 .. (MaxRows - 1)
Block   == [y0 : 0 .. MaxRows, y1 : 0 .. MaxRows]
Empty   == [y0 |-> 0, y1 |-> 0]

VARIABLES
    workers,   \* s_workers, the submitter included; 0 when closed
    gen,       \* s_gen
    done,      \* s_done
    quit,      \* s_quit
    fn,        \* s_fn /= NULL (s_ctx goes with it)
    block,     \* s_worker[slot].y0/y1
    sleeping,  \* s_worker[slot].sleeping
    wake,      \* s_worker[slot].wake is signalled
    inc,       \* the incarnation of the open pool
    spc,       \* where the submitter is
    slot,      \* the submitter's loop index i
    own,       \* the submitter's own y0/y1
    wpc,       \* where each worker thread is
    seen,      \* each worker's local `seen`
    rows,      \* the rows of the job being drawn
    drawn      \* how often each row of that job was drawn (saturates at 2)

shared == <<workers, gen, done, quit, fn, block, sleeping, wake>>
submit == <<inc, spc, slot, own>>
vars   == <<shared, submit, wpc, seen, rows, drawn>>

Next1(g) == (g + 1) % GenMod

WorkerPC == {"none", "spin", "look", "sleepy", "blocked", "waking", "take",
             "check", "draw", "count"}
SubmitPC == {"idle", "reset", "bump", "wakeup", "wait", "closebump", "join",
             "joining", "clear"}

TypeOK ==
    /\ workers \in 0 .. MaxWorkers
    /\ gen \in 0 .. (GenMod - 1)
    /\ done \in Nat
    /\ quit \in BOOLEAN
    /\ fn \in BOOLEAN
    /\ block \in [Slots -> Block]
    /\ sleeping \in [Slots -> BOOLEAN]
    /\ wake \in [Slots -> BOOLEAN]
    /\ inc \in Incarnations
    /\ spc \in SubmitPC
    /\ slot \in 1 .. MaxWorkers
    /\ own \in Block
    /\ wpc \in [Threads -> WorkerPC]
    /\ seen \in [Threads -> 0 .. (GenMod - 1)]
    /\ rows \in 0 .. MaxRows
    /\ drawn \in [Rows -> 0 .. 2]

Init ==
    /\ workers = 0 /\ gen = 0 /\ done = 0 /\ quit = FALSE /\ fn = FALSE
    /\ block = [s \in Slots |-> Empty]
    /\ sleeping = [s \in Slots |-> FALSE]
    /\ wake = [s \in Slots |-> FALSE]
    /\ inc \in Incarnations
    /\ spc = "idle" /\ slot = 1 /\ own = Empty
    /\ wpc = [t \in Threads |-> "none"]
    /\ seen = [t \in Threads |-> 0]
    /\ rows = 0 /\ drawn = [r \in Rows |-> 0]

-----------------------------------------------------------------------------
(* The submitter: vgl_par_open, vgl_par_close and vgl_par_rows.            *)

At(pc, next) == spc = pc /\ spc' = next

\* vgl_par_open.  `want` is what the caller asked for or the core count;
\* CreateThread may fail at any slot, which truncates the pool to n.
Open ==
    /\ At("idle", "idle")
    /\ workers = 0
    /\ \E i \in Incarnations, n \in 1 .. MaxWorkers :
        /\ \A s \in Slots : wpc[<<i, s>>] = "none"
        /\ inc' = i
        /\ workers' = n
        /\ wpc' = [t \in Threads |-> IF t[1] = i /\ t[2] < n
                                     THEN "spin" ELSE wpc[t]]
        /\ seen' = [t \in Threads |-> IF t[1] = i THEN 0 ELSE seen[t]]
        \* a slot past the pool keeps the event nobody waits on
        /\ wake' = [s \in Slots |-> IF s < n THEN FALSE ELSE wake[s]]
    /\ gen' = 0 /\ done' = 0 /\ quit' = FALSE /\ fn' = FALSE
    /\ UNCHANGED <<block, sleeping, slot, own, rows, drawn>>

\* The first row of slot i's block: `at` after i turns of the split loop.
Start(n, r, i) == i * (r \div n) + (IF i < r % n THEN i ELSE r % n)
Split(n, r, i) == [y0 |-> Start(n, r, i), y1 |-> Start(n, r, i + 1)]

RowsOf(b) == {r \in Rows : b.y0 <= r /\ r < b.y1}

Draw(b) ==
    drawn' = [r \in Rows |-> IF r \in RowsOf(b) /\ drawn[r] < 2
                             THEN drawn[r] + 1 ELSE drawn[r]]

\* vgl_par_rows without a pool, or without rows: the caller draws it itself.
RowsAlone ==
    /\ At("idle", "idle")
    /\ \E r \in 0 .. MaxRows :
        /\ workers <= 1 \/ r = 0
        /\ rows' = r
        /\ drawn' = [x \in Rows |-> IF x < r THEN 1 ELSE 0]
    /\ UNCHANGED <<shared, inc, slot, own, wpc, seen>>

\* The split loop and the stores of s_fn and s_ctx.
Publish ==
    /\ At("idle", "reset")
    /\ workers > 1
    /\ \E r \in 1 .. MaxRows :
        /\ rows' = r
        /\ block' = [s \in Slots |-> IF s < workers THEN Split(workers, r, s)
                                     ELSE block[s]]
        /\ own' = Split(workers, r, 0)
    /\ drawn' = [r \in Rows |-> 0]
    /\ fn' = TRUE
    /\ UNCHANGED <<workers, gen, done, quit, sleeping, wake, inc, slot, wpc,
                   seen>>

\* Mutant of ResetDone: the count of the last job is kept.
KeepDone ==
    /\ At("reset", "bump")
    /\ UNCHANGED <<shared, inc, slot, own, wpc, seen, rows, drawn>>

ResetDone ==
    /\ At("reset", "bump")
    /\ done' = 0
    /\ UNCHANGED <<workers, gen, quit, fn, block, sleeping, wake, inc, slot,
                   own, wpc, seen, rows, drawn>>

BumpGen ==
    /\ At("bump", "wakeup")
    /\ gen' = Next1(gen)
    /\ slot' = 1
    /\ UNCHANGED <<workers, done, quit, fn, block, sleeping, wake, inc, own,
                   wpc, seen, rows, drawn>>

\* Mutant of WakeSlot: only the first worker's event is set.
WakeFirst ==
    /\ slot < workers
    /\ At("wakeup", "wakeup")
    /\ wake' = [wake EXCEPT ![1] = @ \/ sleeping[1]]
    /\ slot' = slot + 1
    /\ UNCHANGED <<workers, gen, done, quit, fn, block, sleeping, inc, own,
                   wpc, seen, rows, drawn>>

\* One turn of `if (s_worker[i].sleeping) SetEvent(s_worker[i].wake)`.
WakeSlot ==
    /\ slot < workers
    /\ At("wakeup", "wakeup")
    /\ wake' = [wake EXCEPT ![slot] = @ \/ sleeping[slot]]
    /\ slot' = slot + 1
    /\ UNCHANGED <<workers, gen, done, quit, fn, block, sleeping, inc, own,
                   wpc, seen, rows, drawn>>

OwnShare ==
    /\ slot >= workers
    /\ At("wakeup", "wait")
    /\ Draw(own)
    /\ UNCHANGED <<shared, inc, slot, own, wpc, seen, rows>>

\* Mutant of Return: the wait is one worker short.
ReturnEarly ==
    /\ At("wait", "idle")
    /\ done >= workers - 2
    /\ UNCHANGED <<shared, inc, slot, own, wpc, seen, rows, drawn>>

\* Leaving the `while (s_done < n - 1)` loop: vgl_par_rows returns.
Return ==
    /\ At("wait", "idle")
    /\ done >= workers - 1
    /\ UNCHANGED <<shared, inc, slot, own, wpc, seen, rows, drawn>>

-----------------------------------------------------------------------------
\* vgl_par_close of a pool that never started a worker.
CloseAlone ==
    /\ At("idle", "idle")
    /\ workers = 1
    /\ workers' = 0 /\ gen' = 0 /\ done' = 0 /\ quit' = FALSE /\ fn' = FALSE
    /\ UNCHANGED <<block, sleeping, wake, inc, slot, own, wpc, seen, rows,
                   drawn>>

CloseQuit ==
    /\ At("idle", "closebump")
    /\ workers > 1
    /\ quit' = TRUE
    /\ UNCHANGED <<workers, gen, done, fn, block, sleeping, wake, inc, slot,
                   own, wpc, seen, rows, drawn>>

CloseBump ==
    /\ At("closebump", "join")
    /\ gen' = Next1(gen)
    /\ slot' = 1
    /\ UNCHANGED <<workers, done, quit, fn, block, sleeping, wake, inc, own,
                   wpc, seen, rows, drawn>>

\* Mutant of CloseSignal: the join without the SetEvent.
CloseUnsignalled ==
    /\ slot < workers
    /\ At("join", "joining")
    /\ UNCHANGED <<shared, inc, slot, own, wpc, seen, rows, drawn>>

CloseSignal ==
    /\ slot < workers
    /\ At("join", "joining")
    /\ wake' = [wake EXCEPT ![slot] = TRUE]
    /\ UNCHANGED <<workers, gen, done, quit, fn, block, sleeping, inc, slot,
                   own, wpc, seen, rows, drawn>>

\* WaitForSingleObject(thread, 1000) and the CloseHandle calls.
CloseJoin ==
    /\ At("joining", "join")
    /\ wpc[<<inc, slot>>] = "none" \/ CloseMayTimeOut
    /\ slot' = slot + 1
    /\ UNCHANGED <<shared, inc, own, wpc, seen, rows, drawn>>

CloseClearGen ==
    /\ slot >= workers
    /\ At("join", "clear")
    /\ workers' = 0 /\ gen' = 0 /\ done' = 0
    /\ UNCHANGED <<quit, fn, block, sleeping, wake, inc, slot, own, wpc, seen,
                   rows, drawn>>

CloseClear ==
    /\ At("clear", "idle")
    /\ quit' = FALSE /\ fn' = FALSE
    /\ UNCHANGED <<workers, gen, done, block, sleeping, wake, inc, slot, own,
                   wpc, seen, rows, drawn>>

Submitter ==
    \/ Open \/ RowsAlone \/ Publish \/ ResetDone \/ BumpGen \/ WakeSlot
    \/ OwnShare \/ Return \/ CloseAlone \/ CloseQuit \/ CloseBump
    \/ CloseSignal \/ CloseJoin \/ CloseClearGen \/ CloseClear

-----------------------------------------------------------------------------
(* worker_main, run by thread t on slot t[2].                              *)

WAt(t, pc, next) == wpc[t] = pc /\ wpc' = [wpc EXCEPT ![t] = next]

SawGen(t) ==
    /\ WAt(t, "spin", "take")
    /\ gen /= seen[t]
    /\ UNCHANGED <<shared, submit, seen, rows, drawn>>

SawSame(t) ==
    /\ WAt(t, "spin", "look")
    /\ gen = seen[t]
    /\ UNCHANGED <<shared, submit, seen, rows, drawn>>

SawQuit(t) ==
    /\ WAt(t, "look", "none")
    /\ quit
    /\ UNCHANGED <<shared, submit, seen, rows, drawn>>

SpinOn(t) ==
    /\ WAt(t, "look", "spin")
    /\ ~quit
    /\ UNCHANGED <<shared, submit, seen, rows, drawn>>

\* The spin and yield budgets ran out: sleeping = 1, whatever s_gen is by now.
Drowse(t) ==
    /\ WAt(t, "look", "sleepy")
    /\ ~quit
    /\ sleeping' = [sleeping EXCEPT ![t[2]] = TRUE]
    /\ UNCHANGED <<workers, gen, done, quit, fn, block, wake, submit, seen,
                   rows, drawn>>

\* Mutant of Recheck: the worker sleeps without its second look at s_gen.
SleepBlindly(t) ==
    /\ WAt(t, "sleepy", "blocked")
    /\ UNCHANGED <<shared, submit, seen, rows, drawn>>

\* `if (s_gen == seen)` after announcing the sleep.
Recheck(t) ==
    /\ WAt(t, "sleepy", IF gen = seen[t] THEN "blocked" ELSE "waking")
    /\ UNCHANGED <<shared, submit, seen, rows, drawn>>

\* The auto-reset event, consumed by the wait that sees it.
Woken(t) ==
    /\ WAt(t, "blocked", "waking")
    /\ wake[t[2]]
    /\ wake' = [wake EXCEPT ![t[2]] = FALSE]
    /\ UNCHANGED <<workers, gen, done, quit, fn, block, sleeping, submit, seen,
                   rows, drawn>>

\* The 50 ms timeout of the same wait.
TimedOut(t) ==
    /\ WAt(t, "blocked", "waking")
    /\ UNCHANGED <<shared, submit, seen, rows, drawn>>

Rouse(t) ==
    /\ WAt(t, "waking", "spin")
    /\ sleeping' = [sleeping EXCEPT ![t[2]] = FALSE]
    /\ UNCHANGED <<workers, gen, done, quit, fn, block, wake, submit, seen,
                   rows, drawn>>

TakeGen(t) ==
    /\ WAt(t, "take", "check")
    /\ seen' = [seen EXCEPT ![t] = gen]
    /\ UNCHANGED <<shared, submit, rows, drawn>>

\* `if (s_quit) return 0; if (w->y1 > w->y0)`: leave, draw, or only count.
CheckQuit(t) ==
    /\ WAt(t, "check", IF quit THEN "none"
                       ELSE IF block[t[2]].y1 > block[t[2]].y0 THEN "draw"
                       ELSE "count")
    /\ UNCHANGED <<shared, submit, seen, rows, drawn>>

\* s_fn(s_ctx, ...) has run and returned.
DrawShare(t) ==
    /\ WAt(t, "draw", "count")
    /\ Draw(block[t[2]])
    /\ UNCHANGED <<shared, submit, seen, rows>>

CountDone(t) ==
    /\ WAt(t, "count", "spin")
    /\ done' = done + 1
    /\ UNCHANGED <<workers, gen, quit, fn, block, sleeping, wake, submit, seen,
                   rows, drawn>>

\* Every step of worker_main but the timeout of its wait.
WorkerStep(t) ==
    \/ SawGen(t) \/ SawSame(t) \/ SawQuit(t) \/ SpinOn(t) \/ Drowse(t)
    \/ Recheck(t) \/ Woken(t) \/ Rouse(t) \/ TakeGen(t) \/ CheckQuit(t)
    \/ DrawShare(t) \/ CountDone(t)

Worker(t) == WorkerStep(t) \/ TimedOut(t)

Next == Submitter \/ \E t \in Threads : Worker(t)

Spec == Init /\ [][Next]_vars

\* The steps that continue a call the render thread has already made; it owes
\* no new job and no close, so Publish, Open and CloseQuit are not fair.
InCall == ResetDone \/ BumpGen \/ WakeSlot \/ OwnShare \/ Return \/ CloseBump
          \/ CloseSignal \/ CloseJoin \/ CloseClearGen \/ CloseClear

\* Every thread is scheduled; the 50 ms timeout is not relied upon.
FairSpec == Spec /\ WF_vars(InCall) /\ \A t \in Threads : WF_vars(WorkerStep(t))

-----------------------------------------------------------------------------
InRows == spc \in {"reset", "bump", "wakeup", "wait"}

\* vgl_par_rows returns only when the whole triangle is drawn, and no row of
\* it twice: the split loop covers [y0, y1) and the wait has no early way out.
DrawnOnce ==
    spc = "idle" => \A r \in Rows : drawn[r] = IF r < rows THEN 1 ELSE 0

\* A worker inside s_fn(s_ctx) runs the job its submitter is still waiting on:
\* s_ctx names a stack frame of vgl_par_rows that has not returned, and s_fn
\* is not the NULL of a closed pool.
NoExpiredContext ==
    \A t \in Threads : wpc[t] = "draw" => fn /\ spc \in {"wakeup", "wait"}

\* A job that was published to a sleeping worker always reaches it through its
\* event: the `sleeping` flag and the second look at s_gen leave no window.
NoLostWake ==
    \A t \in Threads :
        (wpc[t] = "blocked" /\ gen /= seen[t])
            => \/ wake[t[2]]
               \/ spc \in {"wakeup", "join"} /\ slot <= t[2]
               \/ spc = "joining" /\ slot < t[2]

\* A closed pool has no thread left that could run in the next one.
ClosedIsEmpty ==
    (workers = 0 /\ spc = "idle") => \A t \in Threads : wpc[t] = "none"

\* Every call of vgl_par_rows returns, without help from the 50 ms timeout.
JobReturns == (spc = "reset") ~> (spc = "idle")

\* vgl_par_close comes back with every worker gone.
CloseReturns == quit ~> (workers = 0)
=============================================================================
