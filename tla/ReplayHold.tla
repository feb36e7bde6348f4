----------------------------- MODULE ReplayHold ------------------------------
(***************************************************************************)
(* The in-between draw of drawreplay.c composed with the audio mask: the   *)
(* thread that draws holds the side-thread lock of main.c exclusively, the *)
(* tick takes it shared around its mask; the speculative draw may fault or *)
(* be cut anywhere in the game's code, and is then unwound by hand before  *)
(* the game's memory, the DCS lock depth in it, is put back.               *)
(***************************************************************************)
EXTENDS DcsMask

CONSTANTS
    Drawer,    \* the game's thread that draws
    MaxIrq     \* bound: how deep it nests cli regions

ASSUME HoldAssumption == Drawer \in GameThreads /\ MaxIrq \in Nat

VARIABLES
    side,      \* s_side_lock: nobody, the tick (shared), the drawer (exclusive)
    hpc,       \* where the drawer is in sample_interp
    snap,      \* the snapshot: the game's depth and the locks it stood for
    guard,     \* guarded's locals: mask and irq as they were
    irq,       \* s_irq_depth
    clash      \* history: another thread of the game was in the DCS lock, or in
               \* its code, while the window of the draw was open

hold == <<side, hpc, snap, guard, irq, clash>>
holdVars == <<vars, hold>>

Window == {"draw", "abandoned", "unmasking", "done"}

HoldTypeOK ==
    /\ TypeOK
    /\ side \in {"nobody", "tick", "drawer"}
    /\ hpc \in {"none", "wait"} \cup Window
    /\ snap \in [depth : 0 .. (DepthMod - 1), lvl : 0 .. MaxDepth]
    /\ guard \in [mask : Nat, irq : Nat]
    /\ irq \in 0 .. MaxIrq
    /\ clash \in BOOLEAN

HoldInit ==
    /\ Init
    /\ side = "nobody" /\ hpc = "none"
    /\ snap = [depth |-> 0, lvl |-> 0] /\ guard = [mask |-> 0, irq |-> 0]
    /\ irq = 0 /\ clash = FALSE

----------------------------------------------------------------------------
\* The tick, which enters the side lock before it takes the mask and leaves it
\* after it let go.
TickBody ==
    TickSaves \/ TickClears \/ CallbackReturns \/ ReleaseLeak \/ NoLeakLeft
        \/ TickRestores

\* Mutant of SideTick: the mask is taken first.
MaskThenSide ==
    /\ \/ TickWakes /\ UNCHANGED side
       \/ TickSaves /\ side = "nobody" /\ side' = "tick"
       \/ tpc # "save" /\ TickBody /\ UNCHANGED side
       \/ TickReleases /\ side' = "nobody"
    /\ UNCHANGED <<hpc, snap, guard, irq, clash>>

SideTick ==
    /\ \/ TickWakes /\ side = "nobody" /\ side' = "tick"
       \/ TickBody /\ UNCHANGED side
       \/ TickReleases /\ side' = "nobody"
    /\ UNCHANGED <<hpc, snap, guard, irq, clash>>

\* What the step leaves of the history: another thread of the game in the lock
\* with the window open.
Clashes ==
    clash' = \/ clash
             \/ /\ hpc' \in Window
                /\ \E g \in GameThreads \ {Drawer} : Busy(g)'
Beside == UNCHANGED <<side, hpc, snap, guard, irq>> /\ Clashes

\* The game's threads, the drawer outside its host code.
Playing(p) == p = Drawer => hpc \in {"none", "draw"}

MaskStep ==
    /\ \/ YmfInit \/ YmfShutdown
       \/ \E p \in Procs : Playing(p) /\ (Acquire(p) \/ Lock(p) \/ Enter(p)
                                          \/ Unlock(p) \/ Unmask(p))
    /\ Beside

\* The drawer's own cli and sti.
Cli ==
    /\ pc[Drawer] = "out" /\ Playing(Drawer) /\ irq < MaxIrq
    /\ irq' = irq + 1
    /\ UNCHANGED <<vars, side, hpc, snap, guard, clash>>
Sti ==
    /\ pc[Drawer] = "out" /\ Playing(Drawer) /\ irq > 0
    /\ irq' = irq - 1
    /\ UNCHANGED <<vars, side, hpc, snap, guard, clash>>

----------------------------------------------------------------------------
\* The draw phase begins outside every lock and region of the game.
Balanced == pc[Drawer] = "out" /\ lvl[Drawer] = 0 /\ irq = 0

WantsHold ==
    /\ hpc = "none" /\ Balanced
    /\ hpc' = "wait"
    /\ UNCHANGED <<vars, side, snap, guard, irq, clash>>

\* game_hold_side_threads(1), snapshot, and the locals of guarded.
TakesHold ==
    /\ hpc = "wait" /\ side = "nobody"
    /\ side' = "drawer" /\ hpc' = "draw"
    /\ snap' = [depth |-> depth, lvl |-> lvl[Drawer]]
    /\ guard' = [mask |-> nestOf("game"), irq |-> irq]
    /\ UNCHANGED <<vars, irq>>
    /\ Clashes

\* The draw comes back, out of every region it entered.
Completes ==
    /\ hpc = "draw" /\ Balanced
    /\ hpc' = "done"
    /\ UNCHANGED <<vars, side, snap, guard, irq, clash>>

\* A fault of the game's code or a camera cut: longjmp.
Abandons ==
    /\ hpc = "draw" /\ pc[Drawer] = "out"
    /\ hpc' = "abandoned"
    /\ UNCHANGED <<vars, side, snap, guard, irq, clash>>

\* Mutant of UnwindsMask: the mask is left as the jump found it.
KeepsMask ==
    /\ hpc = "abandoned"
    /\ hpc' = "unmasking"
    /\ UNCHANGED <<vars, side, snap, guard, irq, clash>>

\* audio_mask_unwind, one release at a time.
UnwindsMask ==
    /\ hpc = "abandoned"
    /\ IF nestOf("game") > guard.mask
          THEN Release("game") /\ UNCHANGED hpc
          ELSE hpc' = "unmasking" /\ UNCHANGED mask
    /\ UNCHANGED <<cb, met, depth, tick, game, wait, side, snap, guard, irq, clash>>

\* game_irq_unwind
UnwindsIrq ==
    /\ hpc = "unmasking" /\ hpc' = "done"
    /\ irq' = IF irq > guard.irq THEN guard.irq ELSE irq
    /\ UNCHANGED <<vars, side, snap, guard, clash>>

\* Mutant of Restores: the window ends with the game's depth as the draw left it.
ReleasesOnly ==
    /\ hpc = "done" /\ hpc' = "none"
    /\ lvl' = [lvl EXCEPT ![Drawer] = snap.lvl]
    /\ side' = "nobody"
    /\ UNCHANGED <<mask, cb, met, depth, tick, pc, wait, snap, guard, irq, clash>>

\* Mutant of Restores: the side threads stay shut out.
RestoresHeld ==
    /\ hpc = "done" /\ hpc' = "none"
    /\ depth' = snap.depth
    /\ lvl' = [lvl EXCEPT ![Drawer] = snap.lvl]
    /\ UNCHANGED <<mask, cb, met, tick, pc, wait, side, snap, guard, irq, clash>>

\* restore_dirty, and the release: the drawer is where it was before the draw.
Restores ==
    /\ hpc = "done" /\ hpc' = "none"
    /\ depth' = snap.depth
    /\ lvl' = [lvl EXCEPT ![Drawer] = snap.lvl]
    /\ side' = "nobody"
    /\ UNCHANGED <<mask, cb, met, tick, pc, wait, snap, guard, irq, clash>>

HoldStep ==
    WantsHold \/ TakesHold \/ Completes \/ Abandons \/ UnwindsMask
        \/ UnwindsIrq \/ Restores

HoldNext == SideTick \/ MaskStep \/ Cli \/ Sti \/ HoldStep

\* Every thread is scheduled; the lock is granted in turn, the callback and
\* what a thread does inside a DCS lock come to an end, the callback also when
\* it takes the lock again and again.
HoldSpec ==
    /\ HoldInit /\ [][HoldNext]_holdVars
    /\ SF_holdVars(SideTick /\ tpc # "sleep")
    /\ SF_holdVars(TakesHold)
    /\ \A p \in Procs :
          /\ WF_holdVars(Acquire(p) /\ Beside)
          /\ SF_holdVars(Playing(p) /\ (Enter(p) \/ Unlock(p) \/ Unmask(p))
                            /\ Beside)

----------------------------------------------------------------------------
\* In the window of the in-between draw the mask is never the tick's and the
\* tick is in none of its steps: the draw never waits for a mask, and no write
\* of the tick is lost in the restore.
WindowKeepsTickOut == hpc \in Window => owner # "tick" /\ tpc = "sleep"

\* The lock's depth tells with the draw's snapshot and restore in between, as
\* long as no other thread of the game was in the lock while the window was open.
DrawTells == ~clash => LockTells

\* However the draw ended, the game's hold of the mask and the count of cli
\* regions are at the end what they were at its start, with no other thread of
\* the game in the lock meanwhile; whatever was stolen before.
Unwound ==
    hpc = "done" /\ ~clash => nestOf("game") = guard.mask /\ irq = guard.irq

\* The drawer that asks for the window gets it: the tick never keeps the side
\* lock for good, whoever has the mask.
WindowComes == hpc = "wait" ~> hpc = "draw"
=============================================================================
