------------------------------- MODULE DcsMask -------------------------------
(***************************************************************************)
(* The audio IRQ mask of audio.c and the DCS tick that takes it.  On the   *)
(* cabinet the sound interrupt could not run while the game had it masked; *)
(* here the interrupt is a thread (dcs_thread) and the mask a role-owned   *)
(* recursive lock with a bounded wait: a waiter that polled StealPolls     *)
(* times without seeing a release takes the mask anyway.                   *)
(*                                                                         *)
(* The game's side of the protocol is external: DCS keeps a recursion      *)
(* depth next to the mask and calls _EtsPicEnable only at its edges        *)
(* (scripts/gen-gamedefs.py, d_dcs_lock_depth).  The tick saves, clears    *)
(* and restores that depth around the callback.                            *)
(***************************************************************************)
EXTENDS Integers, FiniteSets

CONSTANTS
    GameThreads,   \* threads of the game that use the sound system
    Tick,          \* the thread of dcs_thread
    StealPolls,    \* AV_MASK_STEAL_MS / AV_MASK_POLL_MS, 4 in the code
    MaxDepth,      \* bound: how deep one thread nests DCS locks
    MaxNest,       \* bound: a thread comes to the lock only while the mask was
                   \* taken less often than this
    DepthMod,      \* 2^32 in the game: the depth is a dword
    Stalls,        \* a holder may keep the mask for AV_MASK_STEAL_MS
    CallbackLocks  \* the callback takes DCS locks itself

Procs == GameThreads \cup {Tick}

ASSUME MaskAssumption ==
    /\ GameThreads /= {} /\ Tick \notin GameThreads
    /\ StealPolls \in Nat \ {0}
    /\ MaxDepth \in Nat \ {0}
    /\ MaxNest \in Nat
    /\ DepthMod \in Nat /\ DepthMod > MaxDepth
    /\ Stalls \in BOOLEAN /\ CallbackLocks \in BOOLEAN

VARIABLES
    owner,    \* s_mask_owner
    nest,     \* s_mask_nest
    free,     \* s_mask_free, an auto-reset event
    cb,       \* s_dcs_cb /= NULL
    depth,    \* the game's DCS lock depth, *G->dcs_lock_depth
    tpc,      \* where dcs_thread is
    saved,    \* its local `saved`
    before,   \* its local `before`
    pc,       \* where each thread is in the game's lock and unlock
    lvl,      \* how many DCS locks each thread is inside
    acq,      \* where each thread is in mask_acquire
    waited,   \* its local `waited`, in polls
    met       \* history: the mask was stolen, or a game thread came to the lock
              \* with another thread in it

mask == <<owner, nest, free>>
tick == <<tpc, saved, before>>
game == <<pc, lvl>>
wait == <<acq, waited>>
vars == <<mask, cb, met, depth, tick, game, wait>>

role(p) == IF p = Tick THEN "tick" ELSE "game"

TypeOK ==
    /\ owner \in {"free", "game", "tick"}
    /\ nest \in Nat
    /\ free \in BOOLEAN /\ cb \in BOOLEAN /\ met \in BOOLEAN
    /\ depth \in 0 .. (DepthMod - 1)
    /\ tpc \in {"sleep", "masking", "save", "clear", "callback", "leak",
                "restore", "release"}
    /\ saved \in 0 .. (DepthMod - 1)
    /\ before \in Nat
    /\ pc \in [Procs -> {"out", "masking", "enter", "unmask"}]
    /\ lvl \in [Procs -> 0 .. MaxDepth]
    /\ acq \in [Procs -> {"none", "try", "wait", "steal"}]
    /\ waited \in [Procs -> 0 .. StealPolls]

Init ==
    /\ owner = "free" /\ nest = 0 /\ free = FALSE
    /\ cb = FALSE /\ met = FALSE /\ depth = 0
    /\ tpc = "sleep" /\ saved = 0 /\ before = 0
    /\ pc = [p \in Procs |-> "out"]
    /\ lvl = [p \in Procs |-> 0]
    /\ acq = [p \in Procs |-> "none"]
    /\ waited = [p \in Procs |-> 0]

-----------------------------------------------------------------------------
(* mask_acquire and mask_release.                                          *)

\* What a call of mask_acquire starts with.
StartAcquire(p) ==
    /\ acq' = [acq EXCEPT ![p] = "try"]
    /\ waited' = [waited EXCEPT ![p] = 0]

\* Where the caller of mask_acquire goes on when it returns.
Granted(p) ==
    /\ acq' = [acq EXCEPT ![p] = "none"]
    /\ IF p = Tick /\ tpc = "masking"
       THEN tpc' = "save" /\ UNCHANGED pc
       ELSE pc' = [pc EXCEPT ![p] = "enter"] /\ UNCHANGED tpc

Claim(p) ==
    /\ acq[p] = "try"
    /\ owner \in {"free", role(p)}
    /\ owner' = role(p)
    /\ nest' = nest + 1
    /\ Granted(p)
    /\ UNCHANGED <<free, cb, met, depth, saved, before, lvl, waited>>

Refused(p) ==
    /\ acq[p] = "try"
    /\ owner \notin {"free", role(p)}
    /\ acq' = [acq EXCEPT ![p] = "wait"]
    /\ UNCHANGED <<mask, cb, met, depth, tick, game, waited>>

\* The wait saw a release; claim it, or find somebody else was quicker.
SawFree(p) ==
    /\ acq[p] = "wait" /\ free
    /\ free' = FALSE
    /\ acq' = [acq EXCEPT ![p] = "try"]
    /\ UNCHANGED <<owner, nest, cb, met, depth, tick, game, waited>>

\* Mutant of PollExpired: the deadline is never compared; the wait starts over.
PollAfresh(p) ==
    /\ acq[p] = "wait" /\ ~free
    /\ waited' = [waited EXCEPT ![p] = 0]
    /\ acq' = [acq EXCEPT ![p] = "try"]
    /\ UNCHANGED <<mask, cb, met, depth, tick, game>>

\* AV_MASK_POLL_MS went by without a release.
PollExpired(p) ==
    /\ acq[p] = "wait" /\ ~free
    /\ Stalls \/ waited[p] + 1 < StealPolls
    /\ waited' = [waited EXCEPT ![p] = @ + 1]
    /\ acq' = [acq EXCEPT ![p] = IF waited[p] + 1 < StealPolls THEN "try"
                                                               ELSE "steal"]
    /\ UNCHANGED <<mask, cb, met, depth, tick, game>>

Steal(p) ==
    /\ acq[p] = "steal"
    /\ owner' = role(p)
    /\ nest' = 1
    /\ met' = TRUE
    /\ Granted(p)
    /\ UNCHANGED <<free, cb, depth, saved, before, lvl, waited>>

\* mask_release by role r: what the other role holds, or nobody, is left alone.
Release(r) ==
    IF owner /= r \/ nest = 0
    THEN UNCHANGED mask
    ELSE /\ nest' = nest - 1
         /\ IF nest = 1 THEN owner' = "free" /\ free' = TRUE
                        ELSE UNCHANGED <<owner, free>>

nestOf(r) == IF owner = r THEN nest ELSE 0

-----------------------------------------------------------------------------
(* The game's DCS lock, run by its own threads and by the callback.        *)

InGame(p) == p = Tick => tpc = "callback" /\ CallbackLocks

\* A thread is in the code of the lock, or inside it.
Busy(p) == lvl[p] > 0 \/ pc[p] /= "out"

\* The edge test: the mask is taken only from depth zero.
Lock(p) ==
    /\ InGame(p)
    /\ pc[p] = "out" /\ lvl[p] < MaxDepth /\ nest < MaxNest
    /\ IF depth = 0
       THEN pc' = [pc EXCEPT ![p] = "masking"] /\ StartAcquire(p)
       ELSE pc' = [pc EXCEPT ![p] = "enter"] /\ UNCHANGED wait
    /\ met' = (met \/ (p /= Tick /\ \E q \in Procs \ {p} : Busy(q)))
    /\ UNCHANGED <<mask, cb, depth, tick, lvl>>

Enter(p) ==
    /\ pc[p] = "enter"
    /\ depth' = (depth + 1) % DepthMod
    /\ lvl' = [lvl EXCEPT ![p] = @ + 1]
    /\ pc' = [pc EXCEPT ![p] = "out"]
    /\ UNCHANGED <<mask, cb, met, tick, wait>>

Unlock(p) ==
    /\ InGame(p)
    /\ pc[p] = "out" /\ lvl[p] > 0
    /\ depth' = (depth - 1) % DepthMod
    /\ lvl' = [lvl EXCEPT ![p] = @ - 1]
    /\ pc' = [pc EXCEPT ![p] = IF depth = 1 THEN "unmask" ELSE "out"]
    /\ UNCHANGED <<mask, cb, met, tick, wait>>

\* _EtsPicEnable(irq, 1) at the other edge.
Unmask(p) ==
    /\ pc[p] = "unmask"
    /\ Release(role(p))
    /\ pc' = [pc EXCEPT ![p] = "out"]
    /\ UNCHANGED <<cb, met, depth, tick, lvl, wait>>

\* _ymf_Init registers the callback, _ymf_Shutdown takes it away.
YmfInit ==
    /\ ~cb /\ cb' = TRUE
    /\ UNCHANGED <<mask, met, depth, tick, game, wait>>
YmfShutdown ==
    /\ cb /\ cb' = FALSE
    /\ UNCHANGED <<mask, met, depth, tick, game, wait>>

-----------------------------------------------------------------------------
(* One turn of dcs_thread.                                                 *)

\* The deadline passed and a callback is registered: take the mask.
TickWakes ==
    /\ tpc = "sleep" /\ cb
    /\ tpc' = "masking"
    /\ StartAcquire(Tick)
    /\ UNCHANGED <<mask, cb, met, depth, saved, before, game>>

TickSaves ==
    /\ tpc = "save"
    /\ tpc' = "clear"
    /\ saved' = depth
    /\ UNCHANGED <<mask, cb, met, depth, before, game, wait>>

TickClears ==
    /\ tpc = "clear"
    /\ tpc' = "callback"
    /\ depth' = 0
    /\ before' = nestOf("tick")
    /\ UNCHANGED <<mask, cb, met, saved, game, wait>>

\* cb(bits) returns, out of every lock it took.
CallbackReturns ==
    /\ tpc = "callback" /\ pc[Tick] = "out" /\ lvl[Tick] = 0
    /\ tpc' = "leak"
    /\ UNCHANGED <<mask, cb, met, depth, saved, before, game, wait>>

\* Give back what the callback took and kept.
ReleaseLeak ==
    /\ tpc = "leak" /\ nestOf("tick") > before
    /\ Release("tick")
    /\ UNCHANGED <<cb, met, depth, tick, game, wait>>

\* Mutant of NoLeakLeft: what the callback kept is kept.
KeepLeak ==
    /\ tpc = "leak"
    /\ tpc' = "restore"
    /\ UNCHANGED <<mask, cb, met, depth, saved, before, game, wait>>

NoLeakLeft ==
    /\ tpc = "leak" /\ nestOf("tick") <= before
    /\ tpc' = "restore"
    /\ UNCHANGED <<mask, cb, met, depth, saved, before, game, wait>>

TickRestores ==
    /\ tpc = "restore"
    /\ tpc' = "release"
    /\ depth' = saved
    /\ UNCHANGED <<mask, cb, met, saved, before, game, wait>>

TickReleases ==
    /\ tpc = "release"
    /\ tpc' = "sleep"
    /\ Release("tick")
    /\ UNCHANGED <<cb, met, depth, saved, before, game, wait>>

TickStep ==
    \/ TickWakes \/ TickSaves \/ TickClears \/ CallbackReturns \/ ReleaseLeak
    \/ NoLeakLeft \/ TickRestores \/ TickReleases

Acquire(p) ==
    Claim(p) \/ Refused(p) \/ SawFree(p) \/ PollExpired(p) \/ Steal(p)

Next ==
    \/ TickStep \/ YmfInit \/ YmfShutdown
    \/ \E p \in Procs :
        Acquire(p) \/ Lock(p) \/ Enter(p) \/ Unlock(p) \/ Unmask(p)

Spec == Init /\ [][Next]_vars

\* The tick thread is scheduled, and the callback it runs comes back.
FairSpec ==
    /\ Spec
    /\ WF_vars(TickSaves \/ TickClears \/ CallbackReturns \/ ReleaseLeak
               \/ NoLeakLeft \/ TickRestores \/ TickReleases)
    /\ WF_vars(Acquire(Tick))
    /\ WF_vars(Enter(Tick) \/ Unlock(Tick) \/ Unmask(Tick))

-----------------------------------------------------------------------------
InCallback == tpc \in {"callback", "leak"}

\* While a game thread is inside a DCS lock the tick is not inside its
\* callback: what masking the sound interrupt meant on the cabinet.
MaskExcludes ==
    \A g \in GameThreads : lvl[g] > 0 => ~InCallback

\* Between two ticks the tick's role never keeps the mask, whatever was stolen
\* from it or leaked by its callback: the game would wait for a thread asleep.
TickLetsGo == tpc = "sleep" => owner /= "tick"

\* The owner and the recursion count change together, steals included, so a
\* free mask never has a count left that would eat the next holder's release.
OwnerCounts == owner = "free" <=> nest = 0

\* Outside a tick the game's depth is zero exactly when no thread of the game is
\* inside a DCS lock: the edge test that decides whether to mask relies on it.
DepthTells ==
    tpc \in {"sleep", "masking"} =>
        (depth = 0 <=> \A g \in GameThreads : lvl[g] = 0)

\* With any number of game threads and with a callback that takes locks of its
\* own, the lock keeps the tick out and its depth tells, until the mask is stolen
\* or a game thread comes to the lock while another thread is in it.
LockTells == ~met => MaskExcludes /\ DepthTells

\* A holder that never lets go cannot stop the tick: it gets the mask, or sees
\* it released, in the circular wait the steal exists for.
TickBreaksCycle == tpc = "masking" ~> (tpc = "save" \/ free)
=============================================================================
