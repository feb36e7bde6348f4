--------------------------- MODULE DcsMask_proofs ---------------------------
(***************************************************************************)
(* Proofs about DcsMask and about ReplayHold, which extends it, for any    *)
(* number of game threads, holders that stall as long as the steal and a   *)
(* callback that takes locks of its own.                                   *)
(*                                                                         *)
(* MaskSafety and WindowHolds hold throughout.  MaskExclusion is the       *)
(* cabinet's guarantee: steals and threads that meet in the lock do break  *)
(* it, and it holds until the first of them.  DrawUnwinds and              *)
(* DrawTellsDepth hold as long as no other thread of the game is in the    *)
(* lock while the draw's window is open.                                   *)
(***************************************************************************)
EXTENDS ReplayHold, TLAPS

\* Where the tick is in mask_acquire, and in the game's lock.
TickPlace ==
    /\ acq[Tick] /= "none" => \/ tpc = "masking" /\ pc[Tick] = "out"
                              \/ tpc = "callback" /\ pc[Tick] = "masking"
    /\ pc[Tick] /= "out" => tpc = "callback"

\* Outside the callback the tick holds the mask once at most.
TickNest ==
    /\ tpc \in {"sleep", "masking"} => owner /= "tick"
    /\ tpc \in {"save", "clear", "restore", "release"} => nestOf("tick") <= 1
    /\ tpc \in {"callback", "leak"} => before <= 1

\* A caller of mask_acquire is on its way into a lock or is the tick; a thread
\* on its way into a lock has room for it, and a waiter polls left.
Room ==
    \A p \in Procs :
        /\ acq[p] /= "none" => pc[p] = "masking" \/ (p = Tick /\ tpc = "masking")
        /\ pc[p] \in {"masking", "enter"} => lvl[p] < MaxDepth
        /\ acq[p] \in {"try", "wait"} => waited[p] < StealPolls

IInv == TypeOK /\ OwnerCounts /\ TickPlace /\ TickNest /\ Room

\* What mask_release leaves has its types.
LEMMA ReleaseType ==
    ASSUME TypeOK, NEW r, Release(r)
    PROVE  /\ owner' \in {"free", "game", "tick"} /\ nest' \in Nat
           /\ free' \in BOOLEAN
<1>1. CASE owner /= r \/ nest = 0
  BY <1>1 DEF Release, mask, TypeOK
<1>2. CASE ~(owner /= r \/ nest = 0)
  <2>1. nest' = nest - 1 /\ nest \in Nat /\ nest /= 0
    BY <1>2 DEF Release, TypeOK
  <2>2. nest = 1 => owner' = "free" /\ free' = TRUE
    BY <1>2 DEF Release
  <2>3. nest /= 1 => owner' = owner /\ free' = free
    BY <1>2 DEF Release
  <2>4. CASE nest = 1
    BY <2>1, <2>2, <2>4
  <2>5. CASE nest /= 1
    BY <2>1, <2>3, <2>5 DEF TypeOK
  <2> QED BY <2>4, <2>5
<1>3. (owner /= r \/ nest = 0) \/ ~(owner /= r \/ nest = 0)
  OBVIOUS
<1> QED BY <1>1, <1>2, <1>3

\* The depth is a dword whatever is added to it.
LEMMA DepthType ==
    ASSUME NEW d \in Int
    PROVE  d % DepthMod \in 0 .. (DepthMod - 1)
<1>1. DepthMod \in Nat /\ DepthMod > 0
  BY MaskAssumption
<1> QED BY <1>1

\* TickWakes preserves IInv.
LEMMA TickWakesStep ==
    ASSUME IInv, TickWakes
    PROVE  IInv'
<1> USE MaskAssumption DEF IInv
<1>1. TypeOK'
    BY DEF TypeOK, Procs, TickWakes, StartAcquire, mask, game
<1>2. OwnerCounts'
    BY DEF OwnerCounts, TypeOK, TickWakes, StartAcquire, mask, game
<1>3. TickPlace'
    BY DEF TickPlace, TypeOK, Procs, TickWakes, StartAcquire, mask, game
<1>4. TickNest'
    BY DEF TickNest, TickPlace, TypeOK, OwnerCounts, nestOf, Procs, role,
       TickWakes, StartAcquire, mask, game
<1>5. Room'
    BY DEF Room, TypeOK, Procs, TickPlace, TickWakes, StartAcquire, mask, game
<1> QED BY <1>1, <1>2, <1>3, <1>4, <1>5

\* TickSaves preserves IInv.
LEMMA TickSavesStep ==
    ASSUME IInv, TickSaves
    PROVE  IInv'
<1> USE MaskAssumption DEF IInv
<1>1. TypeOK'
    BY DEF TypeOK, Procs, TickSaves, mask, game, wait
<1>2. OwnerCounts'
    BY DEF OwnerCounts, TypeOK, TickSaves, mask, game, wait
<1>3. TickPlace'
    BY DEF TickPlace, TypeOK, Procs, TickSaves, mask, game, wait
<1>4. TickNest'
    BY DEF TickNest, TickPlace, TypeOK, OwnerCounts, nestOf, Procs, role,
       TickSaves, mask, game, wait
<1>5. Room'
    BY DEF Room, TypeOK, Procs, TickPlace, TickSaves, mask, game, wait
<1> QED BY <1>1, <1>2, <1>3, <1>4, <1>5

\* TickClears preserves IInv.
LEMMA TickClearsStep ==
    ASSUME IInv, TickClears
    PROVE  IInv'
<1> USE MaskAssumption DEF IInv
<1>1. TypeOK'
    BY DEF TypeOK, Procs, TickClears, nestOf, mask, tick, game, wait
<1>2. OwnerCounts'
    BY DEF OwnerCounts, TypeOK, TickClears, nestOf, mask, tick, game, wait
<1>3. TickPlace'
    BY DEF TickPlace, TypeOK, Procs, TickClears, nestOf, mask, tick, game, wait
<1>4. TickNest'
    BY DEF TickNest, TickPlace, TypeOK, OwnerCounts, nestOf, Procs, role,
       TickClears, mask, tick, game, wait
<1>5. Room'
    BY DEF Room, TypeOK, Procs, TickPlace, TickClears, nestOf, mask, tick,
       game, wait
<1> QED BY <1>1, <1>2, <1>3, <1>4, <1>5

\* CallbackReturns preserves IInv.
LEMMA CallbackReturnsStep ==
    ASSUME IInv, CallbackReturns
    PROVE  IInv'
<1> USE MaskAssumption DEF IInv
<1>1. TypeOK'
    BY DEF TypeOK, Procs, CallbackReturns, mask, game, wait
<1>2. OwnerCounts'
    BY DEF OwnerCounts, TypeOK, CallbackReturns, mask, game, wait
<1>3. TickPlace'
    BY DEF TickPlace, TypeOK, Procs, CallbackReturns, mask, game, wait
<1>4. TickNest'
    BY DEF TickNest, TickPlace, TypeOK, OwnerCounts, nestOf, Procs, role,
       CallbackReturns, mask, game, wait
<1>5. Room'
    BY DEF Room, TypeOK, Procs, TickPlace, CallbackReturns, mask, game, wait
<1> QED BY <1>1, <1>2, <1>3, <1>4, <1>5

\* ReleaseLeak preserves IInv.
LEMMA ReleaseLeakStep ==
    ASSUME IInv, ReleaseLeak
    PROVE  IInv'
<1> USE MaskAssumption DEF IInv
<1>1. TypeOK'
    BY ReleaseType DEF TypeOK, Procs, ReleaseLeak, mask, tick, game, wait
<1>2. OwnerCounts'
    BY DEF OwnerCounts, TypeOK, ReleaseLeak, Release, nestOf, mask, tick,
       game, wait
<1>3. TickPlace'
    BY DEF TickPlace, TypeOK, Procs, ReleaseLeak, Release, nestOf, mask, tick,
       game, wait
<1>4. TickNest'
    BY DEF TickNest, TickPlace, TypeOK, OwnerCounts, nestOf, Procs, role,
       ReleaseLeak, Release, mask, tick, game, wait
<1>5. Room'
    BY DEF Room, TypeOK, Procs, TickPlace, ReleaseLeak, Release, nestOf, mask,
       tick, game, wait
<1> QED BY <1>1, <1>2, <1>3, <1>4, <1>5

\* NoLeakLeft preserves IInv.
LEMMA NoLeakLeftStep ==
    ASSUME IInv, NoLeakLeft
    PROVE  IInv'
<1> USE MaskAssumption DEF IInv
<1>1. TypeOK'
    BY DEF TypeOK, Procs, NoLeakLeft, nestOf, mask, tick, game, wait
<1>2. OwnerCounts'
    BY DEF OwnerCounts, TypeOK, NoLeakLeft, nestOf, mask, tick, game, wait
<1>3. TickPlace'
    BY DEF TickPlace, TypeOK, Procs, NoLeakLeft, nestOf, mask, tick, game, wait
<1>4. TickNest'
    BY DEF TickNest, TickPlace, TypeOK, OwnerCounts, nestOf, Procs, role,
       NoLeakLeft, mask, tick, game, wait
<1>5. Room'
    BY DEF Room, TypeOK, Procs, TickPlace, NoLeakLeft, nestOf, mask, tick,
       game, wait
<1> QED BY <1>1, <1>2, <1>3, <1>4, <1>5

\* TickRestores preserves IInv.
LEMMA TickRestoresStep ==
    ASSUME IInv, TickRestores
    PROVE  IInv'
<1> USE MaskAssumption DEF IInv
<1>1. TypeOK'
    BY DEF TypeOK, Procs, TickRestores, mask, game, wait
<1>2. OwnerCounts'
    BY DEF OwnerCounts, TypeOK, TickRestores, mask, game, wait
<1>3. TickPlace'
    BY DEF TickPlace, TypeOK, Procs, TickRestores, mask, game, wait
<1>4. TickNest'
    BY DEF TickNest, TickPlace, TypeOK, OwnerCounts, nestOf, Procs, role,
       TickRestores, mask, game, wait
<1>5. Room'
    BY DEF Room, TypeOK, Procs, TickPlace, TickRestores, mask, game, wait
<1> QED BY <1>1, <1>2, <1>3, <1>4, <1>5

\* TickReleases preserves IInv.
LEMMA TickReleasesStep ==
    ASSUME IInv, TickReleases
    PROVE  IInv'
<1> USE MaskAssumption DEF IInv
<1>1. TypeOK'
    BY ReleaseType DEF TypeOK, Procs, TickReleases, mask, tick, game, wait
<1>2. OwnerCounts'
    BY DEF OwnerCounts, TypeOK, TickReleases, Release, mask, tick, game, wait
<1>3. TickPlace'
    BY DEF TickPlace, TypeOK, Procs, TickReleases, Release, mask, tick, game,
       wait
<1>4. TickNest'
    BY DEF TickNest, TickPlace, TypeOK, OwnerCounts, nestOf, Procs, role,
       TickReleases, Release, mask, tick, game, wait
<1>5. Room'
    BY DEF Room, TypeOK, Procs, TickPlace, TickReleases, Release, mask, tick,
       game, wait
<1> QED BY <1>1, <1>2, <1>3, <1>4, <1>5

\* YmfInit preserves IInv.
LEMMA YmfInitStep ==
    ASSUME IInv, YmfInit
    PROVE  IInv'
<1> USE MaskAssumption DEF IInv
<1>1. TypeOK'
    BY DEF TypeOK, Procs, YmfInit, mask, tick, game, wait
<1>2. OwnerCounts'
    BY DEF OwnerCounts, TypeOK, YmfInit, mask, tick, game, wait
<1>3. TickPlace'
    BY DEF TickPlace, TypeOK, Procs, YmfInit, mask, tick, game, wait
<1>4. TickNest'
    BY DEF TickNest, TickPlace, TypeOK, OwnerCounts, nestOf, Procs, role,
       YmfInit, mask, tick, game, wait
<1>5. Room'
    BY DEF Room, TypeOK, Procs, TickPlace, YmfInit, mask, tick, game, wait
<1> QED BY <1>1, <1>2, <1>3, <1>4, <1>5

\* YmfShutdown preserves IInv.
LEMMA YmfShutdownStep ==
    ASSUME IInv, YmfShutdown
    PROVE  IInv'
<1> USE MaskAssumption DEF IInv
<1>1. TypeOK'
    BY DEF TypeOK, Procs, YmfShutdown, mask, tick, game, wait
<1>2. OwnerCounts'
    BY DEF OwnerCounts, TypeOK, YmfShutdown, mask, tick, game, wait
<1>3. TickPlace'
    BY DEF TickPlace, TypeOK, Procs, YmfShutdown, mask, tick, game, wait
<1>4. TickNest'
    BY DEF TickNest, TickPlace, TypeOK, OwnerCounts, nestOf, Procs, role,
       YmfShutdown, mask, tick, game, wait
<1>5. Room'
    BY DEF Room, TypeOK, Procs, TickPlace, YmfShutdown, mask, tick, game, wait
<1> QED BY <1>1, <1>2, <1>3, <1>4, <1>5

\* Claim preserves IInv.
LEMMA ClaimStep ==
    ASSUME IInv, NEW p \in Procs, Claim(p)
    PROVE  IInv'
<1> USE MaskAssumption DEF IInv
<1>1. TypeOK'
    BY DEF TypeOK, Procs, Claim, Granted, role, tick, game
<1>2. OwnerCounts'
    BY DEF OwnerCounts, TypeOK, Claim, Granted, role, tick, game
<1>3. TickPlace'
    BY DEF TickPlace, TypeOK, Procs, Claim, Granted, role, tick, game
<1>4. TickNest'
    BY DEF TickNest, TickPlace, TypeOK, OwnerCounts, nestOf, Procs, role,
       Claim, Granted, tick, game
<1>5. Room'
    BY DEF Room, TypeOK, Procs, TickPlace, Claim, Granted, role, tick, game
<1> QED BY <1>1, <1>2, <1>3, <1>4, <1>5

\* Refused preserves IInv.
LEMMA RefusedStep ==
    ASSUME IInv, NEW p \in Procs, Refused(p)
    PROVE  IInv'
<1> USE MaskAssumption DEF IInv
<1>1. TypeOK'
    BY DEF TypeOK, Procs, Refused, mask, tick, game, wait
<1>2. OwnerCounts'
    BY DEF OwnerCounts, TypeOK, Refused, mask, tick, game, wait
<1>3. TickPlace'
    BY DEF TickPlace, TypeOK, Procs, Refused, mask, tick, game, wait
<1>4. TickNest'
    BY DEF TickNest, TickPlace, TypeOK, OwnerCounts, nestOf, Procs, role,
       Refused, mask, tick, game, wait
<1>5. Room'
    BY DEF Room, TypeOK, Procs, TickPlace, Refused, mask, tick, game, wait
<1> QED BY <1>1, <1>2, <1>3, <1>4, <1>5

\* SawFree preserves IInv.
LEMMA SawFreeStep ==
    ASSUME IInv, NEW p \in Procs, SawFree(p)
    PROVE  IInv'
<1> USE MaskAssumption DEF IInv
<1>1. TypeOK'
    BY DEF TypeOK, Procs, SawFree, tick, game, wait
<1>2. OwnerCounts'
    BY DEF OwnerCounts, TypeOK, SawFree, tick, game, wait
<1>3. TickPlace'
    BY DEF TickPlace, TypeOK, Procs, SawFree, tick, game, wait
<1>4. TickNest'
    BY DEF TickNest, TickPlace, TypeOK, OwnerCounts, nestOf, Procs, role,
       SawFree, tick, game, wait
<1>5. Room'
    BY DEF Room, TypeOK, Procs, TickPlace, SawFree, tick, game, wait
<1> QED BY <1>1, <1>2, <1>3, <1>4, <1>5

\* PollExpired preserves IInv.
LEMMA PollExpiredStep ==
    ASSUME IInv, NEW p \in Procs, PollExpired(p)
    PROVE  IInv'
<1> USE MaskAssumption DEF IInv
<1>1. TypeOK'
  <2>1. waited[p] + 1 \in 0 .. StealPolls
    BY DEF PollExpired, Room, TypeOK
  <2> QED BY <2>1 DEF TypeOK, PollExpired, mask, tick, game
<1>2. OwnerCounts'
    BY DEF OwnerCounts, TypeOK, PollExpired, mask, tick, game, wait
<1>3. TickPlace'
    BY DEF TickPlace, TypeOK, Procs, PollExpired, mask, tick, game, wait
<1>4. TickNest'
    BY DEF TickNest, TickPlace, TypeOK, OwnerCounts, nestOf, Procs, role,
       PollExpired, mask, tick, game, wait
<1>5. Room'
    BY DEF Room, TypeOK, Procs, TickPlace, PollExpired, mask, tick, game, wait
<1> QED BY <1>1, <1>2, <1>3, <1>4, <1>5

\* Steal preserves IInv.
LEMMA StealStep ==
    ASSUME IInv, NEW p \in Procs, Steal(p)
    PROVE  IInv'
<1> USE MaskAssumption DEF IInv
<1>1. TypeOK'
    BY DEF TypeOK, Procs, Steal, Granted, role, tick, game
<1>2. OwnerCounts'
    BY DEF OwnerCounts, TypeOK, Steal, Granted, role, tick, game
<1>3. TickPlace'
    BY DEF TickPlace, TypeOK, Procs, Steal, Granted, role, tick, game
<1>4. TickNest'
    BY DEF TickNest, TickPlace, TypeOK, OwnerCounts, nestOf, Procs, role,
       Steal, Granted, tick, game
<1>5. Room'
    BY DEF Room, TypeOK, Procs, TickPlace, Steal, Granted, role, tick, game
<1> QED BY <1>1, <1>2, <1>3, <1>4, <1>5

\* Lock preserves IInv.
LEMMA LockStep ==
    ASSUME IInv, NEW p \in Procs, Lock(p)
    PROVE  IInv'
<1> USE MaskAssumption DEF IInv
<1>1. TypeOK'
    BY DEF TypeOK, Procs, Lock, StartAcquire, InGame, mask, tick, wait
<1>2. OwnerCounts'
    BY DEF OwnerCounts, TypeOK, Lock, StartAcquire, InGame, mask, tick, wait
<1>3. TickPlace'
    BY DEF TickPlace, TypeOK, Procs, Lock, StartAcquire, InGame, mask, tick,
       wait
<1>4. TickNest'
    BY DEF TickNest, TickPlace, TypeOK, OwnerCounts, nestOf, Procs, role,
       Lock, StartAcquire, InGame, mask, tick, wait
<1>5. Room'
    BY DEF Room, TypeOK, Procs, TickPlace, Lock, StartAcquire, InGame, mask,
       tick, wait
<1> QED BY <1>1, <1>2, <1>3, <1>4, <1>5

\* Enter preserves IInv.
LEMMA EnterStep ==
    ASSUME IInv, NEW p \in Procs, Enter(p)
    PROVE  IInv'
<1> USE MaskAssumption DEF IInv
<1>1. TypeOK'
  <2>1. depth' \in 0 .. (DepthMod - 1)
    <3>1. depth + 1 \in Int
      BY DEF TypeOK
    <3> QED BY <3>1, DepthType DEF Enter
  <2>2. lvl[p] + 1 \in 0 .. MaxDepth
    BY DEF Enter, Room, TypeOK
  <2> QED BY <2>1, <2>2 DEF TypeOK, Enter, mask, tick, wait
<1>2. OwnerCounts'
    BY DEF OwnerCounts, TypeOK, Enter, mask, tick, wait
<1>3. TickPlace'
    BY DEF TickPlace, TypeOK, Procs, Enter, mask, tick, wait
<1>4. TickNest'
    BY DEF TickNest, TickPlace, TypeOK, OwnerCounts, nestOf, Procs, role,
       Enter, mask, tick, wait
<1>5. Room'
    BY DEF Room, TypeOK, Procs, TickPlace, Enter, mask, tick, wait
<1> QED BY <1>1, <1>2, <1>3, <1>4, <1>5

\* Unlock preserves IInv.
LEMMA UnlockStep ==
    ASSUME IInv, NEW p \in Procs, Unlock(p)
    PROVE  IInv'
<1> USE MaskAssumption DEF IInv
<1>1. TypeOK'
    BY DEF TypeOK, Procs, Unlock, InGame, mask, tick, wait
<1>2. OwnerCounts'
    BY DEF OwnerCounts, TypeOK, Unlock, InGame, mask, tick, wait
<1>3. TickPlace'
    BY DEF TickPlace, TypeOK, Procs, Unlock, InGame, mask, tick, wait
<1>4. TickNest'
    BY DEF TickNest, TickPlace, TypeOK, OwnerCounts, nestOf, Procs, role,
       Unlock, InGame, mask, tick, wait
<1>5. Room'
    BY DEF Room, TypeOK, Procs, TickPlace, Unlock, InGame, mask, tick, wait
<1> QED BY <1>1, <1>2, <1>3, <1>4, <1>5

\* Unmask preserves IInv.
LEMMA UnmaskStep ==
    ASSUME IInv, NEW p \in Procs, Unmask(p)
    PROVE  IInv'
<1> USE MaskAssumption DEF IInv
<1>1. TypeOK'
    BY ReleaseType DEF TypeOK, Procs, Unmask, mask, tick, game, wait
<1>2. OwnerCounts'
    BY DEF OwnerCounts, TypeOK, Unmask, Release, role, mask, tick, game, wait
<1>3. TickPlace'
    BY DEF TickPlace, TypeOK, Procs, Unmask, Release, role, mask, tick, game,
       wait
<1>4. TickNest'
    BY DEF TickNest, TickPlace, TypeOK, OwnerCounts, nestOf, Procs, role,
       Unmask, Release, mask, tick, game, wait
<1>5. Room'
    BY DEF Room, TypeOK, Procs, TickPlace, Unmask, Release, role, mask, tick,
       game, wait
<1> QED BY <1>1, <1>2, <1>3, <1>4, <1>5

\* The idle machine satisfies the invariant.
LEMMA InitMask == Init => IInv
<1> SUFFICES ASSUME Init PROVE IInv
  OBVIOUS
<1>1. 0 \in 0 .. (DepthMod - 1) /\ 0 \in 0 .. MaxDepth /\ 0 \in 0 .. StealPolls
      /\ 0 \in Nat
  BY MaskAssumption
<1>2. TypeOK
  BY <1>1 DEF Init, TypeOK
<1>3. OwnerCounts /\ TickPlace /\ TickNest /\ Room
  BY MaskAssumption DEF Init, OwnerCounts, TickPlace, TickNest, nestOf, Procs,
     Room
<1> QED BY <1>2, <1>3 DEF IInv

\* A stuttering step preserves the invariant.
LEMMA StutterMask ==
    ASSUME IInv, UNCHANGED vars
    PROVE  IInv'
BY DEF IInv, TypeOK, OwnerCounts, TickPlace, TickNest, Room, nestOf,
   vars, mask, tick, game, wait

\* Every step preserves the invariant.
LEMMA StepMask == ASSUME IInv, [Next]_vars PROVE IInv'
<1>1. CASE TickStep
  BY <1>1, TickWakesStep, TickSavesStep, TickClearsStep, CallbackReturnsStep,
     ReleaseLeakStep, NoLeakLeftStep, TickRestoresStep, TickReleasesStep
     DEF TickStep
<1>2. CASE YmfInit \/ YmfShutdown
  BY <1>2, YmfInitStep, YmfShutdownStep
<1>3. ASSUME NEW p \in Procs,
             Acquire(p) \/ Lock(p) \/ Enter(p) \/ Unlock(p) \/ Unmask(p)
      PROVE  IInv'
  BY <1>3, ClaimStep, RefusedStep, SawFreeStep, PollExpiredStep, StealStep,
     LockStep, EnterStep, UnlockStep, UnmaskStep DEF Acquire
<1>4. CASE UNCHANGED vars
  BY <1>4, StutterMask
<1> QED BY <1>1, <1>2, <1>3, <1>4 DEF Next

\* TickLetsGo and OwnerCounts for every number of game threads, with steals and
\* with callbacks that lock: no path through mask_acquire's steal, the leak loop
\* of dcs_thread or an unbalanced unmask leaves the mask with the sleeping tick.
THEOREM MaskSafety == Spec => [](TypeOK /\ OwnerCounts /\ TickLetsGo)
<1>1. Init => IInv
  BY InitMask
<1>2. IInv /\ [Next]_vars => IInv'
  BY StepMask
<1>3. IInv => TypeOK /\ OwnerCounts /\ TickLetsGo
  BY DEF IInv, TickNest, TickLetsGo
<1> QED BY <1>1, <1>2, <1>3, PTL DEF Spec

-----------------------------------------------------------------------------
(* Until the mask is stolen or a game thread comes to the lock while       *)
(* another thread is in it, one game thread g has its turn at the lock;    *)
(* the callback may take it whenever it runs.                              *)

\* What the lock gives: the mask is the thread's until its last unlock.
Inside(p) == lvl[p] > 0 \/ pc[p] \in {"enter", "unmask"}

Turn(g) == \A h \in GameThreads \ {g} : lvl[h] = 0 /\ pc[h] = "out"

\* Who holds the mask, and how often, follows from where the threads are.
Holder(g) ==
    /\ owner = "tick" <=> tpc \notin {"sleep", "masking"}
    /\ owner = "game" <=> Inside(g)
    /\ owner = "game" => nest = 1
    /\ owner = "tick" => nest = IF Inside(Tick) THEN 2 ELSE 1
    /\ tpc \in {"callback", "leak"} => before = 1

\* The depth is the nesting of the thread that is inside, the tick's save and
\* restore included, and the mask is asked for at its edges only.
Depth(g) ==
    /\ depth = lvl[g] + lvl[Tick]
    /\ \A p \in {g, Tick} : pc[p] \in {"masking", "unmask"} => lvl[p] = 0
    /\ tpc \in {"clear", "callback", "leak", "restore"} => saved = 0
    /\ tpc # "callback" => lvl[Tick] = 0

HInv(g) == IInv /\ Turn(g) /\ Holder(g) /\ Depth(g)

\* The depth arithmetic does not wrap for a thread within MaxDepth.
LEMMA DepthArith ==
    ASSUME NEW n \in 0 .. MaxDepth
    PROVE  /\ n < MaxDepth => (n + 1) % DepthMod = n + 1
           /\ n > 0 => (n - 1) % DepthMod = n - 1
<1>1. DepthMod \in Nat /\ MaxDepth \in Nat /\ DepthMod > MaxDepth
  BY MaskAssumption
<1>2. ASSUME n < MaxDepth PROVE (n + 1) % DepthMod = n + 1
  BY <1>1, <1>2
<1>3. ASSUME n > 0 PROVE (n - 1) % DepthMod = n - 1
  BY <1>1, <1>3
<1> QED BY <1>2, <1>3

\* A thread that is out of the lock passes the turn to any other.
LEMMA TurnPasses ==
    ASSUME NEW g \in GameThreads, NEW h \in GameThreads, HInv(g), ~Busy(g)
    PROVE  HInv(h)
<1>1. g \in Procs /\ h \in Procs /\ g # Tick /\ h # Tick
  BY MaskAssumption DEF Procs
<1>2. lvl[g] = 0 /\ pc[g] = "out" /\ lvl[h] = 0 /\ pc[h] = "out"
  BY <1>1 DEF HInv, Turn, Busy, IInv, TypeOK
<1>3. Turn(h) /\ Holder(h) /\ Depth(h)
  BY <1>2 DEF HInv, Turn, Holder, Depth, Inside
<1> QED BY <1>3 DEF HInv

\* TickWakes preserves the invariant of the thread whose turn it is.
LEMMA TickWakesHeld ==
    ASSUME NEW g \in GameThreads, HInv(g), TickWakes
    PROVE  HInv(g)'
<1> USE MaskAssumption DEF HInv
<1>1. IInv'
  BY TickWakesStep
<1>2. Turn(g)' /\ Holder(g)'
  BY DEF Holder, Depth, Inside, Turn, Procs, IInv, TypeOK, TickPlace, TickNest,
     OwnerCounts, nestOf, Room, role, TickWakes, StartAcquire, mask, game
<1>3. Depth(g)'
  BY DEF Holder, Depth, Inside, Turn, Procs, IInv, TypeOK, TickPlace, TickNest,
     OwnerCounts, nestOf, Room, role, TickWakes, StartAcquire, mask, game
<1> QED BY <1>1, <1>2, <1>3

\* TickSaves preserves the invariant of the thread whose turn it is.
LEMMA TickSavesHeld ==
    ASSUME NEW g \in GameThreads, HInv(g), TickSaves
    PROVE  HInv(g)'
<1> USE MaskAssumption DEF HInv
<1>1. IInv'
  BY TickSavesStep
<1>2. Turn(g)' /\ Holder(g)'
  BY DEF Holder, Depth, Inside, Turn, Procs, IInv, TypeOK, TickPlace, TickNest,
     OwnerCounts, nestOf, Room, role, TickSaves, mask, game, wait
<1>3. Depth(g)'
  BY DEF Holder, Depth, Inside, Turn, Procs, IInv, TypeOK, TickPlace, TickNest,
     OwnerCounts, nestOf, Room, role, TickSaves, mask, game, wait
<1> QED BY <1>1, <1>2, <1>3

\* TickClears preserves the invariant of the thread whose turn it is.
LEMMA TickClearsHeld ==
    ASSUME NEW g \in GameThreads, HInv(g), TickClears
    PROVE  HInv(g)'
<1> USE MaskAssumption DEF HInv
<1>1. IInv'
  BY TickClearsStep
<1>2. Turn(g)' /\ Holder(g)'
  BY DEF Holder, Depth, Inside, Turn, Procs, IInv, TypeOK, TickPlace, TickNest,
     OwnerCounts, nestOf, Room, role, TickClears, mask, tick, game, wait
<1>3. Depth(g)'
  BY DEF Holder, Depth, Inside, Turn, Procs, IInv, TypeOK, TickPlace, TickNest,
     OwnerCounts, nestOf, Room, role, TickClears, mask, tick, game, wait
<1> QED BY <1>1, <1>2, <1>3

\* CallbackReturns preserves the invariant of the thread whose turn it is.
LEMMA CallbackReturnsHeld ==
    ASSUME NEW g \in GameThreads, HInv(g), CallbackReturns
    PROVE  HInv(g)'
<1> USE MaskAssumption DEF HInv
<1>1. IInv'
  BY CallbackReturnsStep
<1>2. Turn(g)' /\ Holder(g)'
  BY DEF Holder, Depth, Inside, Turn, Procs, IInv, TypeOK, TickPlace, TickNest,
     OwnerCounts, nestOf, Room, role, CallbackReturns, mask, game, wait
<1>3. Depth(g)'
  BY DEF Holder, Depth, Inside, Turn, Procs, IInv, TypeOK, TickPlace, TickNest,
     OwnerCounts, nestOf, Room, role, CallbackReturns, mask, game, wait
<1> QED BY <1>1, <1>2, <1>3

\* ReleaseLeak preserves the invariant of the thread whose turn it is.
LEMMA ReleaseLeakHeld ==
    ASSUME NEW g \in GameThreads, HInv(g), ReleaseLeak
    PROVE  HInv(g)'
<1> USE MaskAssumption DEF HInv
<1>1. IInv'
  BY ReleaseLeakStep
<1>2. Turn(g)' /\ Holder(g)'
  BY DEF Holder, Depth, Inside, Turn, Procs, IInv, TypeOK, TickPlace, TickNest,
     OwnerCounts, nestOf, Room, role, ReleaseLeak, Release, mask, tick, game, wait
<1>3. Depth(g)'
  BY DEF Holder, Depth, Inside, Turn, Procs, IInv, TypeOK, TickPlace, TickNest,
     OwnerCounts, nestOf, Room, role, ReleaseLeak, Release, mask, tick, game, wait
<1> QED BY <1>1, <1>2, <1>3

\* NoLeakLeft preserves the invariant of the thread whose turn it is.
LEMMA NoLeakLeftHeld ==
    ASSUME NEW g \in GameThreads, HInv(g), NoLeakLeft
    PROVE  HInv(g)'
<1> USE MaskAssumption DEF HInv
<1>1. IInv'
  BY NoLeakLeftStep
<1>2. Turn(g)' /\ Holder(g)'
  BY DEF Holder, Depth, Inside, Turn, Procs, IInv, TypeOK, TickPlace, TickNest,
     OwnerCounts, nestOf, Room, role, NoLeakLeft, mask, tick, game, wait
<1>3. Depth(g)'
  BY DEF Holder, Depth, Inside, Turn, Procs, IInv, TypeOK, TickPlace, TickNest,
     OwnerCounts, nestOf, Room, role, NoLeakLeft, mask, tick, game, wait
<1> QED BY <1>1, <1>2, <1>3

\* TickRestores preserves the invariant of the thread whose turn it is.
LEMMA TickRestoresHeld ==
    ASSUME NEW g \in GameThreads, HInv(g), TickRestores
    PROVE  HInv(g)'
<1> USE MaskAssumption DEF HInv
<1>1. IInv'
  BY TickRestoresStep
<1>2. Turn(g)' /\ Holder(g)'
  BY DEF Holder, Depth, Inside, Turn, Procs, IInv, TypeOK, TickPlace, TickNest,
     OwnerCounts, nestOf, Room, role, TickRestores, mask, game, wait
<1>3. Depth(g)'
  BY DEF Holder, Depth, Inside, Turn, Procs, IInv, TypeOK, TickPlace, TickNest,
     OwnerCounts, nestOf, Room, role, TickRestores, mask, game, wait
<1> QED BY <1>1, <1>2, <1>3

\* TickReleases preserves the invariant of the thread whose turn it is.
LEMMA TickReleasesHeld ==
    ASSUME NEW g \in GameThreads, HInv(g), TickReleases
    PROVE  HInv(g)'
<1> USE MaskAssumption DEF HInv
<1>1. IInv'
  BY TickReleasesStep
<1>2. Turn(g)' /\ Holder(g)'
  BY DEF Holder, Depth, Inside, Turn, Procs, IInv, TypeOK, TickPlace, TickNest,
     OwnerCounts, nestOf, Room, role, TickReleases, Release, mask, tick, game, wait
<1>3. Depth(g)'
  BY DEF Holder, Depth, Inside, Turn, Procs, IInv, TypeOK, TickPlace, TickNest,
     OwnerCounts, nestOf, Room, role, TickReleases, Release, mask, tick, game, wait
<1> QED BY <1>1, <1>2, <1>3

\* YmfInit preserves the invariant of the thread whose turn it is.
LEMMA YmfInitHeld ==
    ASSUME NEW g \in GameThreads, HInv(g), YmfInit
    PROVE  HInv(g)'
<1> USE MaskAssumption DEF HInv
<1>1. IInv'
  BY YmfInitStep
<1>2. Turn(g)' /\ Holder(g)'
  BY DEF Holder, Depth, Inside, Turn, Procs, IInv, TypeOK, TickPlace, TickNest,
     OwnerCounts, nestOf, Room, role, YmfInit, mask, tick, game, wait
<1>3. Depth(g)'
  BY DEF Holder, Depth, Inside, Turn, Procs, IInv, TypeOK, TickPlace, TickNest,
     OwnerCounts, nestOf, Room, role, YmfInit, mask, tick, game, wait
<1> QED BY <1>1, <1>2, <1>3

\* YmfShutdown preserves the invariant of the thread whose turn it is.
LEMMA YmfShutdownHeld ==
    ASSUME NEW g \in GameThreads, HInv(g), YmfShutdown
    PROVE  HInv(g)'
<1> USE MaskAssumption DEF HInv
<1>1. IInv'
  BY YmfShutdownStep
<1>2. Turn(g)' /\ Holder(g)'
  BY DEF Holder, Depth, Inside, Turn, Procs, IInv, TypeOK, TickPlace, TickNest,
     OwnerCounts, nestOf, Room, role, YmfShutdown, mask, tick, game, wait
<1>3. Depth(g)'
  BY DEF Holder, Depth, Inside, Turn, Procs, IInv, TypeOK, TickPlace, TickNest,
     OwnerCounts, nestOf, Room, role, YmfShutdown, mask, tick, game, wait
<1> QED BY <1>1, <1>2, <1>3

\* Claim preserves the invariant of the thread whose turn it is.
LEMMA ClaimHeld ==
    ASSUME NEW g \in GameThreads, HInv(g), NEW p \in {g, Tick}, Claim(p)
    PROVE  HInv(g)'
<1> USE MaskAssumption DEF HInv
<1>1. IInv'
  BY ClaimStep DEF Procs
<1>2. Turn(g)' /\ Holder(g)'
  BY DEF Holder, Depth, Inside, Turn, Procs, IInv, TypeOK, TickPlace, TickNest,
     OwnerCounts, nestOf, Room, role, Claim, Granted, tick, game
<1>3. Depth(g)'
  BY DEF Holder, Depth, Inside, Turn, Procs, IInv, TypeOK, TickPlace, TickNest,
     OwnerCounts, nestOf, Room, role, Claim, Granted, tick, game
<1> QED BY <1>1, <1>2, <1>3

\* Refused preserves the invariant of the thread whose turn it is.
LEMMA RefusedHeld ==
    ASSUME NEW g \in GameThreads, HInv(g), NEW p \in {g, Tick}, Refused(p)
    PROVE  HInv(g)'
<1> USE MaskAssumption DEF HInv
<1>1. IInv'
  BY RefusedStep DEF Procs
<1>2. Turn(g)' /\ Holder(g)'
  BY DEF Holder, Depth, Inside, Turn, Procs, IInv, TypeOK, TickPlace, TickNest,
     OwnerCounts, nestOf, Room, role, Refused, mask, tick, game, wait
<1>3. Depth(g)'
  BY DEF Holder, Depth, Inside, Turn, Procs, IInv, TypeOK, TickPlace, TickNest,
     OwnerCounts, nestOf, Room, role, Refused, mask, tick, game, wait
<1> QED BY <1>1, <1>2, <1>3

\* SawFree preserves the invariant of the thread whose turn it is.
LEMMA SawFreeHeld ==
    ASSUME NEW g \in GameThreads, HInv(g), NEW p \in {g, Tick}, SawFree(p)
    PROVE  HInv(g)'
<1> USE MaskAssumption DEF HInv
<1>1. IInv'
  BY SawFreeStep DEF Procs
<1>2. Turn(g)' /\ Holder(g)'
  BY DEF Holder, Depth, Inside, Turn, Procs, IInv, TypeOK, TickPlace, TickNest,
     OwnerCounts, nestOf, Room, role, SawFree, tick, game, wait
<1>3. Depth(g)'
  BY DEF Holder, Depth, Inside, Turn, Procs, IInv, TypeOK, TickPlace, TickNest,
     OwnerCounts, nestOf, Room, role, SawFree, tick, game, wait
<1> QED BY <1>1, <1>2, <1>3

\* PollExpired preserves the invariant of the thread whose turn it is.
LEMMA PollExpiredHeld ==
    ASSUME NEW g \in GameThreads, HInv(g), NEW p \in {g, Tick}, PollExpired(p)
    PROVE  HInv(g)'
<1> USE MaskAssumption DEF HInv
<1>1. IInv'
  BY PollExpiredStep DEF Procs
<1>2. Turn(g)' /\ Holder(g)'
  BY DEF Holder, Depth, Inside, Turn, Procs, IInv, TypeOK, TickPlace, TickNest,
     OwnerCounts, nestOf, Room, role, PollExpired, mask, tick, game, wait
<1>3. Depth(g)'
  BY DEF Holder, Depth, Inside, Turn, Procs, IInv, TypeOK, TickPlace, TickNest,
     OwnerCounts, nestOf, Room, role, PollExpired, mask, tick, game, wait
<1> QED BY <1>1, <1>2, <1>3

\* Lock preserves the invariant of the thread whose turn it is.
LEMMA LockHeld ==
    ASSUME NEW g \in GameThreads, HInv(g), NEW p \in {g, Tick}, Lock(p),
           p # Tick => ~Busy(Tick)
    PROVE  HInv(g)'
<1> USE MaskAssumption DEF HInv
<1>1. IInv'
  BY LockStep DEF Procs
<1>2. Turn(g)'
  BY DEF Turn, Procs, IInv, TypeOK, Lock
<1>3. Holder(g)'
  <2>1. depth = 0 <=> lvl[p] = 0
    <3>1. lvl[g] \in Nat /\ lvl[Tick] \in Nat
      BY DEF IInv, TypeOK, Procs
    <3>2. p = Tick => lvl[g] = 0
      BY <3>1 DEF Holder, Inside, Lock, InGame
    <3>3. p # Tick => lvl[Tick] = 0
      BY <3>1 DEF Busy
    <3> QED BY <3>1, <3>2, <3>3 DEF Depth
  <2>2. /\ UNCHANGED <<owner, nest, tpc, before, lvl>> /\ pc[p] = "out"
        /\ pc' = [pc EXCEPT ![p] = IF lvl[p] = 0 THEN "masking" ELSE "enter"]
    BY <2>1 DEF Lock, mask, tick
  <2>3. Inside(g)' <=> Inside(g)
    BY <2>2 DEF Inside, IInv, TypeOK, Procs
  <2>4. Inside(Tick)' <=> Inside(Tick)
    BY <2>2 DEF Inside, IInv, TypeOK, Procs
  <2> QED BY <2>2, <2>3, <2>4 DEF Holder
<1>4. Depth(g)'
  BY DEF Holder, Depth, Inside, Turn, Procs, IInv, TypeOK, TickPlace, TickNest,
     OwnerCounts, nestOf, Room, role, Lock, StartAcquire, InGame, mask, tick, wait
<1> QED BY <1>1, <1>2, <1>3, <1>4

\* Enter preserves the invariant of the thread whose turn it is.
LEMMA EnterHeld ==
    ASSUME NEW g \in GameThreads, HInv(g), NEW p \in {g, Tick}, Enter(p)
    PROVE  HInv(g)'
<1> USE MaskAssumption DEF HInv
<1>1. IInv'
  BY EnterStep DEF Procs
<1>2. Turn(g)' /\ Holder(g)'
  BY DepthArith DEF Holder, Depth, Inside, Turn, Procs, IInv, TypeOK, TickPlace, TickNest,
     OwnerCounts, nestOf, Room, role, Enter, mask, tick, wait
<1>3. Depth(g)'
  BY DepthArith DEF Holder, Depth, Inside, Turn, Procs, IInv, TypeOK, TickPlace, TickNest,
     OwnerCounts, nestOf, Room, role, Enter, mask, tick, wait
<1> QED BY <1>1, <1>2, <1>3

\* Unlock preserves the invariant of the thread whose turn it is.
LEMMA UnlockHeld ==
    ASSUME NEW g \in GameThreads, HInv(g), NEW p \in {g, Tick}, Unlock(p)
    PROVE  HInv(g)'
<1> USE MaskAssumption DEF HInv
<1>1. IInv'
  BY UnlockStep DEF Procs
<1>2. Turn(g)' /\ Holder(g)'
  BY DepthArith DEF Holder, Depth, Inside, Turn, Procs, IInv, TypeOK, TickPlace, TickNest,
     OwnerCounts, nestOf, Room, role, Unlock, InGame, mask, tick, wait
<1>3. Depth(g)'
  BY DepthArith DEF Holder, Depth, Inside, Turn, Procs, IInv, TypeOK, TickPlace, TickNest,
     OwnerCounts, nestOf, Room, role, Unlock, InGame, mask, tick, wait
<1> QED BY <1>1, <1>2, <1>3

\* Unmask preserves the invariant of the thread whose turn it is.
LEMMA UnmaskHeld ==
    ASSUME NEW g \in GameThreads, HInv(g), NEW p \in {g, Tick}, Unmask(p)
    PROVE  HInv(g)'
<1> USE MaskAssumption DEF HInv
<1>1. IInv'
  BY UnmaskStep DEF Procs
<1>2. Turn(g)' /\ Holder(g)'
  BY DEF Holder, Depth, Inside, Turn, Procs, IInv, TypeOK, TickPlace, TickNest,
     OwnerCounts, nestOf, Room, role, Unmask, Release, mask, tick, game, wait
<1>3. Depth(g)'
  BY DEF Holder, Depth, Inside, Turn, Procs, IInv, TypeOK, TickPlace, TickNest,
     OwnerCounts, nestOf, Room, role, Unmask, Release, mask, tick, game, wait
<1> QED BY <1>1, <1>2, <1>3

\* A thread with no turn does nothing but come to the lock.
LEMMA TurnSteps ==
    ASSUME NEW g \in GameThreads, HInv(g), NEW p \in Procs,
           Acquire(p) \/ Enter(p) \/ Unlock(p) \/ Unmask(p)
    PROVE  p \in {g, Tick}
<1>1. ASSUME p \notin {g, Tick} PROVE FALSE
  <2>1. lvl[p] = 0 /\ pc[p] = "out" /\ acq[p] = "none"
    BY <1>1 DEF HInv, Turn, IInv, Room, Procs
  <2> QED BY <2>1 DEF Acquire, Claim, Refused, SawFree, PollExpired, Steal,
          Enter, Unlock, Unmask
<1> QED BY <1>1

\* It is somebody's turn.
HeldInv == IInv /\ (~met => \E g \in GameThreads : HInv(g))

LEMMA InitHeld == ASSUME NEW g \in GameThreads, Init PROVE HInv(g)
<1>1. IInv
  BY InitMask
<1>2. g \in Procs /\ Tick \in Procs /\ \A h \in GameThreads : h \in Procs
  BY DEF Procs
<1>3. Turn(g) /\ Holder(g) /\ Depth(g)
  BY <1>2 DEF Init, Turn, Holder, Depth, Inside
<1> QED BY <1>1, <1>3 DEF HInv

\* Met is never taken back.
LEMMA MetStays == ASSUME [Next]_vars, ~met' PROVE ~met
BY DEF Next, vars, TickStep, TickWakes, TickSaves, TickClears, CallbackReturns,
   ReleaseLeak, NoLeakLeft, TickRestores, TickReleases, YmfInit, YmfShutdown,
   Acquire, Claim, Refused, SawFree, PollExpired, Steal, Lock, Enter, Unlock,
   Unmask

LEMMA StepHeld ==
    ASSUME NEW g \in GameThreads, HInv(g), [Next]_vars, ~met'
    PROVE  \E h \in GameThreads : HInv(h)'
<1>1. CASE TickStep
  <2>1. HInv(g)'
    BY <1>1, TickWakesHeld, TickSavesHeld, TickClearsHeld, CallbackReturnsHeld,
       ReleaseLeakHeld, NoLeakLeftHeld, TickRestoresHeld, TickReleasesHeld
       DEF TickStep
  <2> QED BY <2>1
<1>2. CASE YmfInit \/ YmfShutdown
  BY <1>2, YmfInitHeld, YmfShutdownHeld
<1>3. ASSUME NEW p \in Procs, Acquire(p) \/ Enter(p) \/ Unlock(p) \/ Unmask(p)
      PROVE  HInv(g)'
  <2>1. p \in {g, Tick}
    BY <1>3, TurnSteps
  <2>2. ~Steal(p)
    BY DEF Steal
  <2> QED BY <1>3, <2>1, <2>2, ClaimHeld, RefusedHeld, SawFreeHeld,
             PollExpiredHeld, EnterHeld, UnlockHeld, UnmaskHeld DEF Acquire
<1>4. ASSUME NEW p \in Procs, Lock(p)
      PROVE  \E h \in GameThreads : HInv(h)'
  <2>1. CASE p = Tick
    <3>1. HInv(g)'
      BY <1>4, <2>1, LockHeld
    <3> QED BY <3>1
  <2>2. CASE p # Tick
    <3>1. p \in GameThreads /\ \A q \in Procs \ {p} : ~Busy(q)
      BY <1>4, <2>2 DEF Lock, Procs
    <3>2. HInv(p)
      <4>1. CASE p = g
        BY <4>1
      <4>2. CASE p # g
        <5>1. g \in Procs \ {p}
          BY <4>2 DEF Procs
        <5> QED BY <3>1, <5>1, TurnPasses
      <4> QED BY <4>1, <4>2
    <3>3. ~Busy(Tick)
      BY <2>2, <3>1 DEF Procs
    <3>4. HInv(p)'
      BY <1>4, <3>1, <3>2, <3>3, LockHeld
    <3> QED BY <3>1, <3>4
  <2> QED BY <2>1, <2>2
<1>5. CASE UNCHANGED vars
  <2>1. HInv(g)'
    BY <1>5, StutterMask DEF HInv, Turn, Holder, Depth, Inside, vars, mask, tick,
       game, wait
  <2> QED BY <2>1
<1> QED BY <1>1, <1>2, <1>3, <1>4, <1>5 DEF Next

LEMMA HeldTells ==
    ASSUME NEW g \in GameThreads, HInv(g) PROVE MaskExcludes /\ DepthTells
<1>1. \A h \in GameThreads : h # g => lvl[h] = 0
  BY DEF HInv, Turn
<1>2. lvl[g] \in Nat
  BY DEF HInv, IInv, TypeOK, Procs
<1>3. lvl[g] > 0 => owner = "game"
  BY DEF HInv, Holder, Inside
<1>4. MaskExcludes
  BY <1>1, <1>2, <1>3 DEF HInv, Holder, MaskExcludes, InCallback
<1>5. DepthTells
  BY <1>1, <1>2 DEF HInv, Depth, DepthTells
<1> QED BY <1>4, <1>5

\* The depth tells and the mask excludes the tick: the interrupt masking of the
\* cabinet, kept by mask_acquire, mask_release and dcs_thread's save and restore,
\* for any number of game threads, holders that stall and callbacks that lock,
\* until a steal or a thread that comes to the lock while another is in it.
THEOREM MaskExclusion == Spec => []LockTells
<1>1. Init => HeldInv
  <2> SUFFICES ASSUME Init PROVE HeldInv
    OBVIOUS
  <2>1. PICK g \in GameThreads : TRUE
    BY MaskAssumption
  <2> QED BY <2>1, InitMask, InitHeld DEF HeldInv
<1>2. HeldInv /\ [Next]_vars => HeldInv'
  <2> SUFFICES ASSUME HeldInv, [Next]_vars PROVE HeldInv'
    OBVIOUS
  <2>1. IInv'
    BY StepMask DEF HeldInv
  <2>2. ASSUME ~met' PROVE \E h \in GameThreads : HInv(h)'
    BY <2>2, MetStays, StepHeld DEF HeldInv
  <2> QED BY <2>1, <2>2 DEF HeldInv
<1>3. HeldInv => LockTells
  <2> SUFFICES ASSUME HeldInv, ~met PROVE MaskExcludes /\ DepthTells
    BY DEF LockTells
  <2>1. PICK g \in GameThreads : HInv(g)
    BY DEF HeldInv
  <2> QED BY <2>1, HeldTells
<1> QED BY <1>1, <1>2, <1>3, PTL DEF Spec

-----------------------------------------------------------------------------
(* The in-between draw (ReplayHold).                                       *)

\* The side lock is the drawer's throughout the window and the tick's
\* throughout a turn; what the drawer waits and draws with is balanced.
SideOf ==
    /\ side = "drawer" <=> hpc \in Window
    /\ side = "tick" <=> tpc # "sleep"
Snapped == snap.depth \in 0 .. (DepthMod - 1) /\ snap.lvl = 0
Waiting == hpc = "wait" => Balanced
Standing == hpc \in {"abandoned", "unmasking", "done"} => pc[Drawer] = "out"
SideInv == IInv /\ SideOf /\ Snapped /\ Waiting /\ Standing

\* A thread that stands still is where it was when another takes a step.
LEMMA OthersMask ==
    ASSUME NEW p \in Procs, NEW q \in Procs, p # q, IInv,
           Acquire(p) \/ Lock(p) \/ Enter(p) \/ Unlock(p) \/ Unmask(p)
    PROVE  pc'[q] = pc[q] /\ lvl'[q] = lvl[q]
<1>1. pc \in [Procs -> {"out", "masking", "enter", "unmask"}]
      /\ lvl \in [Procs -> 0 .. MaxDepth]
  BY DEF IInv, TypeOK
<1>2. CASE Acquire(p)
  BY <1>1, <1>2 DEF Acquire, Claim, Refused, SawFree, PollExpired, Steal,
     Granted, tick, game
<1>3. CASE Lock(p) \/ Enter(p) \/ Unlock(p) \/ Unmask(p)
  BY <1>1, <1>3 DEF Lock, Enter, Unlock, Unmask
<1> QED BY <1>2, <1>3

\* The tick that sleeps does nothing in the game's code, and only the tick
\* wakes and sleeps.
LEMMA TickAsleep ==
    ASSUME IInv, NEW p \in Procs,
           Acquire(p) \/ Lock(p) \/ Enter(p) \/ Unlock(p) \/ Unmask(p)
    PROVE  /\ tpc = "sleep" => p # Tick
           /\ tpc' = "sleep" <=> tpc = "sleep"
<1>1. /\ acq[Tick] # "none" => tpc # "sleep"
      /\ pc[Tick] # "out" => tpc # "sleep"
  BY DEF IInv, TickPlace
<1>2. tpc = "sleep" => p # Tick
  BY <1>1 DEF Acquire, Claim, Refused, SawFree, PollExpired, Steal, Lock, Enter,
     Unlock, Unmask, InGame
<1>3. tpc' = tpc \/ (tpc = "masking" /\ tpc' = "save")
  BY DEF Acquire, Claim, Refused, SawFree, PollExpired, Steal, Granted,
     Lock, Enter, Unlock, Unmask, tick, game
<1> QED BY <1>2, <1>3

LEMMA SideInit == ASSUME HoldInit PROVE SideInv
<1>1. 0 \in 0 .. (DepthMod - 1)
  BY MaskAssumption
<1>2. IInv
  BY InitMask DEF HoldInit
<1> QED BY <1>1, <1>2 DEF HoldInit, Init, SideInv, SideOf, Snapped, Waiting,
           Standing, Window

LEMMA SideTickKeeps == ASSUME SideInv, SideTick PROVE SideInv'
<1>1. TickStep
  BY DEF SideTick, TickStep, TickBody
<1>2. IInv'
  BY <1>1, StepMask DEF SideInv, Next
<1>3. UNCHANGED <<pc, lvl, hpc, snap, guard, irq>>
  BY <1>1 DEF SideTick, TickStep, TickWakes, TickSaves, TickClears,
     CallbackReturns, ReleaseLeak, NoLeakLeft, TickRestores, TickReleases, game,
     tick
<1>4. \/ tpc = "sleep" /\ tpc' = "masking" /\ side = "nobody" /\ side' = "tick"
      \/ tpc # "sleep" /\ tpc' # "sleep" /\ side' = side
      \/ tpc # "sleep" /\ tpc' = "sleep" /\ side' = "nobody"
  BY DEF SideTick, TickBody, TickWakes, TickSaves, TickClears,
     CallbackReturns, ReleaseLeak, NoLeakLeft, TickRestores, TickReleases, tick
<1>5. SideOf'
  BY <1>3, <1>4 DEF SideInv, SideOf, Window
<1>6. Snapped' /\ Waiting' /\ Standing'
  BY <1>3 DEF SideInv, Snapped, Waiting, Standing, Balanced
<1> QED BY <1>2, <1>5, <1>6 DEF SideInv

LEMMA MaskStepKeeps == ASSUME SideInv, MaskStep PROVE SideInv'
<1>1. /\ IInv /\ SideOf /\ Snapped /\ Waiting /\ Standing
      /\ UNCHANGED <<side, hpc, snap, guard, irq>>
  BY DEF SideInv, MaskStep, Beside
<1>2. IInv'
  BY <1>1, StepMask DEF MaskStep, Next
<1>3. CASE YmfInit \/ YmfShutdown
  BY <1>1, <1>2, <1>3 DEF YmfInit, YmfShutdown, SideInv, SideOf, Snapped,
     Waiting, Standing, Balanced, game, tick
<1>4. ASSUME NEW p \in Procs, Playing(p),
             Acquire(p) \/ Lock(p) \/ Enter(p) \/ Unlock(p) \/ Unmask(p)
      PROVE  SideInv'
  <2>1. tpc' = "sleep" <=> tpc = "sleep"
    BY <1>1, <1>4, TickAsleep
  <2>2. SideOf' /\ Snapped'
    BY <1>1, <2>1 DEF SideOf, Snapped
  <2>3. hpc \notin {"none", "draw"} =>
            pc'[Drawer] = pc[Drawer] /\ lvl'[Drawer] = lvl[Drawer]
    <3>1. Drawer \in Procs
      BY HoldAssumption DEF Procs
    <3> QED BY <1>1, <1>4, <3>1, OthersMask DEF Playing
  <2>4. Waiting' /\ Standing'
    BY <1>1, <2>3 DEF Waiting, Standing, Balanced
  <2> QED BY <1>2, <2>2, <2>4 DEF SideInv
<1> QED BY <1>1, <1>3, <1>4 DEF MaskStep

\* What the drawer's steps leave of the audio's own invariant.
LEMMA UnwindKeeps == ASSUME SideInv, UnwindsMask PROVE IInv'
<1>1. IInv /\ tpc = "sleep"
  BY DEF SideInv, SideOf, UnwindsMask, Window
<1>2. UNCHANGED <<cb, met, depth, tpc, saved, before, pc, lvl, acq, waited>>
  BY DEF UnwindsMask, tick, game, wait
<1>3. CASE Release("game")
  <2>1. TypeOK'
    BY <1>1, <1>2, <1>3, ReleaseType DEF IInv, TypeOK
  <2>2. OwnerCounts' /\ (owner' = owner \/ owner' = "free")
    BY <1>1, <1>3 DEF IInv, TypeOK, OwnerCounts, Release, mask
  <2>3. TickPlace' /\ TickNest' /\ Room'
    BY <1>1, <1>2, <2>2 DEF IInv, TickPlace, TickNest, Room
  <2> QED BY <2>1, <2>2, <2>3 DEF IInv
<1>4. CASE UNCHANGED mask
  BY <1>1, <1>2, <1>4, StutterMask DEF vars, tick, game, wait
<1> QED BY <1>3, <1>4 DEF UnwindsMask

LEMMA RestoreKeeps == ASSUME SideInv, Restores PROVE IInv'
<1>1. /\ IInv /\ tpc = "sleep" /\ pc[Drawer] = "out"
      /\ snap.depth \in 0 .. (DepthMod - 1) /\ snap.lvl = 0
  BY DEF SideInv, SideOf, Snapped, Standing, Restores, Window
<1>2. /\ UNCHANGED <<owner, nest, free, cb, met, tpc, saved, before, pc, acq, waited>>
      /\ depth' = snap.depth /\ lvl' = [lvl EXCEPT ![Drawer] = 0]
  BY <1>1 DEF Restores, mask, tick, wait
<1>3. Drawer \in Procs /\ 0 \in 0 .. MaxDepth /\ 0 < MaxDepth
  BY HoldAssumption, MaskAssumption DEF Procs
<1>4. lvl' \in [Procs -> 0 .. MaxDepth]
  BY <1>1, <1>2, <1>3 DEF IInv, TypeOK
<1>5. \A p \in Procs : p # Drawer => lvl'[p] = lvl[p]
  BY <1>1, <1>2 DEF IInv, TypeOK
<1>6. TypeOK'
  BY <1>1, <1>2, <1>4 DEF IInv, TypeOK
<1>7. OwnerCounts' /\ TickPlace' /\ TickNest'
  BY <1>1, <1>2 DEF IInv, OwnerCounts, TickPlace, TickNest, nestOf
<1>8. Room'
  BY <1>1, <1>2, <1>5 DEF IInv, Room
<1> QED BY <1>6, <1>7, <1>8 DEF IInv

\* The steps of the drawer that leave the audio alone.
Aside ==
    Cli \/ Sti \/ WantsHold \/ TakesHold \/ Completes \/ Abandons \/ UnwindsIrq

LEMMA HoldStepKeeps == ASSUME SideInv, Cli \/ Sti \/ HoldStep PROVE SideInv'
<1>1. IInv /\ SideOf /\ Snapped /\ Waiting /\ Standing
  BY DEF SideInv
<1>2. CASE Aside
  <2>1. UNCHANGED vars
    BY <1>2 DEF Aside, Cli, Sti, WantsHold, TakesHold, Completes, Abandons,
       UnwindsIrq
  <2>2. UNCHANGED <<owner, nest, free, tpc, pc, lvl, depth>>
    BY <2>1 DEF vars, mask, tick, game
  <2>3. IInv'
    BY <1>1, <2>1, StutterMask
  <2>4. SideOf'
    BY <1>1, <1>2, <2>2 DEF SideOf, Window, Aside, Cli, Sti, WantsHold,
       TakesHold, Completes, Abandons, UnwindsIrq
  <2>5. Snapped'
    <3>1. depth \in 0 .. (DepthMod - 1)
      BY <1>1 DEF IInv, TypeOK
    <3> QED BY <1>1, <1>2, <3>1 DEF Snapped, Waiting, Balanced, Aside, Cli, Sti,
               WantsHold, TakesHold, Completes, Abandons, UnwindsIrq
  <2>6. Waiting'
    BY <1>1, <1>2, <2>2 DEF Waiting, Balanced, Playing, Aside, Cli, Sti,
       WantsHold, TakesHold, Completes, Abandons, UnwindsIrq
  <2>7. Standing'
    BY <1>1, <1>2, <2>2 DEF Standing, Balanced, Aside, Cli, Sti, WantsHold,
       TakesHold, Completes, Abandons, UnwindsIrq
  <2> QED BY <2>3, <2>4, <2>5, <2>6, <2>7 DEF SideInv
<1>3. CASE UnwindsMask
  <2>1. hpc' \in {"abandoned", "unmasking"} /\ hpc = "abandoned"
        /\ UNCHANGED <<tpc, pc, lvl, side, snap, irq>>
    BY <1>3 DEF UnwindsMask, tick, game
  <2>2. IInv'
    BY <1>3, UnwindKeeps
  <2> QED BY <1>1, <2>1, <2>2 DEF SideInv, SideOf, Snapped, Waiting, Standing,
             Window
<1>4. CASE Restores
  <2>1. /\ hpc = "done" /\ hpc' = "none" /\ side' = "nobody"
        /\ UNCHANGED <<tpc, snap>>
    BY <1>4 DEF Restores, tick
  <2>2. IInv'
    BY <1>4, RestoreKeeps
  <2> QED BY <1>1, <2>1, <2>2 DEF SideInv, SideOf, Snapped, Waiting, Standing,
             Window
<1> QED BY <1>2, <1>3, <1>4 DEF HoldStep, Aside

LEMMA HoldStutters ==
    ASSUME SideInv, UNCHANGED holdVars PROVE SideInv'
<1>1. UNCHANGED vars /\ UNCHANGED hold
  BY DEF holdVars
<1>2. IInv'
  BY <1>1, StutterMask DEF SideInv
<1> QED BY <1>1, <1>2 DEF SideInv, SideOf, Snapped, Waiting, Standing, Balanced,
           vars, hold, mask, tick, game

LEMMA SideStep == ASSUME SideInv, [HoldNext]_holdVars PROVE SideInv'
BY SideTickKeeps, MaskStepKeeps, HoldStepKeeps, HoldStutters DEF HoldNext

\* For every number of the game's threads, and with steals and callbacks that
\* lock: while the in-between draw saves, draws and restores, the tick sleeps
\* and does not have the mask (game_hold_side_threads in sample_interp).
THEOREM WindowHolds == HoldSpec => []WindowKeepsTickOut
<1>1. HoldInit => SideInv
  BY SideInit
<1>2. SideInv /\ [HoldNext]_holdVars => SideInv'
  BY SideStep
<1>3. SideInv => WindowKeepsTickOut
  BY DEF SideInv, SideOf, IInv, TickNest, WindowKeepsTickOut, Window
<1> QED BY <1>1, <1>2, <1>3, PTL DEF HoldSpec

-----------------------------------------------------------------------------
(* How the draw is undone.  While no other thread of the game is in the    *)
(* lock, the drawer's holds of the mask can be told from the depth and its *)
(* own nesting, whatever the depth was at the start: a steal before the    *)
(* window may have left any value in it.                                   *)

Quiet ==
    ~clash /\ hpc \in Window =>
        \A g \in GameThreads \ {Drawer} : lvl[g] = 0 /\ pc[g] = "out"

\* The drawer has gone from depth zero to one and not back.
Crossed ==
    \/ pc[Drawer] = "unmask"
    \/ pc[Drawer] = "enter" /\ depth = 0
    \/ depth \in 1 .. lvl[Drawer]

Drawing ==
    ~clash /\ hpc = "draw" =>
        /\ nestOf("game") = guard.mask + (IF Crossed THEN 1 ELSE 0)
        /\ pc[Drawer] \in {"masking", "unmask"} => depth = 0
        /\ acq[Drawer] \in {"none", "try"}
Undoing ==
    /\ ~clash /\ hpc = "abandoned" => nestOf("game") >= guard.mask
    /\ ~clash /\ hpc \in {"unmasking", "done"} => nestOf("game") = guard.mask
Counts ==
    /\ irq \in Nat /\ guard.mask \in Nat
    /\ hpc \in Window => guard.irq = 0
    /\ hpc = "done" => irq = 0
UnwindInv == SideInv /\ Quiet /\ Drawing /\ Undoing /\ Counts

LEMMA UnwindInit == ASSUME HoldInit PROVE UnwindInv
<1>1. SideInv
  BY SideInit
<1>2. hpc = "none" /\ irq = 0 /\ guard.mask = 0
  BY DEF HoldInit
<1> QED BY <1>1, <1>2 DEF UnwindInv, Quiet, Drawing, Undoing, Counts, Window

\* In the window the drawer alone steps in the lock, and with the mask never the
\* tick's it is granted at once: no steal comes to it.
LEMMA DrawerAlone ==
    ASSUME SideInv, Quiet, ~clash, hpc \in Window, SideTick \/ MaskStep, ~clash'
    PROVE  \/ UNCHANGED <<owner, nest, met, depth, tpc, saved, before, pc, lvl, acq>>
           \/ /\ hpc = "draw"
              /\ Acquire(Drawer) \/ Lock(Drawer) \/ Enter(Drawer)
                    \/ Unlock(Drawer) \/ Unmask(Drawer)
<1>1. tpc = "sleep" /\ side = "drawer" /\ IInv
  BY DEF SideInv, SideOf, Window
<1>2. ~SideTick
  BY <1>1 DEF SideTick, TickBody, TickSaves, TickClears, CallbackReturns,
     ReleaseLeak, NoLeakLeft, TickRestores, TickReleases
<1>3. MaskStep
  BY <1>2
<1>4. CASE YmfInit \/ YmfShutdown
  BY <1>4 DEF YmfInit, YmfShutdown, mask, tick, game, wait
<1>5. ASSUME NEW p \in Procs, Playing(p),
             Acquire(p) \/ Lock(p) \/ Enter(p) \/ Unlock(p) \/ Unmask(p)
      PROVE  p = Drawer
  <2>1. p # Tick
    BY <1>1, <1>5, TickAsleep
  <2>2. ASSUME p # Drawer PROVE FALSE
    <3>1. p \in GameThreads \ {Drawer} /\ lvl[p] = 0 /\ pc[p] = "out"
      BY <2>1, <2>2 DEF Procs, Quiet
    <3>2. acq[p] = "none"
      BY <1>1, <2>1, <3>1 DEF IInv, Room
    <3>3. Lock(p)
      BY <1>5, <3>1, <3>2 DEF Acquire, Claim, Refused, SawFree, PollExpired,
         Steal, Enter, Unlock, Unmask
    <3>4. pc'[p] # "out"
      BY <1>1, <3>3 DEF IInv, TypeOK, Lock
    <3>5. hpc' = hpc
      BY <1>3 DEF MaskStep, Beside
    <3> QED BY <1>3, <3>1, <3>4, <3>5 DEF MaskStep, Beside, Clashes, Busy
  <2> QED BY <2>2
<1>6. ASSUME NEW p \in Procs, Playing(p),
             Acquire(p) \/ Lock(p) \/ Enter(p) \/ Unlock(p) \/ Unmask(p)
      PROVE  /\ hpc = "draw"
             /\ Acquire(Drawer) \/ Lock(Drawer) \/ Enter(Drawer)
                   \/ Unlock(Drawer) \/ Unmask(Drawer)
  BY <1>5, <1>6 DEF Playing, Window
<1> QED BY <1>3, <1>4, <1>6 DEF MaskStep

\* Adding one to a depth below the dword's end, and taking one from a depth.
LEMMA DepthWraps ==
    ASSUME NEW d \in 0 .. (DepthMod - 1)
    PROVE  /\ d < DepthMod - 1 => (d + 1) % DepthMod = d + 1
           /\ d = DepthMod - 1 => (d + 1) % DepthMod = 0
           /\ d > 0 => (d - 1) % DepthMod = d - 1
           /\ d = 0 => (d - 1) % DepthMod = DepthMod - 1
<1>1. DepthMod \in Nat /\ DepthMod > 0 /\ d \in Nat /\ d <= DepthMod - 1
  BY MaskAssumption
<1>2. ASSUME d < DepthMod - 1 PROVE (d + 1) % DepthMod = d + 1
  BY <1>1, <1>2
<1>3. ASSUME d = DepthMod - 1 PROVE (d + 1) % DepthMod = 0
  BY <1>1, <1>3
<1>4. ASSUME d > 0 PROVE (d - 1) % DepthMod = d - 1
  BY <1>1, <1>4
<1>5. ASSUME d = 0 PROVE (d - 1) % DepthMod = DepthMod - 1
  BY <1>1, <1>5
<1> QED BY <1>2, <1>3, <1>4, <1>5

\* A thread's first lock from depth zero is its crossing, and so is its unlock
\* from depth one.
LEMMA Crosses ==
    ASSUME NEW d \in 0 .. (DepthMod - 1), NEW n \in 0 .. MaxDepth
    PROVE  /\ n < MaxDepth =>
                ((d + 1) % DepthMod \in 1 .. (n + 1) <=> d = 0 \/ d \in 1 .. n)
           /\ n > 0 =>
                (d \in 1 .. n <=> d = 1 \/ (d - 1) % DepthMod \in 1 .. (n - 1))
           /\ d = 1 => (d - 1) % DepthMod = 0
<1>1. /\ DepthMod \in Nat /\ MaxDepth \in Nat /\ DepthMod > MaxDepth
      /\ d \in Nat /\ d <= DepthMod - 1 /\ n \in Nat /\ n <= MaxDepth
  BY MaskAssumption
<1>2. ASSUME n < MaxDepth
      PROVE  (d + 1) % DepthMod \in 1 .. (n + 1) <=> d = 0 \/ d \in 1 .. n
  <2>1. CASE d = DepthMod - 1
    <3>1. (d + 1) % DepthMod = 0
      BY <2>1, DepthWraps
    <3> QED BY <1>1, <1>2, <2>1, <3>1
  <2>2. CASE d < DepthMod - 1
    <3>1. (d + 1) % DepthMod = d + 1
      BY <2>2, DepthWraps
    <3> QED BY <1>1, <1>2, <3>1
  <2> QED BY <1>1, <2>1, <2>2
<1>3. ASSUME n > 0
      PROVE  d \in 1 .. n <=> d = 1 \/ (d - 1) % DepthMod \in 1 .. (n - 1)
  <2>1. CASE d = 0
    <3>1. (d - 1) % DepthMod = DepthMod - 1
      BY <2>1, DepthWraps
    <3> QED BY <1>1, <1>3, <2>1, <3>1
  <2>2. CASE d > 0
    <3>1. (d - 1) % DepthMod = d - 1
      BY <2>2, DepthWraps
    <3> QED BY <1>1, <1>3, <2>2, <3>1
  <2> QED BY <1>1, <2>1, <2>2
<1>4. d = 1 => (d - 1) % DepthMod = 0
  BY <1>1, DepthWraps
<1> QED BY <1>2, <1>3, <1>4
\* What the drawer's own lock and unlock leave of its holds.
LEMMA DrawerHolds ==
    ASSUME SideInv, Drawing, Counts, ~clash, hpc = "draw", UNCHANGED guard,
           Acquire(Drawer) \/ Lock(Drawer) \/ Enter(Drawer)
              \/ Unlock(Drawer) \/ Unmask(Drawer)
    PROVE  /\ nestOf("game")' = guard.mask + (IF Crossed' THEN 1 ELSE 0)
           /\ pc'[Drawer] \in {"masking", "unmask"} => depth' = 0
           /\ acq'[Drawer] \in {"none", "try"}
<1>1. /\ IInv /\ tpc = "sleep" /\ owner # "tick" /\ guard.mask \in Nat
      /\ Drawer \in Procs /\ Drawer # Tick
  BY MaskAssumption, HoldAssumption
     DEF SideInv, SideOf, IInv, TickNest, Counts, Window, Procs
<1>2. /\ nestOf("game") = guard.mask + (IF Crossed THEN 1 ELSE 0)
      /\ pc[Drawer] \in {"masking", "unmask"} => depth = 0
      /\ acq[Drawer] \in {"none", "try"}
  BY DEF Drawing
<1>3. /\ depth \in 0 .. (DepthMod - 1) /\ lvl[Drawer] \in 0 .. MaxDepth
      /\ owner \in {"free", "game"} /\ nest \in Nat
      /\ owner = "free" <=> nest = 0
      /\ acq[Drawer] # "none" => pc[Drawer] = "masking"
      /\ pc[Drawer] \in {"masking", "enter"} => lvl[Drawer] < MaxDepth
  <2>1. depth \in 0 .. (DepthMod - 1) /\ lvl[Drawer] \in 0 .. MaxDepth
    BY <1>1 DEF IInv, TypeOK
  <2>2. owner \in {"free", "game"} /\ nest \in Nat /\ (owner = "free" <=> nest = 0)
    BY <1>1 DEF IInv, TypeOK, OwnerCounts
  <2>3. /\ acq[Drawer] # "none" => pc[Drawer] = "masking"
        /\ pc[Drawer] \in {"masking", "enter"} => lvl[Drawer] < MaxDepth
    BY <1>1 DEF IInv, Room
  <2> QED BY <2>1, <2>2, <2>3
<1>4. nestOf("game") = nest
  BY <1>3 DEF nestOf
<1>5. CASE Acquire(Drawer)
  <2>1. acq[Drawer] = "try" /\ Claim(Drawer)
    <3>1. ~Refused(Drawer)
      BY <1>1, <1>3 DEF Refused, role
    <3>2. ~SawFree(Drawer) /\ ~PollExpired(Drawer) /\ ~Steal(Drawer)
      BY <1>2 DEF SawFree, PollExpired, Steal
    <3> QED BY <1>5, <3>1, <3>2 DEF Acquire, Claim
  <2>2. pc[Drawer] = "masking" /\ depth = 0
    BY <1>2, <1>3, <2>1
  <2>3. ~Crossed
    BY <2>2 DEF Crossed
  <2>4. owner' = "game" /\ nest' = nest + 1 /\ depth' = depth
    BY <1>1, <2>1 DEF Claim, role
  <2>5. acq'[Drawer] = "none" /\ pc'[Drawer] = "enter"
    BY <1>1, <2>1 DEF Claim, Granted, IInv, TypeOK
  <2>6. Crossed'
    BY <2>2, <2>4, <2>5 DEF Crossed
  <2>7. nestOf("game")' = nest + 1
    BY <2>4 DEF nestOf
  <2>8. nestOf("game")' = guard.mask + (IF Crossed' THEN 1 ELSE 0)
    BY <1>1, <1>2, <1>4, <2>3, <2>6, <2>7
  <2> QED BY <2>2, <2>4, <2>5, <2>8
<1>6. CASE Lock(Drawer)
  <2>1. /\ pc[Drawer] = "out" /\ acq[Drawer] = "none"
        /\ UNCHANGED <<owner, nest, depth, lvl>>
    BY <1>3, <1>6 DEF Lock, mask
  <2>2. pc'[Drawer] = IF depth = 0 THEN "masking" ELSE "enter"
    BY <1>1, <1>6 DEF Lock, IInv, TypeOK
  <2>3. acq'[Drawer] \in {"none", "try"}
    BY <1>1, <1>6, <2>1 DEF Lock, StartAcquire, IInv, TypeOK, wait
  <2>4. Crossed' <=> Crossed
    BY <2>1, <2>2 DEF Crossed
  <2>5. nestOf("game")' = nestOf("game")
    BY <2>1 DEF nestOf
  <2> QED BY <1>2, <2>1, <2>2, <2>3, <2>4, <2>5
<1>7. CASE Enter(Drawer)
  <2>1. /\ pc[Drawer] = "enter" /\ depth' = (depth + 1) % DepthMod
        /\ UNCHANGED <<owner, nest, acq>>
    BY <1>7 DEF Enter, mask, wait
  <2>2. pc'[Drawer] = "out" /\ lvl'[Drawer] = lvl[Drawer] + 1
    BY <1>1, <1>7 DEF Enter, IInv, TypeOK
  <2>3. Crossed' <=> (depth + 1) % DepthMod \in 1 .. (lvl[Drawer] + 1)
    BY <2>1, <2>2 DEF Crossed
  <2>4. Crossed <=> depth = 0 \/ depth \in 1 .. lvl[Drawer]
    BY <2>1 DEF Crossed
  <2>5. Crossed' <=> Crossed
    BY <1>3, <2>1, <2>3, <2>4, Crosses
  <2>6. nestOf("game")' = nestOf("game")
    BY <2>1 DEF nestOf
  <2> QED BY <1>2, <2>1, <2>2, <2>5, <2>6
<1>8. CASE Unlock(Drawer)
  <2>1. /\ pc[Drawer] = "out" /\ lvl[Drawer] > 0
        /\ depth' = (depth - 1) % DepthMod
        /\ UNCHANGED <<owner, nest, acq>>
    BY <1>8 DEF Unlock, mask, wait
  <2>2. /\ pc'[Drawer] = IF depth = 1 THEN "unmask" ELSE "out"
        /\ lvl'[Drawer] = lvl[Drawer] - 1
    BY <1>1, <1>8 DEF Unlock, IInv, TypeOK
  <2>3. Crossed' <=> depth = 1 \/ (depth - 1) % DepthMod \in 1 .. (lvl[Drawer] - 1)
    BY <2>1, <2>2 DEF Crossed
  <2>4. Crossed <=> depth \in 1 .. lvl[Drawer]
    BY <2>1 DEF Crossed
  <2>5. (Crossed' <=> Crossed) /\ (depth = 1 => depth' = 0)
    BY <1>3, <2>1, <2>3, <2>4, Crosses
  <2>6. nestOf("game")' = nestOf("game")
    BY <2>1 DEF nestOf
  <2> QED BY <1>2, <2>1, <2>2, <2>5, <2>6
<1>9. CASE Unmask(Drawer)
  <2>1. pc[Drawer] = "unmask" /\ Release("game") /\ UNCHANGED <<depth, lvl, acq>>
    BY <1>1, <1>9 DEF Unmask, role, wait
  <2>2. Crossed /\ depth = 0
    BY <1>2, <2>1 DEF Crossed
  <2>3. nest = guard.mask + 1 /\ nest # 0 /\ owner = "game"
    BY <1>1, <1>2, <1>3, <1>4, <2>2
  <2>4. nest' = nest - 1 /\ (nest # 1 => owner' = owner)
    BY <2>1, <2>3 DEF Release
  <2>5. nestOf("game")' = guard.mask
    <3>1. CASE nest = 1
      BY <1>1, <2>3, <2>4, <3>1 DEF nestOf
    <3>2. CASE nest # 1
      BY <1>1, <2>3, <2>4, <3>2 DEF nestOf
    <3> QED BY <3>1, <3>2
  <2>6. pc'[Drawer] = "out"
    BY <1>1, <1>9 DEF Unmask, IInv, TypeOK
  <2>7. ~Crossed'
    BY <2>1, <2>2, <2>6 DEF Crossed
  <2> QED BY <1>1, <1>2, <2>1, <2>5, <2>6, <2>7
<1> QED BY <1>5, <1>6, <1>7, <1>8, <1>9

\* Another thread of the game in the lock makes it a clash.
LEMMA QuietStep ==
    ASSUME UnwindInv, [HoldNext]_holdVars PROVE Quiet' /\ (~clash' => ~clash)
<1>1. SideInv /\ SideInv'
  BY SideStep DEF UnwindInv
<1>2. CASE UNCHANGED holdVars
  BY <1>2 DEF UnwindInv, Quiet, holdVars, vars, hold, game
<1>3. CASE MaskStep \/ TakesHold
  <2>1. Clashes
    BY <1>3 DEF MaskStep, Beside, TakesHold
  <2>2. ASSUME ~clash', hpc' \in Window, NEW g \in GameThreads \ {Drawer}
        PROVE  lvl'[g] = 0 /\ pc'[g] = "out"
    <3>1. ~Busy(g)'
      BY <2>1, <2>2 DEF Clashes
    <3>2. lvl'[g] \in Nat
      BY <1>1 DEF SideInv, IInv, TypeOK, Procs
    <3> QED BY <3>1, <3>2 DEF Busy
  <2>3. Quiet'
    BY <2>2 DEF Quiet
  <2> QED BY <2>1, <2>3 DEF Clashes
<1>4. CASE SideTick
  <2>1. UNCHANGED <<pc, lvl, hpc, clash>>
    BY <1>4 DEF SideTick, TickBody, TickWakes, TickSaves, TickClears,
       CallbackReturns, ReleaseLeak, NoLeakLeft, TickRestores, TickReleases,
       game
  <2> QED BY <2>1 DEF UnwindInv, Quiet
<1>5. CASE Cli \/ Sti \/ WantsHold \/ Completes \/ Abandons \/ UnwindsIrq
           \/ UnwindsMask
  <2>1. UNCHANGED <<pc, lvl, clash>> /\ (hpc' \in Window => hpc \in Window)
    BY <1>5 DEF Cli, Sti, WantsHold, Completes, Abandons, UnwindsIrq,
       UnwindsMask, vars, game, Window
  <2> QED BY <2>1 DEF UnwindInv, Quiet
<1>6. CASE Restores
  <2>1. hpc' = "none" /\ clash' = clash
    BY <1>6 DEF Restores
  <2> QED BY <2>1 DEF Quiet, Window
<1> QED BY <1>2, <1>3, <1>4, <1>5, <1>6 DEF HoldNext, HoldStep

\* What a step of the tick or of the lock leaves of the draw's undoing.
LEMMA MaskUnwinds ==
    ASSUME UnwindInv, SideTick \/ MaskStep, ~clash', ~clash
    PROVE  Drawing' /\ Undoing'
<1>1. UNCHANGED <<hpc, snap, guard, irq>>
  BY DEF SideTick, MaskStep, Beside
<1>2. CASE hpc \notin Window
  BY <1>1, <1>2 DEF Drawing, Undoing, Window
<1>3. CASE hpc \in Window
  <2>1. CASE UNCHANGED <<owner, nest, met, depth, tpc, saved, before, pc, lvl, acq>>
    BY <1>1, <2>1 DEF UnwindInv, Drawing, Undoing, nestOf, Crossed
  <2>2. CASE /\ hpc = "draw"
             /\ Acquire(Drawer) \/ Lock(Drawer) \/ Enter(Drawer)
                   \/ Unlock(Drawer) \/ Unmask(Drawer)
    BY <1>1, <2>2, DrawerHolds DEF UnwindInv, Drawing, Undoing
  <2> QED BY <1>3, <2>1, <2>2, DrawerAlone DEF UnwindInv
<1> QED BY <1>2, <1>3

LEMMA AsideUnwinds ==
    ASSUME UnwindInv, Aside, ~clash', ~clash PROVE Drawing' /\ Undoing'
<1>1. UNCHANGED <<owner, nest, depth, tpc, saved, before, pc, lvl, acq>>
  BY DEF Aside, Cli, Sti, WantsHold, TakesHold, Completes, Abandons,
     UnwindsIrq, vars, mask, tick, game, wait
<1>2. nestOf("game")' = nestOf("game") /\ (Crossed' <=> Crossed)
  BY <1>1 DEF nestOf, Crossed
<1>3. SideInv /\ Drawing /\ Undoing /\ Counts
  BY DEF UnwindInv
<1>4. CASE Cli \/ Sti \/ WantsHold
  BY <1>1, <1>2, <1>3, <1>4 DEF Cli, Sti, WantsHold, Drawing, Undoing
<1>5. CASE TakesHold
  <2>1. pc[Drawer] = "out" /\ lvl[Drawer] = 0
    BY <1>3, <1>5 DEF TakesHold, SideInv, Waiting, Balanced
  <2>2. acq[Drawer] = "none" /\ nestOf("game") \in Nat
    <3>1. Drawer \in Procs /\ Drawer # Tick
      BY HoldAssumption, MaskAssumption DEF Procs
    <3> QED BY <1>3, <2>1, <3>1 DEF SideInv, IInv, Room, TypeOK, nestOf
  <2>3. ~Crossed
    BY <2>1 DEF Crossed
  <2>4. guard'.mask = nestOf("game") /\ hpc' = "draw"
    BY <1>5 DEF TakesHold
  <2> QED BY <1>1, <1>2, <2>1, <2>2, <2>3, <2>4 DEF Drawing, Undoing
<1>6. CASE Completes
  <2>1. pc[Drawer] = "out" /\ lvl[Drawer] = 0 /\ hpc = "draw"
    BY <1>6 DEF Completes, Balanced
  <2>2. ~Crossed
    BY <2>1 DEF Crossed
  <2>3. nestOf("game") = guard.mask
    BY <1>3, <2>1, <2>2 DEF Drawing, Counts
  <2> QED BY <1>2, <1>6, <2>3 DEF Completes, Drawing, Undoing
<1>7. CASE Abandons
  <2>1. nestOf("game") >= guard.mask /\ hpc' = "abandoned" /\ UNCHANGED guard
    BY <1>3, <1>7 DEF Abandons, Drawing, Counts
  <2> QED BY <1>2, <2>1 DEF Drawing, Undoing
<1>8. CASE UnwindsIrq
  BY <1>2, <1>3, <1>8 DEF UnwindsIrq, Drawing, Undoing
<1> QED BY <1>4, <1>5, <1>6, <1>7, <1>8 DEF Aside

LEMMA ReleasesUnwind ==
    ASSUME UnwindInv, UnwindsMask \/ Restores, ~clash', ~clash
    PROVE  Drawing' /\ Undoing'
<1>1. CASE Restores
  BY <1>1 DEF Restores, Drawing, Undoing
<1>2. CASE UnwindsMask
  <2>1. /\ hpc = "abandoned" /\ UNCHANGED guard /\ guard.mask \in Nat
        /\ nestOf("game") >= guard.mask /\ nest \in Nat
    BY <1>2 DEF UnwindsMask, UnwindInv, Undoing, Counts, SideInv, IInv, TypeOK
  <2>2. CASE nestOf("game") > guard.mask
    <3>1. Release("game") /\ hpc' = hpc
      BY <1>2, <2>2 DEF UnwindsMask
    <3>2. owner = "game" /\ nest > guard.mask /\ nest # 0
      BY <2>1, <2>2 DEF nestOf
    <3>3. nest' = nest - 1 /\ (nest = 1 => owner' = "free")
          /\ (nest # 1 => owner' = owner)
      BY <3>1, <3>2 DEF Release
    <3>4. nestOf("game")' >= guard.mask
      <4>1. CASE nest = 1
        BY <2>1, <3>2, <3>3, <4>1 DEF nestOf
      <4>2. CASE nest # 1
        BY <2>1, <3>2, <3>3, <4>2 DEF nestOf
      <4> QED BY <4>1, <4>2
    <3> QED BY <2>1, <3>1, <3>4 DEF Drawing, Undoing
  <2>3. CASE ~(nestOf("game") > guard.mask)
    <3>1. hpc' = "unmasking" /\ UNCHANGED mask
      BY <1>2, <2>3 DEF UnwindsMask
    <3>2. nestOf("game")' = nestOf("game")
      BY <3>1 DEF nestOf, mask
    <3>3. nestOf("game") = guard.mask
      BY <2>1, <2>3 DEF nestOf
    <3> QED BY <2>1, <3>1, <3>2, <3>3 DEF Drawing, Undoing
  <2> QED BY <2>2, <2>3
<1> QED BY <1>1, <1>2

\* The regions of the draw are counted from none.
LEMMA CountsStep ==
    ASSUME UnwindInv, [HoldNext]_holdVars PROVE Counts'
<1>1. Counts /\ SideInv
  BY DEF UnwindInv
<1>2. CASE UNCHANGED <<hpc, guard, irq>>
  BY <1>1, <1>2 DEF Counts
<1>3. CASE Cli \/ Sti
  BY <1>1, <1>3 DEF Counts, Cli, Sti, Playing
<1>4. CASE WantsHold \/ Abandons \/ UnwindsMask \/ Restores
  BY <1>1, <1>4 DEF Counts, WantsHold, Abandons, UnwindsMask, Restores, Window
<1>5. CASE TakesHold
  <2>1. irq = 0 /\ nestOf("game") \in Nat
    BY <1>1, <1>5 DEF TakesHold, SideInv, Waiting, Balanced, IInv, TypeOK, nestOf
  <2> QED BY <1>5, <2>1 DEF Counts, TakesHold
<1>6. CASE Completes
  BY <1>1, <1>6 DEF Counts, Completes, Balanced, Window
<1>7. CASE UnwindsIrq
  <2>1. irq' = 0 /\ UNCHANGED guard /\ guard.irq = 0
    BY <1>1, <1>7 DEF Counts, UnwindsIrq, Window
  <2> QED BY <1>1, <1>7, <2>1 DEF Counts
<1>8. SideTick \/ MaskStep \/ UNCHANGED holdVars => UNCHANGED <<hpc, guard, irq>>
  BY DEF SideTick, MaskStep, Beside, holdVars, hold
<1> QED BY <1>2, <1>3, <1>4, <1>5, <1>6, <1>7, <1>8 DEF HoldNext, HoldStep

LEMMA UnwindStep ==
    ASSUME UnwindInv, [HoldNext]_holdVars PROVE UnwindInv'
<1>1. SideInv' /\ Quiet' /\ Counts' /\ (~clash' => ~clash)
  BY SideStep, QuietStep, CountsStep DEF UnwindInv
<1>2. CASE clash'
  BY <1>1, <1>2 DEF UnwindInv, Drawing, Undoing
<1>3. CASE ~clash'
  <2>1. ~clash
    BY <1>1, <1>3
  <2>2. CASE UNCHANGED holdVars
    BY <1>1, <2>2 DEF UnwindInv, Drawing, Undoing, Crossed, nestOf, holdVars,
       vars, hold, mask, tick, game, wait
  <2>3. CASE HoldNext
    BY <1>1, <1>3, <2>1, <2>3, MaskUnwinds, AsideUnwinds, ReleasesUnwind
       DEF UnwindInv, HoldNext, HoldStep, Aside
  <2> QED BY <2>2, <2>3
<1> QED BY <1>2, <1>3

\* However the in-between draw ends, cut in the middle of the game's locks and
\* regions or not, the mask and the count of regions are then what they were
\* (audio_mask_unwind, game_irq_unwind): for any number of the game's threads,
\* with whatever steals and callbacks that lock there were, as long as no other
\* thread of the game is in the lock while the window is open.
THEOREM DrawUnwinds == HoldSpec => []Unwound
<1>1. HoldInit => UnwindInv
  BY UnwindInit
<1>2. UnwindInv /\ [HoldNext]_holdVars => UnwindInv'
  BY UnwindStep
<1>3. UnwindInv => Unwound
  BY DEF UnwindInv, Undoing, Counts, Unwound, Window
<1> QED BY <1>1, <1>2, <1>3, PTL DEF HoldSpec

-----------------------------------------------------------------------------
(* The depth of the lock across the window: the drawer has the turn in it, *)
(* and once the draw is cut the mask is given back but the depth stands    *)
(* until it is restored.                                                   *)

Late == {"abandoned", "unmasking", "done"}
Told ==
    ~met /\ ~clash =>
        IF hpc \in Window
        THEN /\ snap.depth = 0 /\ guard.mask = 0
             /\ Depth(Drawer)
             /\ hpc = "draw" => HInv(Drawer)
        ELSE \E g \in GameThreads : HInv(g)
ToldInv == UnwindInv /\ Told

LEMMA ToldInit == ASSUME HoldInit PROVE ToldInv
<1>1. UnwindInv /\ HInv(Drawer) /\ hpc = "none"
  BY UnwindInit, InitHeld, HoldAssumption DEF HoldInit
<1> QED BY <1>1, HoldAssumption DEF ToldInv, Told, Window

\* The invariant reads the audio's variables only.
LEMMA HeldStays ==
    ASSUME UNCHANGED vars, NEW g
    PROVE  (HInv(g) => HInv(g)') /\ (Depth(g) => Depth(g)')
<1>1. IInv => IInv'
  BY StutterMask
<1>2. UNCHANGED <<owner, nest, depth, tpc, saved, before, pc, lvl>>
  BY DEF vars, mask, tick, game
<1> QED BY <1>1, <1>2 DEF HInv, Turn, Holder, Depth, Inside

\* The drawer's steps in the lock keep its turn.
LEMMA DrawerTurn ==
    ASSUME HInv(Drawer), tpc = "sleep", ~met',
           Acquire(Drawer) \/ Lock(Drawer) \/ Enter(Drawer)
              \/ Unlock(Drawer) \/ Unmask(Drawer)
    PROVE  HInv(Drawer)'
<1>1. Drawer \in GameThreads /\ Drawer \in {Drawer, Tick}
  BY HoldAssumption
<1>2. ~Steal(Drawer)
  BY DEF Steal
<1>3. ~Busy(Tick)
  <2>1. pc[Tick] = "out" /\ lvl[Tick] = 0
    BY DEF HInv, IInv, TickPlace, Depth
  <2> QED BY <2>1 DEF Busy
<1> QED BY <1>1, <1>2, <1>3, ClaimHeld, RefusedHeld, SawFreeHeld, PollExpiredHeld,
           LockHeld, EnterHeld, UnlockHeld, UnmaskHeld DEF Acquire

LEMMA MaskTold ==
    ASSUME ToldInv, SideTick \/ MaskStep, ~met', ~clash', ~clash PROVE Told'
<1>1. UNCHANGED <<hpc, snap, guard, irq>>
  BY DEF SideTick, MaskStep, Beside
<1>2. Next
  BY DEF SideTick, TickBody, MaskStep, Next, TickStep
<1>3. ~met
  BY <1>2, MetStays
<1>4. CASE hpc \notin Window
  <2>1. PICK g \in GameThreads : HInv(g)
    BY <1>3, <1>4 DEF ToldInv, Told
  <2>2. \E h \in GameThreads : HInv(h)'
    BY <1>2, <2>1, StepHeld
  <2> QED BY <1>1, <1>4, <2>2 DEF Told
<1>5. CASE hpc \in Window
  <2>1. /\ snap.depth = 0 /\ guard.mask = 0 /\ Depth(Drawer)
        /\ hpc = "draw" => HInv(Drawer)
    BY <1>3, <1>5 DEF ToldInv, Told
  <2>2. tpc = "sleep" /\ SideInv /\ Quiet
    BY <1>5 DEF ToldInv, UnwindInv, SideInv, SideOf, Window
  <2>3. IInv'
    BY <1>2, <2>2, StepMask DEF SideInv
  <2>4. CASE UNCHANGED <<owner, nest, met, depth, tpc, saved, before, pc, lvl, acq>>
    <3>1. HInv(Drawer) => HInv(Drawer)'
      BY <2>3, <2>4 DEF HInv, Turn, Holder, Depth, Inside
    <3>2. Depth(Drawer)'
      BY <2>1, <2>4 DEF Depth
    <3> QED BY <1>1, <1>5, <2>1, <3>1, <3>2 DEF Told
  <2>5. CASE /\ hpc = "draw"
             /\ Acquire(Drawer) \/ Lock(Drawer) \/ Enter(Drawer)
                   \/ Unlock(Drawer) \/ Unmask(Drawer)
    <3>1. HInv(Drawer)'
      BY <2>1, <2>2, <2>5, DrawerTurn
    <3>2. Depth(Drawer)'
      BY <3>1 DEF HInv
    <3> QED BY <1>1, <1>5, <2>1, <3>1, <3>2 DEF Told
  <2> QED BY <1>5, <2>2, <2>4, <2>5, DrawerAlone
<1> QED BY <1>4, <1>5

LEMMA AsideTold ==
    ASSUME ToldInv, Quiet', Aside, ~met', ~clash', ~clash PROVE Told'
<1>1. UNCHANGED vars
  BY DEF Aside, Cli, Sti, WantsHold, TakesHold, Completes, Abandons, UnwindsIrq
<1>2. ~met /\ SideInv /\ Told
  BY <1>1 DEF ToldInv, UnwindInv, vars
<1>3. CASE Cli \/ Sti \/ WantsHold
  <2>1. /\ hpc \in Window <=> hpc' \in Window
        /\ hpc' = "draw" => hpc = "draw"
        /\ UNCHANGED <<snap, guard>>
    BY <1>3 DEF Cli, Sti, WantsHold, Window
  <2> QED BY <1>1, <1>2, <2>1, HeldStays DEF Told
<1>4. CASE TakesHold
  <2>1. Balanced /\ tpc = "sleep" /\ hpc \notin Window /\ hpc' = "draw"
    BY <1>2, <1>4 DEF TakesHold, SideInv, SideOf, Waiting, Window
  <2>2. PICK g \in GameThreads : HInv(g)
    BY <1>2, <2>1 DEF Told
  <2>3. ~Busy(g)
    <3>1. CASE g = Drawer
      BY <2>1, <3>1 DEF Balanced, Busy
    <3>2. CASE g # Drawer
      <4>1. lvl'[g] = 0 /\ pc'[g] = "out"
        BY <2>1, <3>2 DEF Quiet, Window
      <4> QED BY <1>1, <4>1 DEF Busy, vars, game
    <3> QED BY <3>1, <3>2
  <2>4. HInv(Drawer)
    BY <2>2, <2>3, TurnPasses, HoldAssumption
  <2>5. depth = 0 /\ nestOf("game") = 0
    BY <2>1, <2>4 DEF HInv, Holder, Depth, Inside, Balanced, nestOf
  <2>6. snap'.depth = 0 /\ guard'.mask = 0
    BY <1>4, <2>5 DEF TakesHold
  <2>7. HInv(Drawer)' /\ Depth(Drawer)'
    BY <1>1, <2>4, HeldStays DEF HInv
  <2> QED BY <2>1, <2>6, <2>7 DEF Told, Window
<1>5. CASE Completes \/ Abandons \/ UnwindsIrq
  <2>1. /\ hpc \in Window /\ hpc' \in Window /\ hpc' # "draw"
        /\ UNCHANGED <<snap, guard>>
    BY <1>5 DEF Completes, Abandons, UnwindsIrq, Window
  <2> QED BY <1>1, <1>2, <2>1, HeldStays DEF Told
<1> QED BY <1>3, <1>4, <1>5 DEF Aside

LEMMA ReleasesTold ==
    ASSUME ToldInv, IInv', UnwindsMask \/ Restores, ~met', ~clash', ~clash
    PROVE  Told'
<1>1. ~met /\ SideInv /\ Told /\ Quiet /\ Undoing
  BY DEF ToldInv, UnwindInv, UnwindsMask, Restores
<1>2. /\ snap.depth = 0 /\ guard.mask = 0 /\ Depth(Drawer)
      /\ hpc \in Window /\ tpc = "sleep" /\ IInv
      /\ \A g \in GameThreads \ {Drawer} : lvl[g] = 0 /\ pc[g] = "out"
  BY <1>1 DEF UnwindsMask, Restores, Window, Told, SideInv, SideOf, Quiet
<1>3. CASE UnwindsMask
  <2>1. hpc' \in Late /\ UNCHANGED <<depth, tpc, saved, pc, lvl, snap, guard>>
    BY <1>3 DEF UnwindsMask, Late, tick, game
  <2>2. Depth(Drawer)'
    BY <1>2, <2>1 DEF Depth
  <2> QED BY <1>2, <2>1, <2>2 DEF Told, Late, Window
<1>4. CASE Restores
  <2>1. /\ hpc' = "none" /\ depth' = 0
        /\ lvl' = [lvl EXCEPT ![Drawer] = 0]
        /\ UNCHANGED <<owner, nest, tpc, saved, before, pc>>
        /\ pc[Drawer] = "out"
    BY <1>1, <1>2, <1>4
       DEF Restores, mask, tick, SideInv, Snapped, Standing
  <2>2. owner = "free"
    <3>1. nestOf("game") = 0
      BY <1>1, <1>2, <1>4 DEF Restores, Undoing
    <3> QED BY <1>2, <3>1 DEF nestOf, IInv, TypeOK, OwnerCounts, TickNest
  <2>3. Drawer \in Procs /\ Tick \in Procs /\ Tick # Drawer
    BY HoldAssumption, MaskAssumption DEF Procs
  <2>4. /\ lvl'[Drawer] = 0 /\ lvl'[Tick] = 0
        /\ \A g \in GameThreads \ {Drawer} : lvl'[g] = 0
    <3>1. \A p \in Procs \ {Drawer} : lvl'[p] = lvl[p]
      BY <1>2, <2>1 DEF IInv, TypeOK
    <3>2. lvl'[Drawer] = 0
      BY <1>2, <2>1, <2>3 DEF IInv, TypeOK
    <3> QED BY <1>2, <2>3, <3>1, <3>2 DEF Depth, Procs
  <2>5. Turn(Drawer)' /\ Holder(Drawer)' /\ Depth(Drawer)'
    BY <1>2, <2>1, <2>2, <2>4 DEF Turn, Holder, Depth, Inside
  <2>6. HInv(Drawer)'
    BY <2>5 DEF HInv
  <2> QED BY <2>1, <2>6, HoldAssumption DEF Told, Window
<1> QED BY <1>3, <1>4

LEMMA ToldStep == ASSUME ToldInv, [HoldNext]_holdVars PROVE ToldInv'
<1>1. UnwindInv' /\ (~clash' => ~clash)
  BY UnwindStep, QuietStep DEF ToldInv
<1>2. Quiet' /\ IInv'
  BY <1>1 DEF UnwindInv, SideInv
<1>3. CASE met' \/ clash'
  BY <1>1, <1>3 DEF ToldInv, Told
<1>4. CASE ~met' /\ ~clash'
  <2>1. CASE UNCHANGED holdVars
    <3>1. UNCHANGED vars /\ UNCHANGED <<hpc, snap, guard, met, clash>>
      BY <2>1 DEF holdVars, vars, hold
    <3> QED BY <1>1, <3>1, HeldStays DEF ToldInv, Told
  <2>2. CASE HoldNext
    <3>1. Told'
      BY <1>1, <1>2, <1>4, <2>2, MaskTold, AsideTold, ReleasesTold
         DEF HoldNext, HoldStep, Aside
    <3> QED BY <1>1, <3>1 DEF ToldInv
  <2> QED BY <2>1, <2>2
<1> QED BY <1>3, <1>4

\* The lock's depth tells and the mask excludes the tick with the draw's snapshot,
\* its cut and its restore in between, under the conditions of MaskExclusion and
\* as long as no other thread of the game is in the lock with the window open.
THEOREM DrawTellsDepth == HoldSpec => []DrawTells
<1>1. HoldInit => ToldInv
  BY ToldInit
<1>2. ToldInv /\ [HoldNext]_holdVars => ToldInv'
  BY ToldStep
<1>3. ToldInv => DrawTells
  <2> SUFFICES ASSUME ToldInv, ~clash, ~met PROVE MaskExcludes /\ DepthTells
    BY DEF DrawTells, LockTells
  <2>1. CASE hpc \notin Window
    BY <2>1, HeldTells DEF ToldInv, Told
  <2>2. CASE hpc \in Window
    <3>1. /\ tpc = "sleep" /\ Depth(Drawer) /\ lvl[Drawer] \in Nat
          /\ \A g \in GameThreads \ {Drawer} : lvl[g] = 0
      BY <2>2, HoldAssumption DEF ToldInv, UnwindInv, Told, Quiet, SideInv,
         SideOf, IInv, TypeOK, Procs
    <3>2. MaskExcludes
      BY <3>1 DEF MaskExcludes, InCallback
    <3>3. depth = lvl[Drawer]
      BY <3>1 DEF Depth
    <3>4. DepthTells
      BY <3>1, <3>3, HoldAssumption DEF DepthTells
    <3> QED BY <3>2, <3>4
  <2> QED BY <2>1, <2>2
<1> QED BY <1>1, <1>2, <1>3, PTL DEF HoldSpec
=============================================================================
