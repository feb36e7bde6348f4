--------------------------- MODULE IoSeam_proofs ----------------------------
(***************************************************************************)
(* Proofs about IoSeam for every set of threads, every frame thread, every *)
(* burst size, and whichever threads call shim_exit, the poll thread too.  *)
(***************************************************************************)
EXTENDS IoSeam, TLAPS

\* s_poll_idle is set only while the poll thread is out of its pass.
IdleTells ==
    idle => pc[Poll] \notin {"recheck", "recheckstop", "idle"} \cup Dispatch

\* A granted seam leaves no pass past the second look at s_frame_dispatch.
SeamHeld == Claimed => pc[Poll] \notin Dispatch \cup {"recheckstop"}

\* Only the frame boundary's one check raises the flag.
Unchecked == ~checked => ~flag /\ pc[Frame] \notin {"claim", "refuse"}

\* A thread in the callback owes at least that tick.
Owes == \A t \in {Frame, Poll} : pc[t] = "callback" => owed[t] > 0

IInv == TypeOK /\ IdleTells /\ SeamHeld /\ Unchecked /\ Owes

\* The installation and the frame boundary's entry preserves the invariant.
LEMMA EntryInv ==
    ASSUME IInv, Seeded \/ Boundary
    PROVE  IInv'
<1> USE SeamAssumption DEF IInv
<1>1. CASE Seeded
  BY <1>1 DEF TypeOK, PollPlace, GamePlace, IdleTells, SeamHeld, Unchecked,
     Owes, Claimed, Dispatch, GameCode, Seeded, bridge, census, shut
<1>2. CASE Boundary
  BY <1>2 DEF TypeOK, PollPlace, GamePlace, IdleTells, SeamHeld, Unchecked,
     Owes, Claimed, Dispatch, GameCode, Boundary, Moves, Goto, Alive, events,
     bridge, census, shut
<1> QED
  BY <1>1, <1>2

\* A dispatch, on either thread, preserves the invariant.
LEMMA DispatchingInv ==
    ASSUME IInv, NEW t \in {Frame, Poll}, Dispatching(t)
    PROVE  IInv'
<1> USE SeamAssumption DEF IInv
<1>1. CASE OwedTicks(t)
  BY <1>1 DEF TypeOK, PollPlace, GamePlace, IdleTells, SeamHeld, Unchecked,
     Owes, Claimed, Dispatch, GameCode, OwedTicks, Goto, DispatchEnd, Alive,
     events, bridge, census, shut
<1>2. CASE NoCallback(t)
  BY <1>2 DEF TypeOK, PollPlace, GamePlace, IdleTells, SeamHeld, Unchecked,
     Owes, Claimed, Dispatch, GameCode, NoCallback, Moves, Goto, DispatchEnd,
     Alive, events, bridge, census, shut
<1>3. CASE NextTick(t)
  BY <1>3 DEF TypeOK, PollPlace, GamePlace, IdleTells, SeamHeld, Unchecked,
     Owes, Claimed, Dispatch, GameCode, NextTick, Moves, Goto, Alive, events,
     bridge, census, shut
<1>4. CASE CallbackDone(t)
  BY <1>4 DEF TypeOK, PollPlace, GamePlace, IdleTells, SeamHeld, Unchecked,
     Owes, Claimed, Dispatch, GameCode, CallbackDone, Goto, DispatchEnd,
     Alive, events, bridge, census, shut
<1>5. CASE Transmitted(t)
  BY <1>5 DEF TypeOK, PollPlace, GamePlace, IdleTells, SeamHeld, Unchecked,
     Owes, Claimed, Dispatch, GameCode, Transmitted, Moves, Goto, DispatchEnd,
     Alive, events, bridge, census, shut
<1> QED
  BY <1>1, <1>2, <1>3, <1>4, <1>5 DEF Dispatching

\* The frame boundary preserves the invariant.
LEMMA FrameInv ==
    ASSUME IInv, FrameStep
    PROVE  IInv'
<1> USE SeamAssumption DEF IInv
<1>1. CASE WaitForLogic
  BY <1>1 DEF TypeOK, PollPlace, GamePlace, IdleTells, SeamHeld, Unchecked,
     Owes, Claimed, Dispatch, GameCode, WaitForLogic, Goto, Alive, events,
     bridge, shut
<1>2. CASE Check
  <2>1. flag' \in BOOLEAN
    BY <1>2 DEF Check, TypeOK
  <2> QED
    BY <1>2, <2>1 DEF TypeOK, PollPlace, GamePlace, IdleTells, SeamHeld,
       Unchecked, Owes, Claimed, Dispatch, GameCode, Check, Goto, RightThread,
       Alive, events, bridge, shut
<1>3. CASE ClaimGranted
  BY <1>3 DEF TypeOK, PollPlace, GamePlace, IdleTells, SeamHeld, Unchecked,
     Owes, Claimed, Dispatch, GameCode, ClaimGranted, Moves, Goto, Alive,
     events, bridge, census, shut
<1>4. CASE ClaimFails
  BY <1>4 DEF TypeOK, PollPlace, GamePlace, IdleTells, SeamHeld, Unchecked,
     Owes, Claimed, Dispatch, GameCode, ClaimFails, Moves, Goto, Alive,
     events, bridge, census, shut
<1>5. CASE Refuse
  <2>1. flag' \in BOOLEAN
    BY <1>5 DEF Refuse, TypeOK
  <2> QED
    BY <1>5, <2>1 DEF TypeOK, PollPlace, GamePlace, IdleTells, SeamHeld,
       Unchecked, Owes, Claimed, Dispatch, GameCode, Refuse, Goto, Alive,
       events, bridge, census, shut
<1>6. CASE NotTheSeam
  BY <1>6 DEF TypeOK, PollPlace, GamePlace, IdleTells, SeamHeld, Unchecked,
     Owes, Claimed, Dispatch, GameCode, NotTheSeam, Moves, Goto, Alive,
     events, bridge, census, shut
<1>7. CASE FrameDispatch
  BY <1>7 DEF TypeOK, PollPlace, GamePlace, IdleTells, SeamHeld, Unchecked,
     Owes, Claimed, Dispatch, GameCode, FrameDispatch, Moves, Goto, Alive,
     events, bridge, census, shut
<1>8. CASE Dispatching(Frame)
  BY <1>8, DispatchingInv
<1> QED
  BY <1>1, <1>2, <1>3, <1>4, <1>5, <1>6, <1>7, <1>8 DEF FrameStep

\* The poll thread preserves the invariant.
LEMMA PollInv ==
    ASSUME IInv, PollStep \/ ForceDue
    PROVE  IInv'
<1> USE SeamAssumption DEF IInv
<1>1. CASE PollStarts
  BY <1>1 DEF TypeOK, PollPlace, GamePlace, IdleTells, SeamHeld, Unchecked,
     Owes, Claimed, Dispatch, GameCode, PollStarts, Moves, Goto, Alive,
     events, bridge, census, shut
<1>2. CASE PollSamples
  BY <1>2 DEF TypeOK, PollPlace, GamePlace, IdleTells, SeamHeld, Unchecked,
     Owes, Claimed, Dispatch, GameCode, PollSamples, Moves, Goto, Alive,
     events, bridge, census, shut
<1>3. CASE PollEnds
  BY <1>3 DEF TypeOK, PollPlace, GamePlace, IdleTells, SeamHeld, Unchecked,
     Owes, Claimed, Dispatch, GameCode, PollEnds, Moves, Goto, Alive, events,
     bridge, census, shut
<1>4. CASE PollTests
  BY <1>4 DEF TypeOK, PollPlace, GamePlace, IdleTells, SeamHeld, Unchecked,
     Owes, Claimed, Dispatch, GameCode, PollTests, Moves, Goto, Alive, events,
     bridge, census, shut
<1>5. CASE PollResetsIdle
  <2>1. idle' \in BOOLEAN
    BY <1>5 DEF PollResetsIdle, TypeOK
  <2> QED
    BY <1>5, <2>1 DEF TypeOK, PollPlace, GamePlace, IdleTells, SeamHeld,
       Unchecked, Owes, Claimed, Dispatch, GameCode, PollResetsIdle, Goto,
       Alive, bridge, census, shut
<1>6. CASE PollRechecks
  BY <1>6 DEF TypeOK, PollPlace, GamePlace, IdleTells, SeamHeld, Unchecked,
     Owes, Claimed, Dispatch, GameCode, PollRechecks, Moves, Goto, Alive,
     events, bridge, census, shut
<1>7. CASE PollRechecksStop
  BY <1>7 DEF TypeOK, PollPlace, GamePlace, IdleTells, SeamHeld, Unchecked,
     Owes, Claimed, Dispatch, GameCode, PollRechecksStop, Moves, Goto, Alive,
     events, bridge, census, shut
<1>8. CASE PollSetsIdle
  BY <1>8 DEF TypeOK, PollPlace, GamePlace, IdleTells, SeamHeld, Unchecked,
     Owes, Claimed, Dispatch, GameCode, PollSetsIdle, Goto, Alive, bridge,
     census, shut
<1>9. CASE PollStopped
  BY <1>9 DEF TypeOK, PollPlace, GamePlace, IdleTells, SeamHeld, Unchecked,
     Owes, Claimed, Dispatch, GameCode, PollStopped, Moves, Goto, Alive,
     events, bridge, census, shut
<1>10. CASE PollWakes
  BY <1>10 DEF TypeOK, PollPlace, GamePlace, IdleTells, SeamHeld, Unchecked,
     Owes, Claimed, Dispatch, GameCode, PollWakes, Moves, Goto, Alive, events,
     bridge, census, shut
<1>11. CASE Delivered
  BY <1>11 DEF TypeOK, PollPlace, GamePlace, IdleTells, SeamHeld, Unchecked,
     Owes, Claimed, Dispatch, GameCode, Delivered, Moves, Goto, Alive, events,
     bridge, census, shut
<1>12. CASE ForceDue
  BY <1>12 DEF TypeOK, PollPlace, GamePlace, IdleTells, SeamHeld, Unchecked,
     Owes, Claimed, Dispatch, GameCode, ForceDue, Moves, Goto, Alive, events,
     bridge, census, shut
<1>13. CASE Dispatching(Poll)
  BY <1>13, DispatchingInv
<1> QED
  BY <1>1, <1>2, <1>3, <1>4, <1>5, <1>6, <1>7, <1>8, <1>9, <1>10, <1>11,
     <1>12, <1>13 DEF PollStep

\* The game's printf and exits preserves the invariant.
LEMMA GameInv ==
    ASSUME IInv, (\E t \in Printers : Printf(t)) \/ \E t \in Exits : Exit(t)
    PROVE  IInv'
<1> USE SeamAssumption DEF IInv
<1>1. ASSUME NEW t \in Printers, Printf(t)
      PROVE  IInv'
  BY <1>1 DEF TypeOK, PollPlace, GamePlace, IdleTells, SeamHeld, Unchecked,
     Owes, Claimed, Dispatch, GameCode, Printf, RunsGameCode, Alive, events,
     bridge, shut
<1>2. ASSUME NEW t \in Exits, Exit(t)
      PROVE  IInv'
  BY <1>2 DEF TypeOK, PollPlace, GamePlace, IdleTells, SeamHeld, Unchecked,
     Owes, Claimed, Dispatch, GameCode, Exit, Goto, RunsGameCode, Alive,
     events, bridge, census, shut
<1> QED
  BY <1>1, <1>2

\* The shutdown preserves the invariant.
LEMMA ExitStepInv ==
    ASSUME IInv, ExitStep
    PROVE  IInv'
<1> USE SeamAssumption DEF IInv
<1>1. CASE ExitStops
  BY <1>1 DEF TypeOK, PollPlace, GamePlace, IdleTells, SeamHeld, Unchecked,
     Owes, Claimed, Dispatch, GameCode, ExitStops, ShutDown, events, census
<1>2. CASE ExitSignals
  BY <1>2 DEF TypeOK, PollPlace, GamePlace, IdleTells, SeamHeld, Unchecked,
     Owes, Claimed, Dispatch, GameCode, ExitSignals, ShutDown, bridge, census
<1>3. CASE ExitJoins
  BY <1>3 DEF TypeOK, PollPlace, GamePlace, IdleTells, SeamHeld, Unchecked,
     Owes, Claimed, Dispatch, GameCode, ExitJoins, ShutDown, events, bridge,
     census
<1>4. CASE ExitCloses
  <2>1. open' \in BOOLEAN
    BY <1>4 DEF ExitCloses, TypeOK
  <2> QED
    BY <1>4, <2>1 DEF TypeOK, PollPlace, GamePlace, IdleTells, SeamHeld,
       Unchecked, Owes, Claimed, Dispatch, GameCode, ExitCloses, ShutDown,
       events, census
<1>5. CASE ExitClears
  <2>1. rx' \in BOOLEAN
    BY <1>5 DEF ExitClears, TypeOK
  <2> QED
    BY <1>5, <2>1 DEF TypeOK, PollPlace, GamePlace, IdleTells, SeamHeld,
       Unchecked, Owes, Claimed, Dispatch, GameCode, ExitClears, ShutDown,
       events, census
<1>6. CASE ExitProcess
  <2>1. flag' \in BOOLEAN
    BY <1>6 DEF ExitProcess, TypeOK
  <2> QED
    BY <1>6, <2>1 DEF TypeOK, PollPlace, GamePlace, IdleTells, SeamHeld,
       Unchecked, Owes, Claimed, Dispatch, GameCode, ExitProcess, ShutDown,
       events, bridge, census
<1> QED
  BY <1>1, <1>2, <1>3, <1>4, <1>5, <1>6 DEF ExitStep

\* A stuttering step preserves the invariant.
LEMMA StutterInv ==
    ASSUME IInv, UNCHANGED vars
    PROVE  IInv'
BY DEF IInv, TypeOK, IdleTells, SeamHeld, Unchecked, Owes, Claimed, vars,
   events, bridge, census, shut

\* The bridge as diego_install leaves it satisfies the invariant.
LEMMA InitSeam == Init => IInv
<1> SUFFICES ASSUME Init PROVE IInv
  OBVIOUS
<1>1. pc[Poll] = "start" /\ pc[Frame] = "out"
  BY SeamAssumption DEF Init
<1>2. /\ flag \in BOOLEAN /\ started \in BOOLEAN /\ stopEv \in BOOLEAN
      /\ stop \in BOOLEAN /\ checked \in BOOLEAN
  BY DEF Init
<1>3. TypeOK
  BY <1>1, <1>2, SeamAssumption DEF Init, TypeOK, PollPlace, GamePlace
<1>4. IdleTells /\ SeamHeld /\ Unchecked /\ Owes
  BY <1>1 DEF Init, IdleTells, SeamHeld, Unchecked, Owes, Claimed, Dispatch,
     GameCode
<1> QED BY <1>3, <1>4 DEF IInv

\* Every step preserves the invariant.
LEMMA SeamInductive == IInv /\ [Next]_vars => IInv'
<1> SUFFICES ASSUME IInv, [Next]_vars PROVE IInv'
  OBVIOUS
<1>1. CASE Seeded \/ Boundary
  BY <1>1, EntryInv
<1>2. CASE FrameStep
  BY <1>2, FrameInv
<1>3. CASE PollStep \/ ForceDue
  BY <1>3, PollInv
<1>4. CASE (\E t \in Printers : Printf(t)) \/ \E t \in Exits : Exit(t)
  BY <1>4, GameInv
<1>5. CASE ExitStep
  BY <1>5, ExitStepInv
<1>6. CASE UNCHANGED vars
  BY <1>6, StutterInv
<1> QED
  BY <1>1, <1>2, <1>3, <1>4, <1>5, <1>6 DEF Next, Ended

\* Whoever may exit, and however the claim is timed: once claim_frame_dispatch
\* has returned 1 the poll thread stays out of the game's code.
THEOREM SeamSafety == Spec => [](TypeOK /\ SeamExclusion)
<1>1. IInv => TypeOK /\ SeamExclusion
  BY DEF IInv, SeamHeld, SeamExclusion
<1> QED BY <1>1, InitSeam, SeamInductive, PTL DEF Spec

-----------------------------------------------------------------------------
\* Where the shutdown is says what is left of the bridge and who is left.
Shutdown ==
    /\ exiting = Nobody => xpc = "none"
    /\ xpc \in {"close", "clear", "unflag", "dead"} => pc[Poll] = "gone"
    /\ rx <=> xpc \notin {"unflag", "dead"}
    /\ open <=> xpc \notin {"clear", "unflag", "dead"}

\* The frame thread dispatches only with the seam.
FrameHas == Alive /\ pc[Frame] \in Dispatch => checked /\ flag

XInv == IInv /\ Shutdown /\ FrameHas

\* The installation and the frame boundary's entry preserves Shutdown and FrameHas.
LEMMA EntryShut ==
    ASSUME IInv, Shutdown, FrameHas,
           Seeded \/ Boundary
    PROVE  Shutdown' /\ FrameHas'
<1> USE SeamAssumption DEF IInv
<1>1. CASE Seeded
  BY <1>1 DEF Shutdown, FrameHas, Alive, TypeOK, Dispatch, GameCode,
     Seeded, bridge, census, shut
<1>2. CASE Boundary
  BY <1>2 DEF Shutdown, FrameHas, TypeOK, Dispatch, GameCode,
     Boundary, Moves, Goto, Alive, events, bridge, census, shut
<1> QED
  BY <1>1, <1>2

\* A dispatch, on either thread, preserves Shutdown and FrameHas.
LEMMA DispatchingShut ==
    ASSUME IInv, Shutdown, FrameHas,
           NEW t \in {Frame, Poll}, Dispatching(t)
    PROVE  Shutdown' /\ FrameHas'
<1> USE SeamAssumption DEF IInv
<1>1. CASE OwedTicks(t)
  BY <1>1 DEF Shutdown, FrameHas, TypeOK, Dispatch, GameCode,
     OwedTicks, Goto, DispatchEnd, Alive, events, bridge, census, shut
<1>2. CASE NoCallback(t)
  BY <1>2 DEF Shutdown, FrameHas, TypeOK, Dispatch, GameCode,
     NoCallback, Moves, Goto, DispatchEnd, Alive, events, bridge, census, shut
<1>3. CASE NextTick(t)
  BY <1>3 DEF Shutdown, FrameHas, TypeOK, Dispatch, GameCode,
     NextTick, Moves, Goto, Alive, events, bridge, census, shut
<1>4. CASE CallbackDone(t)
  BY <1>4 DEF Shutdown, FrameHas, TypeOK, Dispatch, GameCode,
     CallbackDone, Goto, DispatchEnd, Alive, events, bridge, census, shut
<1>5. CASE Transmitted(t)
  BY <1>5 DEF Shutdown, FrameHas, TypeOK, Dispatch, GameCode,
     Transmitted, Moves, Goto, DispatchEnd, Alive, events, bridge, census,
     shut
<1> QED
  BY <1>1, <1>2, <1>3, <1>4, <1>5 DEF Dispatching

\* The frame boundary preserves Shutdown and FrameHas.
LEMMA FrameShut ==
    ASSUME IInv, Shutdown, FrameHas,
           FrameStep
    PROVE  Shutdown' /\ FrameHas'
<1> USE SeamAssumption DEF IInv
<1>1. CASE WaitForLogic
  BY <1>1 DEF Shutdown, FrameHas, TypeOK, Dispatch, GameCode,
     WaitForLogic, Goto, Alive, events, bridge, shut
<1>2. CASE Check
  BY <1>2 DEF Shutdown, FrameHas, TypeOK, Dispatch, GameCode,
     Check, Goto, RightThread, Alive, events, bridge, shut
<1>3. CASE ClaimGranted
  BY <1>3 DEF Shutdown, FrameHas, TypeOK, Dispatch, GameCode,
     ClaimGranted, Moves, Goto, Alive, events, bridge, census, shut
<1>4. CASE ClaimFails
  BY <1>4 DEF Shutdown, FrameHas, TypeOK, Dispatch, GameCode,
     ClaimFails, Moves, Goto, Alive, events, bridge, census, shut
<1>5. CASE Refuse
  BY <1>5 DEF Shutdown, FrameHas, TypeOK, Dispatch, GameCode,
     Refuse, Goto, Alive, events, bridge, census, shut
<1>6. CASE NotTheSeam
  BY <1>6 DEF Shutdown, FrameHas, TypeOK, Dispatch, GameCode,
     NotTheSeam, Moves, Goto, Alive, events, bridge, census, shut
<1>7. CASE FrameDispatch
  BY <1>7 DEF Shutdown, FrameHas, TypeOK, Dispatch, GameCode,
     FrameDispatch, Moves, Goto, Alive, events, bridge, census, shut
<1>8. CASE Dispatching(Frame)
  BY <1>8, DispatchingShut
<1> QED
  BY <1>1, <1>2, <1>3, <1>4, <1>5, <1>6, <1>7, <1>8 DEF FrameStep

\* The poll thread preserves Shutdown and FrameHas.
LEMMA PollShut ==
    ASSUME IInv, Shutdown, FrameHas,
           PollStep \/ ForceDue
    PROVE  Shutdown' /\ FrameHas'
<1> USE SeamAssumption DEF IInv
<1>1. CASE PollStarts
  BY <1>1 DEF Shutdown, FrameHas, TypeOK, Dispatch, GameCode,
     PollStarts, Moves, Goto, Alive, events, bridge, census, shut
<1>2. CASE PollSamples
  BY <1>2 DEF Shutdown, FrameHas, TypeOK, Dispatch, GameCode,
     PollSamples, Moves, Goto, Alive, events, bridge, census, shut
<1>3. CASE PollEnds
  BY <1>3 DEF Shutdown, FrameHas, TypeOK, Dispatch, GameCode,
     PollEnds, Moves, Goto, Alive, events, bridge, census, shut
<1>4. CASE PollTests
  BY <1>4 DEF Shutdown, FrameHas, TypeOK, Dispatch, GameCode,
     PollTests, Moves, Goto, Alive, events, bridge, census, shut
<1>5. CASE PollResetsIdle
  BY <1>5 DEF Shutdown, FrameHas, TypeOK, Dispatch, GameCode,
     PollResetsIdle, Goto, Alive, bridge, census, shut
<1>6. CASE PollRechecks
  BY <1>6 DEF Shutdown, FrameHas, TypeOK, Dispatch, GameCode,
     PollRechecks, Moves, Goto, Alive, events, bridge, census, shut
<1>7. CASE PollRechecksStop
  BY <1>7 DEF Shutdown, FrameHas, TypeOK, Dispatch, GameCode,
     PollRechecksStop, Moves, Goto, Alive, events, bridge, census, shut
<1>8. CASE PollSetsIdle
  BY <1>8 DEF Shutdown, FrameHas, TypeOK, Dispatch, GameCode,
     PollSetsIdle, Goto, Alive, bridge, census, shut
<1>9. CASE PollStopped
  BY <1>9 DEF Shutdown, FrameHas, TypeOK, Dispatch, GameCode,
     PollStopped, Moves, Goto, Alive, events, bridge, census, shut
<1>10. CASE PollWakes
  BY <1>10 DEF Shutdown, FrameHas, TypeOK, Dispatch, GameCode,
     PollWakes, Moves, Goto, Alive, events, bridge, census, shut
<1>11. CASE Delivered
  BY <1>11 DEF Shutdown, FrameHas, TypeOK, Dispatch, GameCode,
     Delivered, Moves, Goto, Alive, events, bridge, census, shut
<1>12. CASE ForceDue
  BY <1>12 DEF Shutdown, FrameHas, TypeOK, Dispatch, GameCode,
     ForceDue, Moves, Goto, Alive, events, bridge, census, shut
<1>13. CASE Dispatching(Poll)
  BY <1>13, DispatchingShut
<1> QED
  BY <1>1, <1>2, <1>3, <1>4, <1>5, <1>6, <1>7, <1>8, <1>9, <1>10, <1>11,
     <1>12, <1>13 DEF PollStep

\* The game's printf and exits preserves Shutdown and FrameHas.
LEMMA GameShut ==
    ASSUME IInv, Shutdown, FrameHas,
           (\E t \in Printers : Printf(t)) \/ \E t \in Exits : Exit(t)
    PROVE  Shutdown' /\ FrameHas'
<1> USE SeamAssumption DEF IInv
<1>1. ASSUME NEW t \in Printers, Printf(t)
      PROVE  Shutdown' /\ FrameHas'
  BY <1>1 DEF Shutdown, FrameHas, TypeOK, Dispatch, GameCode,
     Printf, RunsGameCode, Alive, events, bridge, shut
<1>2. ASSUME NEW t \in Exits, Exit(t)
      PROVE  Shutdown' /\ FrameHas'
  BY <1>2 DEF Shutdown, FrameHas, TypeOK, Dispatch, GameCode,
     Exit, Goto, RunsGameCode, Alive, events, bridge, census, shut
<1> QED
  BY <1>1, <1>2

\* The shutdown preserves Shutdown and FrameHas.
LEMMA ExitStepShut ==
    ASSUME IInv, Shutdown, FrameHas,
           ExitStep
    PROVE  Shutdown' /\ FrameHas'
<1> USE SeamAssumption DEF IInv
<1>1. CASE ExitStops
  BY <1>1 DEF Shutdown, FrameHas, Alive, TypeOK, Dispatch, GameCode,
     ExitStops, ShutDown, events, census
<1>2. CASE ExitSignals
  BY <1>2 DEF Shutdown, FrameHas, Alive, TypeOK, Dispatch, GameCode,
     ExitSignals, ShutDown, bridge, census
<1>3. CASE ExitJoins
  BY <1>3 DEF Shutdown, FrameHas, Alive, TypeOK, Dispatch, GameCode,
     ExitJoins, ShutDown, events, bridge, census
<1>4. CASE ExitCloses
  BY <1>4 DEF Shutdown, FrameHas, Alive, TypeOK, Dispatch, GameCode,
     ExitCloses, ShutDown, events, census
<1>5. CASE ExitClears
  BY <1>5 DEF Shutdown, FrameHas, Alive, TypeOK, Dispatch, GameCode,
     ExitClears, ShutDown, events, census
<1>6. CASE ExitProcess
  BY <1>6 DEF Shutdown, FrameHas, Alive, TypeOK, Dispatch, GameCode,
     ExitProcess, ShutDown, events, bridge, census
<1> QED
  BY <1>1, <1>2, <1>3, <1>4, <1>5, <1>6 DEF ExitStep

\* A stuttering step preserves it too.
LEMMA StutterShut ==
    ASSUME Shutdown, FrameHas, UNCHANGED vars
    PROVE  Shutdown' /\ FrameHas'
BY DEF Shutdown, FrameHas, Alive, vars, events, bridge, census, shut

\* The installation and the frame boundary's entry takes a step of GameCodeOwner, or none.
LEMMA EntryOwns ==
    ASSUME XInv,
           Seeded \/ Boundary
    PROVE  [Owner!Next]_(Owner!vars)
<1> USE SeamAssumption DEF XInv, IInv
<1>1. CASE Seeded
  BY <1>1 DEF TypeOK, IdleTells, SeamHeld, Unchecked, Shutdown, FrameHas,
     Owner!Next, Owner!Enter, Owner!Leave, Owner!HandOver,
     Owner!Close, Owner!vars, Claimed, Alive, Dispatch, GameCode, Seeded,
     bridge, census, shut
<1>2. CASE Boundary
  BY <1>2 DEF TypeOK, IdleTells, SeamHeld, Unchecked, Shutdown, FrameHas,
     Owner!Next, Owner!Enter, Owner!Leave, Owner!HandOver,
     Owner!Close, Owner!vars, Claimed, Alive, Dispatch, GameCode, Boundary,
     Moves, Goto, events, bridge, census, shut
<1> QED
  BY <1>1, <1>2

\* A dispatch, on either thread, takes a step of GameCodeOwner, or none.
LEMMA DispatchingOwns ==
    ASSUME XInv,
           NEW t \in {Frame, Poll}, Dispatching(t)
    PROVE  [Owner!Next]_(Owner!vars)
<1> USE SeamAssumption DEF XInv, IInv
<1>1. CASE OwedTicks(t)
  BY <1>1 DEF TypeOK, IdleTells, SeamHeld, Unchecked, Shutdown, FrameHas,
     Owner!Next, Owner!Enter, Owner!Leave, Owner!HandOver,
     Owner!Close, Owner!vars, Claimed, Alive, Dispatch, GameCode, OwedTicks,
     Goto, DispatchEnd, events, bridge, census, shut
<1>2. CASE NoCallback(t)
  BY <1>2 DEF TypeOK, IdleTells, SeamHeld, Unchecked, Shutdown, FrameHas,
     Owner!Next, Owner!Enter, Owner!Leave, Owner!HandOver,
     Owner!Close, Owner!vars, Claimed, Alive, Dispatch, GameCode, NoCallback,
     Moves, Goto, DispatchEnd, events, bridge, census, shut
<1>3. CASE NextTick(t)
  BY <1>3 DEF TypeOK, IdleTells, SeamHeld, Unchecked, Shutdown, FrameHas,
     Owner!Next, Owner!Enter, Owner!Leave, Owner!HandOver,
     Owner!Close, Owner!vars, Claimed, Alive, Dispatch, GameCode, NextTick,
     Moves, Goto, events, bridge, census, shut
<1>4. CASE CallbackDone(t)
  BY <1>4 DEF TypeOK, IdleTells, SeamHeld, Unchecked, Shutdown, FrameHas,
     Owner!Next, Owner!Enter, Owner!Leave, Owner!HandOver,
     Owner!Close, Owner!vars, Claimed, Alive, Dispatch, GameCode,
     CallbackDone, Goto, DispatchEnd, events, bridge, census, shut
<1>5. CASE Transmitted(t)
  BY <1>5 DEF TypeOK, IdleTells, SeamHeld, Unchecked, Shutdown, FrameHas,
     Owner!Next, Owner!Enter, Owner!Leave, Owner!HandOver,
     Owner!Close, Owner!vars, Claimed, Alive, Dispatch, GameCode, Transmitted,
     Moves, Goto, DispatchEnd, events, bridge, census, shut
<1> QED
  BY <1>1, <1>2, <1>3, <1>4, <1>5 DEF Dispatching

\* The frame boundary takes a step of GameCodeOwner, or none.
LEMMA FrameOwns ==
    ASSUME XInv,
           FrameStep
    PROVE  [Owner!Next]_(Owner!vars)
<1> USE SeamAssumption DEF XInv, IInv
<1>1. CASE WaitForLogic
  BY <1>1 DEF TypeOK, IdleTells, SeamHeld, Unchecked, Shutdown, FrameHas,
     Owner!Next, Owner!Enter, Owner!Leave, Owner!HandOver,
     Owner!Close, Owner!vars, Claimed, Alive, Dispatch, GameCode,
     WaitForLogic, Goto, events, bridge, shut
<1>2. CASE Check
  BY <1>2 DEF TypeOK, IdleTells, SeamHeld, Unchecked, Shutdown, FrameHas,
     Owner!Next, Owner!Enter, Owner!Leave, Owner!HandOver,
     Owner!Close, Owner!vars, Claimed, Alive, Dispatch, GameCode, Check, Goto,
     RightThread, events, bridge, shut
<1>3. CASE ClaimGranted
  BY <1>3 DEF TypeOK, IdleTells, SeamHeld, Unchecked, Shutdown, FrameHas,
     Owner!Next, Owner!Enter, Owner!Leave, Owner!HandOver,
     Owner!Close, Owner!vars, Claimed, Alive, Dispatch, GameCode,
     ClaimGranted, Moves, Goto, events, bridge, census, shut
<1>4. CASE ClaimFails
  BY <1>4 DEF TypeOK, IdleTells, SeamHeld, Unchecked, Shutdown, FrameHas,
     Owner!Next, Owner!Enter, Owner!Leave, Owner!HandOver,
     Owner!Close, Owner!vars, Claimed, Alive, Dispatch, GameCode, ClaimFails,
     Moves, Goto, events, bridge, census, shut
<1>5. CASE Refuse
  BY <1>5 DEF TypeOK, IdleTells, SeamHeld, Unchecked, Shutdown, FrameHas,
     Owner!Next, Owner!Enter, Owner!Leave, Owner!HandOver,
     Owner!Close, Owner!vars, Claimed, Alive, Dispatch, GameCode, Refuse,
     Goto, events, bridge, census, shut
<1>6. CASE NotTheSeam
  BY <1>6 DEF TypeOK, IdleTells, SeamHeld, Unchecked, Shutdown, FrameHas,
     Owner!Next, Owner!Enter, Owner!Leave, Owner!HandOver,
     Owner!Close, Owner!vars, Claimed, Alive, Dispatch, GameCode, NotTheSeam,
     Moves, Goto, events, bridge, census, shut
<1>7. CASE FrameDispatch
  BY <1>7 DEF TypeOK, IdleTells, SeamHeld, Unchecked, Shutdown, FrameHas,
     Owner!Next, Owner!Enter, Owner!Leave, Owner!HandOver,
     Owner!Close, Owner!vars, Claimed, Alive, Dispatch, GameCode,
     FrameDispatch, Moves, Goto, events, bridge, census, shut
<1>8. CASE Dispatching(Frame)
  BY <1>8, DispatchingOwns
<1> QED
  BY <1>1, <1>2, <1>3, <1>4, <1>5, <1>6, <1>7, <1>8 DEF FrameStep

\* The poll thread takes a step of GameCodeOwner, or none.
LEMMA PollOwns ==
    ASSUME XInv,
           PollStep \/ ForceDue
    PROVE  [Owner!Next]_(Owner!vars)
<1> USE SeamAssumption DEF XInv, IInv
<1>1. CASE PollStarts
  BY <1>1 DEF TypeOK, IdleTells, SeamHeld, Unchecked, Shutdown, FrameHas,
     Owner!Next, Owner!Enter, Owner!Leave, Owner!HandOver,
     Owner!Close, Owner!vars, Claimed, Alive, Dispatch, GameCode, PollStarts,
     Moves, Goto, events, bridge, census, shut
<1>2. CASE PollSamples
  BY <1>2 DEF TypeOK, IdleTells, SeamHeld, Unchecked, Shutdown, FrameHas,
     Owner!Next, Owner!Enter, Owner!Leave, Owner!HandOver,
     Owner!Close, Owner!vars, Claimed, Alive, Dispatch, GameCode, PollSamples,
     Moves, Goto, events, bridge, census, shut
<1>3. CASE PollEnds
  BY <1>3 DEF TypeOK, IdleTells, SeamHeld, Unchecked, Shutdown, FrameHas,
     Owner!Next, Owner!Enter, Owner!Leave, Owner!HandOver,
     Owner!Close, Owner!vars, Claimed, Alive, Dispatch, GameCode, PollEnds,
     Moves, Goto, events, bridge, census, shut
<1>4. CASE PollTests
  BY <1>4 DEF TypeOK, IdleTells, SeamHeld, Unchecked, Shutdown, FrameHas,
     Owner!Next, Owner!Enter, Owner!Leave, Owner!HandOver,
     Owner!Close, Owner!vars, Claimed, Alive, Dispatch, GameCode, PollTests,
     Moves, Goto, events, bridge, census, shut
<1>5. CASE PollResetsIdle
  BY <1>5 DEF TypeOK, IdleTells, SeamHeld, Unchecked, Shutdown, FrameHas,
     Owner!Next, Owner!Enter, Owner!Leave, Owner!HandOver,
     Owner!Close, Owner!vars, Claimed, Alive, Dispatch, GameCode,
     PollResetsIdle, Goto, bridge, census, shut
<1>6. CASE PollRechecks
  BY <1>6 DEF TypeOK, IdleTells, SeamHeld, Unchecked, Shutdown, FrameHas,
     Owner!Next, Owner!Enter, Owner!Leave, Owner!HandOver,
     Owner!Close, Owner!vars, Claimed, Alive, Dispatch, GameCode,
     PollRechecks, Moves, Goto, events, bridge, census, shut
<1>7. CASE PollRechecksStop
  BY <1>7 DEF TypeOK, IdleTells, SeamHeld, Unchecked, Shutdown, FrameHas,
     Owner!Next, Owner!Enter, Owner!Leave, Owner!HandOver,
     Owner!Close, Owner!vars, Claimed, Alive, Dispatch, GameCode,
     PollRechecksStop, Moves, Goto, events, bridge, census, shut
<1>8. CASE PollSetsIdle
  BY <1>8 DEF TypeOK, IdleTells, SeamHeld, Unchecked, Shutdown, FrameHas,
     Owner!Next, Owner!Enter, Owner!Leave, Owner!HandOver,
     Owner!Close, Owner!vars, Claimed, Alive, Dispatch, GameCode,
     PollSetsIdle, Goto, bridge, census, shut
<1>9. CASE PollStopped
  BY <1>9 DEF TypeOK, IdleTells, SeamHeld, Unchecked, Shutdown, FrameHas,
     Owner!Next, Owner!Enter, Owner!Leave, Owner!HandOver,
     Owner!Close, Owner!vars, Claimed, Alive, Dispatch, GameCode, PollStopped,
     Moves, Goto, events, bridge, census, shut
<1>10. CASE PollWakes
  BY <1>10 DEF TypeOK, IdleTells, SeamHeld, Unchecked, Shutdown, FrameHas,
     Owner!Next, Owner!Enter, Owner!Leave, Owner!HandOver,
     Owner!Close, Owner!vars, Claimed, Alive, Dispatch, GameCode, PollWakes,
     Moves, Goto, events, bridge, census, shut
<1>11. CASE Delivered
  BY <1>11 DEF TypeOK, IdleTells, SeamHeld, Unchecked, Shutdown, FrameHas,
     Owner!Next, Owner!Enter, Owner!Leave, Owner!HandOver,
     Owner!Close, Owner!vars, Claimed, Alive, Dispatch, GameCode, Delivered,
     Moves, Goto, events, bridge, census, shut
<1>12. CASE ForceDue
  BY <1>12 DEF TypeOK, IdleTells, SeamHeld, Unchecked, Shutdown, FrameHas,
     Owner!Next, Owner!Enter, Owner!Leave, Owner!HandOver,
     Owner!Close, Owner!vars, Claimed, Alive, Dispatch, GameCode, ForceDue,
     Moves, Goto, events, bridge, census, shut
<1>13. CASE Dispatching(Poll)
  BY <1>13, DispatchingOwns
<1> QED
  BY <1>1, <1>2, <1>3, <1>4, <1>5, <1>6, <1>7, <1>8, <1>9, <1>10, <1>11,
     <1>12, <1>13 DEF PollStep

\* The game's printf and exits takes a step of GameCodeOwner, or none.
LEMMA GameOwns ==
    ASSUME XInv,
           (\E t \in Printers : Printf(t)) \/ \E t \in Exits : Exit(t)
    PROVE  [Owner!Next]_(Owner!vars)
<1> USE SeamAssumption DEF XInv, IInv
<1>1. ASSUME NEW t \in Printers, Printf(t)
      PROVE  [Owner!Next]_(Owner!vars)
  BY <1>1 DEF TypeOK, IdleTells, SeamHeld, Unchecked, Shutdown, FrameHas,
     Owner!Next, Owner!Enter, Owner!Leave, Owner!HandOver,
     Owner!Close, Owner!vars, Claimed, Alive, Dispatch, GameCode, Printf,
     RunsGameCode, events, bridge, shut
<1>2. ASSUME NEW t \in Exits, Exit(t)
      PROVE  [Owner!Next]_(Owner!vars)
  BY <1>2 DEF TypeOK, IdleTells, SeamHeld, Unchecked, Shutdown, FrameHas,
     Owner!Next, Owner!Enter, Owner!Leave, Owner!HandOver,
     Owner!Close, Owner!vars, Claimed, Alive, Dispatch, GameCode, Exit, Goto,
     RunsGameCode, events, bridge, census, shut
<1> QED
  BY <1>1, <1>2

\* The shutdown takes a step of GameCodeOwner, or none.
LEMMA ExitStepOwns ==
    ASSUME XInv,
           ExitStep
    PROVE  [Owner!Next]_(Owner!vars)
<1> USE SeamAssumption DEF XInv, IInv
<1>1. CASE ExitStops
  BY <1>1 DEF TypeOK, IdleTells, SeamHeld, Unchecked, Shutdown, FrameHas,
     Owner!Next, Owner!Enter, Owner!Leave, Owner!HandOver,
     Owner!Close, Owner!vars, Claimed, Alive, Dispatch, GameCode, ExitStops,
     ShutDown, events, census
<1>2. CASE ExitSignals
  BY <1>2 DEF TypeOK, IdleTells, SeamHeld, Unchecked, Shutdown, FrameHas,
     Owner!Next, Owner!Enter, Owner!Leave, Owner!HandOver,
     Owner!Close, Owner!vars, Claimed, Alive, Dispatch, GameCode, ExitSignals,
     ShutDown, bridge, census
<1>3. CASE ExitJoins
  BY <1>3 DEF TypeOK, IdleTells, SeamHeld, Unchecked, Shutdown, FrameHas,
     Owner!Next, Owner!Enter, Owner!Leave, Owner!HandOver,
     Owner!Close, Owner!vars, Claimed, Alive, Dispatch, GameCode, ExitJoins,
     ShutDown, events, bridge, census
<1>4. CASE ExitCloses
  BY <1>4 DEF TypeOK, IdleTells, SeamHeld, Unchecked, Shutdown, FrameHas,
     Owner!Next, Owner!Enter, Owner!Leave, Owner!HandOver,
     Owner!Close, Owner!vars, Claimed, Alive, Dispatch, GameCode, ExitCloses,
     ShutDown, events, census
<1>5. CASE ExitClears
  BY <1>5 DEF TypeOK, IdleTells, SeamHeld, Unchecked, Shutdown, FrameHas,
     Owner!Next, Owner!Enter, Owner!Leave, Owner!HandOver,
     Owner!Close, Owner!vars, Claimed, Alive, Dispatch, GameCode, ExitClears,
     ShutDown, events, census
<1>6. CASE ExitProcess
  BY <1>6 DEF TypeOK, IdleTells, SeamHeld, Unchecked, Shutdown, FrameHas,
     Owner!Next, Owner!Enter, Owner!Leave, Owner!HandOver,
     Owner!Close, Owner!vars, Claimed, Alive, Dispatch, GameCode, ExitProcess,
     ShutDown, events, bridge, census
<1> QED
  BY <1>1, <1>2, <1>3, <1>4, <1>5, <1>6 DEF ExitStep

\* Nothing happens to the owner when nothing happens.
LEMMA StutterOwns ==
    ASSUME UNCHANGED vars
    PROVE  [Owner!Next]_(Owner!vars)
BY DEF Owner!vars, Claimed, Alive, vars, events, bridge, census, shut

\* Every step preserves XInv.
LEMMA ShutInductive == XInv /\ [Next]_vars => XInv'
<1> SUFFICES ASSUME XInv, [Next]_vars PROVE XInv'
  OBVIOUS
<1>1. IInv'
  BY SeamInductive DEF XInv
<1>2. Shutdown' /\ FrameHas'
  <2> USE DEF XInv
  <2>1. CASE Seeded \/ Boundary
    BY <2>1, EntryShut
  <2>2. CASE FrameStep
    BY <2>2, FrameShut
  <2>3. CASE PollStep \/ ForceDue
    BY <2>3, PollShut
  <2>4. CASE (\E t \in Printers : Printf(t)) \/ \E t \in Exits : Exit(t)
    BY <2>4, GameShut
  <2>5. CASE ExitStep
    BY <2>5, ExitStepShut
  <2>6. CASE UNCHANGED vars
    BY <2>6, StutterShut
  <2> QED
    BY <2>1, <2>2, <2>3, <2>4, <2>5, <2>6 DEF Next, Ended
<1> QED BY <1>1, <1>2 DEF XInv

\* And is a step of GameCodeOwner.
LEMMA OwnerStep ==
    XInv /\ [Next]_vars => [Owner!Next]_(Owner!vars)
<1> SUFFICES ASSUME XInv, [Next]_vars
             PROVE  [Owner!Next]_(Owner!vars)
  OBVIOUS
<1>1. CASE Seeded \/ Boundary
  BY <1>1, EntryOwns
<1>2. CASE FrameStep
  BY <1>2, FrameOwns
<1>3. CASE PollStep \/ ForceDue
  BY <1>3, PollOwns
<1>4. CASE (\E t \in Printers : Printf(t)) \/ \E t \in Exits : Exit(t)
  BY <1>4, GameOwns
<1>5. CASE ExitStep
  BY <1>5, ExitStepOwns
<1>6. CASE UNCHANGED vars
  BY <1>6, StutterOwns
<1> QED
  BY <1>1, <1>2, <1>3, <1>4, <1>5, <1>6 DEF Next, Ended

\* Before the installation nothing is shut down and nobody dispatches.
LEMMA InitShut == Init => XInv
<1> SUFFICES ASSUME Init PROVE XInv
  OBVIOUS
<1>1. pc[Frame] = "out"
  BY SeamAssumption DEF Init
<1> QED BY <1>1, InitSeam DEF Init, XInv, Shutdown, FrameHas, Dispatch, GameCode

\* Whichever threads exit, the bridge implements GameCodeOwner: the decoder and
\* the callback have one user at a time, are handed over once with nobody
\* inside, and the process never ends under the poll thread.
THEOREM HandOverRefines == Spec => OneOwner
<1>1. Init => XInv
  BY InitShut
<1>2. XInv /\ [Next]_vars => XInv'
  BY ShutInductive
<1>3. Init => Owner!Init
  <2> SUFFICES ASSUME Init PROVE Owner!Init
    OBVIOUS
  <2>1. pc[Frame] = "out" /\ pc[Poll] = "start"
    BY SeamAssumption DEF Init
  <2> QED BY <2>1 DEF Init, Owner!Init, Claimed, Alive, Dispatch, GameCode
<1>4. XInv /\ [Next]_vars => [Owner!Next]_(Owner!vars)
  BY OwnerStep
<1> QED BY <1>1, <1>2, <1>3, <1>4, PTL DEF Spec, OneOwner, Owner!Spec

\* Whichever thread exits, diego_shutdown takes neither the decoder nor the
\* transport away from under the poll thread, wherever that was at the exit.
THEOREM ReleasedInOrder == Spec => []ShutdownOrder
<1>1. Init => XInv
  BY InitShut
<1>2. XInv /\ [Next]_vars => XInv'
  BY ShutInductive
<1>3. XInv => ShutdownOrder
  BY SeamAssumption DEF XInv, IInv, TypeOK, Shutdown, ShutdownOrder, MayTransmit,
     GameCode, Alive
<1> QED BY <1>1, <1>2, <1>3, PTL DEF Spec
=============================================================================
