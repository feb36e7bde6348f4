------------------------------- MODULE IrqMask -------------------------------
(***************************************************************************)
(* The game's cli and sti, emulated by the fault handler of main.c as an   *)
(* interrupt-disable depth, and the host threads that stand in for the     *)
(* cabinet's interrupts and wait on it.  More than Budget faults in one    *)
(* window turn the emulation off; the frame boundary forces the depth to   *)
(* zero; a waiter gives up after a bounded time.                           *)
(*                                                                         *)
(* A thread's lvl is how many cli regions it is inside, whatever the host  *)
(* counts.  Time is left out: a window may end at any fault, and a wait    *)
(* may time out at any moment.                                             *)
(***************************************************************************)
EXTENDS Integers, FiniteSets

CONSTANTS
    Game,       \* threads of the game that execute cli and sti
    Sides,      \* dcs_thread and the poll thread
    Frame,      \* the thread of the frame boundary
    SideRegions,\* the side threads' game code executes cli and sti as well
    Budget,     \* IRQ_FAULT_BUDGET
    MaxLvl      \* bound: how deep regions nest

Cpus == Game \cup Sides

ASSUME IrqAssumption ==
    /\ Game \cap Sides = {} /\ Frame \notin Sides
    /\ IsFiniteSet(Game) /\ IsFiniteSet(Sides)
    /\ SideRegions \in BOOLEAN
    /\ Budget \in Nat /\ MaxLvl \in Nat

VARIABLES
    depth,    \* s_irq_depth
    emulate,  \* s_irq_emulate
    window,   \* s_irq_window
    hpc,      \* where each thread is in heal_privileged
    lvl,      \* how many cli regions each thread is inside
    spc,      \* where each side thread is
    lost      \* history: a region of one thread met a bare sti or a frame
              \* boundary of another, and since then there always was a region
              \* or a bare sti under way

heal == <<emulate, window, hpc>>
vars == <<depth, heal, lvl, spc, lost>>

TypeOK ==
    /\ depth \in Int
    /\ emulate \in BOOLEAN
    /\ window \in 0 .. (Budget + 1)
    /\ hpc \in [Cpus -> {"run", "cli", "sti", "clamp", "count", "degrade",
                         "open"}]
    /\ lvl \in [Cpus -> 0 .. MaxLvl]
    /\ spc \in [Sides -> {"out", "wait", "inside"}]
    /\ lost \in BOOLEAN

Init ==
    /\ depth = 0 /\ emulate = TRUE /\ window = 0
    /\ hpc = [t \in Cpus |-> "run"]
    /\ lvl = [t \in Cpus |-> 0]
    /\ spc = [s \in Sides |-> "out"]
    /\ lost = FALSE

\* The regions that are open, and the threads in the middle of a bare sti.
Regions == {r \in Cpus \X (1 .. MaxLvl) : r[2] <= lvl[r[1]]}
Clamping == {t \in Cpus : hpc[t] = "clamp"}
Calm == Regions = {} /\ Clamping = {}

-----------------------------------------------------------------------------
(* A cli or sti of thread t, and heal_privileged on the fault it raises.   *)

InGame(t) ==
    /\ hpc[t] = "run"
    /\ t \in Sides => SideRegions /\ spc[t] = "inside"

Heal(t, from, to) == hpc[t] = from /\ hpc' = [hpc EXCEPT ![t] = to]

Fault(t, op) ==
    /\ InGame(t) /\ emulate
    /\ op = "cli" => lvl[t] < MaxLvl
    /\ Heal(t, "run", op)
    /\ UNCHANGED <<depth, emulate, window, lvl, spc, lost>>

Leaves(t) == lvl' = [lvl EXCEPT ![t] = IF @ > 0 THEN @ - 1 ELSE 0]

\* With the emulation off the instruction becomes a nop.
Nop(t, op) ==
    /\ InGame(t) /\ ~emulate
    /\ IF op = "cli" THEN lvl[t] < MaxLvl /\ lvl' = [lvl EXCEPT ![t] = @ + 1]
                     ELSE Leaves(t)
    /\ UNCHANGED <<depth, heal, spc, lost>>

Cli(t) ==
    /\ Heal(t, "cli", "count")
    /\ depth' = depth + 1
    /\ lvl' = [lvl EXCEPT ![t] = @ + 1]
    /\ lost' = (lost \/ Clamping /= {})
    /\ UNCHANGED <<emulate, window, spc>>

\* A bare sti: interrupts were on already.
Sti(t) ==
    /\ Heal(t, "sti", IF depth - 1 < 0 THEN "clamp" ELSE "count")
    /\ depth' = depth - 1
    /\ Leaves(t)
    /\ UNCHANGED <<emulate, window, spc>>
    /\ lost' = ((lost \/ (lvl[t] = 0 /\ Regions /= {})) /\ ~Calm')

Clamp(t) ==
    /\ Heal(t, "clamp", "count")
    /\ depth' = 0
    /\ UNCHANGED <<emulate, window, lvl, spc>>
    /\ lost' = (lost /\ ~Calm')

\* IRQ_WINDOW_MS is over: a new window starts.
WindowEnds(t) ==
    /\ Heal(t, "count", "run")
    /\ window' = 0
    /\ UNCHANGED <<depth, emulate, lvl, spc, lost>>

\* Past Budget the count saturates: only whether it is past is asked.
InWindow(t) ==
    /\ Heal(t, "count", IF window + 1 > Budget THEN "degrade" ELSE "run")
    /\ window' = IF window > Budget THEN window ELSE window + 1
    /\ UNCHANGED <<depth, emulate, lvl, spc, lost>>

\* irq_degrade: the first thread to get there also opens the mask.
Degrade(t) ==
    /\ Heal(t, "degrade", IF emulate THEN "open" ELSE "run")
    /\ emulate' = FALSE
    /\ UNCHANGED <<depth, window, lvl, spc, lost>>

Open(t) ==
    /\ Heal(t, "open", "run")
    /\ depth' = 0
    /\ UNCHANGED <<emulate, window, lvl, spc, lost>>

HealStep(t) ==
    Cli(t) \/ Sti(t) \/ Clamp(t) \/ WindowEnds(t) \/ InWindow(t)
        \/ Degrade(t) \/ Open(t)

-----------------------------------------------------------------------------
\* game_irq_resync at the frame boundary.  A region of this thread that is
\* still open will not reach its sti any more.
Resync ==
    /\ Frame \in Game => hpc[Frame] = "run"
    /\ depth' = 0
    /\ lvl' = [t \in Cpus |-> IF t = Frame THEN 0 ELSE lvl[t]]
    /\ UNCHANGED <<heal, spc>>
    /\ lost' = ((lost \/ \E t \in Cpus \ {Frame} : lvl[t] > 0) /\ ~Calm')

\* A side thread comes to run game code, and game_irq_wait lets it.
Comes(s) ==
    /\ spc[s] = "out"
    /\ spc' = [spc EXCEPT ![s] = "wait"]
    /\ UNCHANGED <<depth, heal, lvl, lost>>

\* Mutant of Enter: the mask is tested for equality.
EnterUnlessOne(s) ==
    /\ spc[s] = "wait" /\ depth /= 1
    /\ spc' = [spc EXCEPT ![s] = "inside"]
    /\ UNCHANGED <<depth, heal, lvl, lost>>

Enter(s) ==
    /\ spc[s] = "wait" /\ depth <= 0
    /\ spc' = [spc EXCEPT ![s] = "inside"]
    /\ UNCHANGED <<depth, heal, lvl, lost>>

\* The wait's own deadline; the side thread proceeds anyway.
GivesUp(s) ==
    /\ spc[s] = "wait" /\ depth > 0
    /\ spc' = [spc EXCEPT ![s] = "inside"]
    /\ UNCHANGED <<depth, heal, lvl, lost>>

\* Its game code returns, out of every region it entered.
Returns(s) ==
    /\ spc[s] = "inside" /\ hpc[s] = "run" /\ lvl[s] = 0
    /\ spc' = [spc EXCEPT ![s] = "out"]
    /\ UNCHANGED <<depth, heal, lvl, lost>>

Next ==
    \/ \E t \in Cpus :
        \/ \E op \in {"cli", "sti"} : Fault(t, op) \/ Nop(t, op)
        \/ HealStep(t)
    \/ \E s \in Sides : Comes(s) \/ Enter(s) \/ GivesUp(s) \/ Returns(s)
    \/ Resync

Spec == Init /\ [][Next]_vars

-----------------------------------------------------------------------------
\* While the emulation is on, with any number of threads that execute cli and
\* sti and whichever of them swaps: a side thread that did not give up starts
\* game code only with every thread outside its cli regions, which is what cli
\* meant, unless a region met another thread's bare sti or frame boundary and
\* there was no moment without a region since; and a side thread gives up only on
\* a region that is open, whatever was lost: no depth is left over to wait out.
EntersOpen ==
    [][\A s \in Sides :
        /\ Enter(s) /\ emulate /\ ~lost => \A t \in Cpus : lvl[t] = 0
        /\ GivesUp(s) /\ emulate => \E t \in Cpus : lvl[t] > 0]_vars

\* With nothing lost the depth is the number of open regions, and with a bare sti
\* under way there are none.
DepthTells ==
    emulate /\ ~lost =>
        IF Clamping = {} THEN depth = Cardinality(Regions)
                         ELSE depth <= 0 /\ Regions = {}
=============================================================================
