------------------------------- MODULE MCClock -------------------------------
(* The three machines that keep time and share no state: the clock of the  *)
(* timebase, the control ticks with the wheel, and the frame budget.  The  *)
(* clock counts two ticks a second for three, sped up to four.             *)
EXTENDS Timebase, Sequences

CONSTANTS
    window, callback,
    Period, CatchUp, QueueMax, StampMin, LastPass, LastTime, Never,
    T, InbStart, PostStart, MarginStart, MarginMin,
    MarginMax, MarginStep, MarginDecay, Slack, Recover,
    ProbeMin, ProbeMax, LightInb, LightPost, LightStart,
    HeavyInb, HeavyPost, HeavyStart, Swaps

BothRead == {window, callback}

VARIABLES
    machine,
    wheelNow, due, stamp, prior, pass, queue, timer, handle, open, given, sent,
    base, calls,
    fpc, clock, t0, ti, prevTi, cinb, cpost, margin, drew, probing, streak,
    every, period, load, bet

Wh == INSTANCE WheelQueue WITH now <- wheelNow
Fb == INSTANCE FrameBudget

ASSUME ClockAssumption == Wh!WheelAssumption /\ Fb!BudgetAssumption

wheel == <<wheelNow, due, stamp, prior, pass, queue, timer, handle, open, given,
           sent, base, calls>>
budget == <<fpc, clock, t0, ti, prevTi, cinb, cpost, margin, drew, probing,
            streak, every, period, load, bet>>
clockVars == <<machine, vars, wheel, budget>>

ClockInit ==
    /\ machine \in {"timebase", "wheel", "budget"}
    /\ Init /\ Wh!Init /\ Fb!Init
    /\ machine # "wheel" => handle

\* All the machines but the one that steps stand still.
Ticking(A) == machine = "timebase" /\ A /\ UNCHANGED <<machine, wheel, budget>>
Pacing(A) == machine = "wheel" /\ A /\ UNCHANGED <<machine, vars, budget>>
Drawing(A) == machine = "budget" /\ A /\ UNCHANGED <<machine, vars, wheel>>

ClockNext == Ticking(Next) \/ Pacing(Wh!Next) \/ Drawing(Fb!Next)

\* The fairness of the modules, each in its own behaviours.
ClockSpec ==
    /\ ClockInit /\ [][ClockNext]_clockVars
    /\ WF_clockVars(Pacing(Wh!Elapse)) /\ WF_clockVars(Pacing(Wh!Deliver))
    /\ WF_clockVars(Drawing(Fb!TickStep))

\* What the modules state of their own behaviours.
InOrder == Wh!InOrder
Paced == Wh!Paced
Delivered == Wh!Delivered
InTime == Fb!InTime
FullRate == Fb!FullRate
=============================================================================
