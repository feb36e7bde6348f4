----------------------------- MODULE FrameBudget -----------------------------
(***************************************************************************)
(* The frame budget of drawreplay.c: whether a tick has room for an        *)
(* in-between picture, from what the last ones cost, and how long the two  *)
(* pictures are held.  Times are whole units into the tick, T is the       *)
(* tick's length.  A running average moves some way towards a new value:   *)
(* which part of it is left open.                                          *)
(***************************************************************************)
EXTENDS Integers

CONSTANTS
    T,                                \* fb_tick, even
    InbStart, PostStart, MarginStart, \* what is assumed before anything is learnt
    MarginMin, MarginMax, MarginStep, MarginDecay, Slack,
    Recover,                          \* FB_RECOVER
    ProbeMin, ProbeMax,               \* FB_PROBE_MIN, FB_PROBE_MAX
    LightInb, LightPost, LightStart,  \* costs while the host keeps up:
                                      \* in-between, real draw, the game before it
    HeavyInb, HeavyPost, HeavyStart,  \* costs at a load
    Swaps                             \* costs of the real swap

BudgetAssumption ==
    /\ T \in Nat \ {0} /\ T % 2 = 0
    /\ {MarginMin, MarginMax, MarginStep, MarginDecay, Slack, Recover} \subseteq Nat
    /\ {InbStart, PostStart} \subseteq Nat
    /\ MarginStart \in MarginMin .. MarginMax
    /\ ProbeMin \in Nat \ {0} /\ ProbeMax \in Nat /\ ProbeMin <= ProbeMax
    /\ LightInb \cup LightPost \cup LightStart \subseteq Nat
    /\ HeavyInb \cup HeavyPost \cup HeavyStart \cup Swaps \subseteq Nat

VARIABLES
    fpc,       \* where the tick is
    clock,     \* fb_now
    t0, ti,    \* s_fb_t0, s_fb_ti
    prevTi,    \* s_fb_prev_ti, -1 for none
    cinb,      \* s_fb_cinb
    cpost,     \* s_fb_cpost
    margin,    \* s_fb_margin
    drew,      \* s_fb_drew
    probing,   \* s_fb_probing
    streak,    \* s_fb_streak
    every,     \* s_fb_probe_every
    period,    \* from the last stamp to this one
    load,      \* whether the host keeps up
    bet        \* what fb_begin trusted, and whether the costs stayed within it

learnt == <<cinb, cpost, margin, every>>
budgetVars == <<fpc, clock, t0, ti, prevTi, learnt, drew, probing, streak,
                period, load, bet>>

Least(a, b) == IF a < b THEN a ELSE b
Most(a, b) == IF a < b THEN b ELSE a
HalfT == T \div 2

Inb == IF load = "light" THEN LightInb ELSE HeavyInb
Post == IF load = "light" THEN LightPost ELSE HeavyPost
Start == IF load = "light" THEN LightStart ELSE HeavyStart

BudgetTypeOK ==
    /\ fpc \in {"begin", "inb", "real", "swap"}
    /\ clock \in Nat /\ t0 \in Nat /\ ti \in Nat /\ prevTi \in Nat \cup {-1}
    /\ cinb \in Nat /\ cpost \in Nat
    /\ margin \in MarginMin .. MarginMax
    /\ drew \in BOOLEAN /\ probing \in BOOLEAN
    /\ streak \in 0 .. 2 * ProbeMax
    /\ every \in ProbeMin .. 2 * ProbeMax
    /\ period \in Nat /\ load \in {"light", "heavy"}
    /\ bet \in [inb : Nat, post : Nat, kept : BOOLEAN, held : BOOLEAN]

Init ==
    /\ fpc = "begin" /\ clock = 0 /\ t0 = 0 /\ ti = 0 /\ prevTi = -1
    /\ cinb = InbStart /\ cpost = PostStart /\ margin = MarginStart
    /\ drew = FALSE /\ probing = FALSE /\ streak = 0 /\ every = ProbeMin
    /\ period = T /\ load = "light"
    /\ bet = [inb |-> 0, post |-> 0, kept |-> TRUE, held |-> FALSE]

----------------------------------------------------------------------------
\* Mutant of Fits: a probe is judged by what the last ones cost.
FitsLearnt(cost) == t0' + cinb + Most(cpost, HalfT) + margin' <= T

\* fb_fits
Fits(cost) == t0' + cost + Most(cpost, HalfT) + margin' <= T

\* Twice T or more is a load or a pause, not an overrun.
LearnsMargin ==
    margin' =
        IF period > T + Slack
        THEN IF drew /\ period < 2 * T
             THEN Least(MarginMax, margin + Least(period - T, MarginStep) + Slack)
             ELSE margin
        ELSE Most(MarginMin, margin - MarginDecay)

\* fb_begin.  The count of skipped ticks is only compared with every.
Begin ==
    /\ fpc = "begin"
    /\ LearnsMargin
    /\ prevTi' = IF drew THEN ti ELSE -1
    /\ t0' \in Start /\ clock' = t0'
    /\ drew' = FALSE
    /\ bet' = [inb |-> cinb, post |-> cpost, kept |-> TRUE, held |-> FALSE]
    /\ \/ /\ Fits(cinb)
          /\ streak' = 0 /\ probing' = FALSE /\ fpc' = "inb"
       \/ /\ ~Fits(cinb) /\ streak + 1 >= every /\ Fits(0)
          /\ streak' = 0 /\ probing' = TRUE /\ fpc' = "inb"
       \/ /\ ~Fits(cinb) /\ ~(streak + 1 >= every /\ Fits(0))
          /\ streak' = Least(streak + 1, 2 * ProbeMax)
          /\ probing' = FALSE /\ fpc' = "real"
    /\ UNCHANGED <<ti, cinb, cpost, every, period, load>>

\* An average moves from old towards new: some way at each value, in the end
\* all of it.
Average(old, new) ==
    IF old = new THEN {new} ELSE (Least(old, new) .. Most(old, new)) \ {old}

\* Mutant of HoldUntil: the margin is forgotten.
HoldToHalf == Least(prevTi - Recover, HalfT)

\* How long present_inbetween holds a picture that is ready.
HoldUntil == Least(prevTi - Recover, HalfT - margin)

\* present_inbetween and fb_presented
Present ==
    /\ fpc = "inb" /\ fpc' = "real"
    /\ \E c \in Inb :
          LET held == prevTi >= 0 /\ HoldUntil > t0 + c
          IN  /\ ti' = IF held THEN HoldUntil ELSE t0 + c
              /\ clock' = ti'
              /\ cinb' \in IF probing THEN {c} ELSE Average(cinb, c)
              /\ bet' = [bet EXCEPT !.kept = c <= bet.inb, !.held = held]
    /\ drew' = TRUE
    /\ UNCHANGED <<t0, prevTi, cpost, margin, every, probing, streak, period,
                   load>>

\* There is room, but nothing to draw or nothing to show: a movie, a tick that
\* was lost, a camera cut, a fault.
Lose ==
    /\ fpc = "inb" /\ fpc' = "real"
    /\ load = "heavy"
    /\ \E c \in Inb : clock' = t0 + c
    /\ UNCHANGED <<t0, ti, prevTi, learnt, drew, probing, streak, period, load,
                   bet>>

\* fb_wait_real
Ready(p) ==
    /\ fpc = "real" /\ drew /\ fpc' = "swap"
    /\ cpost' \in IF probing THEN {p} ELSE Average(cpost, p)
    /\ every' = IF ~probing THEN every
                ELSE IF t0 + cinb + Most(cpost', HalfT) + margin <= T THEN ProbeMin
                ELSE IF every < ProbeMax THEN 2 * every ELSE every
    /\ clock' = Most(ti + p, Least(ti + HalfT, T - margin))
    /\ bet' = [bet EXCEPT !.kept = @ /\ p <= bet.post]
    /\ UNCHANGED <<t0, ti, prevTi, cinb, margin, drew, probing, streak, period,
                   load>>

ReadyAlone(p) ==
    /\ fpc = "real" /\ ~drew /\ fpc' = "swap"
    /\ clock' = clock + p
    /\ UNCHANGED <<t0, ti, prevTi, learnt, drew, probing, streak, period, load,
                   bet>>

\* The swap and the limiter's spin, or a load between two ticks.
Swap ==
    /\ fpc = "swap" /\ fpc' = "begin"
    /\ \/ \E s \in Swaps : period' = Most(T, clock + s)
       \/ load = "heavy" /\ period' = 2 * T
    /\ UNCHANGED <<clock, t0, ti, prevTi, learnt, drew, probing, streak, load,
                   bet>>

LoadChanges ==
    /\ fpc = "begin"
    /\ load' = IF load = "light" THEN "heavy" ELSE "light"
    /\ UNCHANGED <<fpc, clock, t0, ti, prevTi, learnt, drew, probing, streak,
                   period, bet>>

TickStep ==
    \/ Begin \/ Present \/ Lose \/ Swap
    \/ \E p \in Post : Ready(p) \/ ReadyAlone(p)

Next == TickStep \/ LoadChanges

\* The game's loop goes on.
Fairness == WF_budgetVars(TickStep)
Spec == Init /\ [][Next]_budgetVars /\ Fairness

----------------------------------------------------------------------------
\* An in-between is only drawn where the real picture then goes up with the
\* margin to spare, as long as both cost what the budget expected: however
\* long either was held.  Probes are on their own, and a held in-between is
\* covered only while the real draw takes no more than half a tick.
InTime ==
    (/\ fpc = "swap" /\ drew /\ ~probing /\ bet.kept
     /\ (bet.held => bet.post <= HalfT)) => clock <= T - margin

\* A budget that a load has made to skip every tick learns that the costs are
\* down again: once the host keeps up for good, so does the picture.
FullRate == <>[](load = "light") => <>[](fpc = "swap" => drew)
=============================================================================
