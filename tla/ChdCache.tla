------------------------------ MODULE ChdCache -------------------------------
(***************************************************************************)
(* The hunk cache of chd.c: one reader, the decoder threads that work a    *)
(* window ahead of it along its plan, and slots that are reused by age     *)
(* unless somebody holds them.  Everything but the decoding itself runs    *)
(* under c->lock.  Hunks here are what resolve() leaves: references are    *)
(* followed and hunks of zeroes never reach the cache.                     *)
(***************************************************************************)
EXTENDS Integers, Sequences

CONSTANTS
    Hunks,
    Bad,         \* hunks whose decoding fails
    NSlots,      \* nslots
    Decoders,    \* the threads; none when jobs is 1
    Plans,       \* what chd_plan may be given, sequences of hunks
    Window,      \* window
    Look,        \* how far from plan_at a hunk is looked for
    NoSlot,      \* -1
    Torn         \* what a slot holds while it is decoded into

ChdAssumption ==
    /\ Bad \subseteq Hunks /\ NSlots \in Nat \ {0}
    /\ Plans \subseteq Seq(Hunks)
    /\ Window \in Nat /\ Look \in Nat
    /\ NoSlot \notin 1 .. NSlots /\ Torn \notin Hunks

VARIABLES
    slot,      \* slots: hunk, state, pins
    bytes,     \* whose bytes each slot holds
    lru,       \* the slots, oldest first
    where,     \* where: hunk to slot
    todo,      \* queue: slots that wait for a decoder
    plan,      \* plan
    planAt, planSub,   \* plan_at, plan_sub, from 1
    stop,      \* stop
    dpc,       \* a decoder: where it is, and the slot it decodes into
    rd         \* the reader: where it is, its hunk and slot

chdVars == <<slot, bytes, lru, where, todo, plan, planAt, planSub, stop, dpc, rd>>

Slots == 1 .. NSlots
ReaderPlaces == {"idle", "submit", "look", "asleep", "decode", "using",
                 "closing", "closed"}

ChdTypeOK ==
    /\ slot \in [Slots -> [hunk : Hunks \cup {Torn}, pins : Int,
                           state : {"free", "pending", "ready", "failed"}]]
    /\ bytes \in [Slots -> Hunks \cup {Torn}]
    /\ lru \in [Slots -> Slots]
    /\ where \in [Hunks -> Slots \cup {NoSlot}]
    /\ todo \in Seq(Slots)
    /\ plan \in Plans \cup {<<>>} /\ planAt \in Nat /\ planSub \in Nat
    /\ stop \in BOOLEAN
    /\ dpc \in [Decoders -> [at : {"up", "asleep", "decoding", "ended"},
                           slot : Slots \cup {NoSlot}]]
    /\ rd \in [at : ReaderPlaces, hunk : Hunks, slot : Slots \cup {NoSlot}]

Init ==
    /\ slot = [s \in Slots |-> [hunk |-> Torn, state |-> "free", pins |-> 0]]
    /\ bytes = [s \in Slots |-> Torn]
    /\ lru = [i \in Slots |-> i]
    /\ where = [h \in Hunks |-> NoSlot]
    /\ todo = <<>> /\ plan = <<>> /\ planAt = 1 /\ planSub = 1
    /\ stop = FALSE
    /\ dpc = [d \in Decoders |-> [at |-> "up", slot |-> NoSlot]]
    /\ rd \in [at : {"idle"}, hunk : Hunks, slot : {NoSlot}]

----------------------------------------------------------------------------
\* lru_touch: s is taken out of its place and becomes the newest.
Place(s) == CHOOSE i \in Slots : lru[i] = s
Touched(s) ==
    [i \in Slots |-> IF i < Place(s) THEN lru[i]
                     ELSE IF i < NSlots THEN lru[i + 1] ELSE s]

\* Mutant of Takeable: a slot that waits for its decoder is taken as well.
TakeableAny(s) == slot[s].pins <= 1

Takeable(s) == slot[s].pins = 0 /\ slot[s].state # "pending"
CanTake == \E s \in Slots : Takeable(s)
Oldest == lru[CHOOSE i \in Slots : /\ Takeable(lru[i])
                                   /\ \A j \in 1 .. i - 1 : ~Takeable(lru[j])]

\* slot_take: the oldest slot nobody holds becomes hunk h's.
Take(h) ==
    /\ CanTake
    /\ slot' = [slot EXCEPT ![Oldest] =
                    [hunk |-> h, state |-> "pending", pins |-> 1]]
    /\ where' = [g \in Hunks |->
                    IF g = h THEN Oldest
                    ELSE IF g = slot[Oldest].hunk THEN NoSlot ELSE where[g]]
    /\ lru' = Touched(Oldest)

Outcome(s) == IF slot[s].hunk \in Bad THEN "failed" ELSE "ready"

\* The reader keeps the lock while it submits.
LockFree == rd.at # "submit"

----------------------------------------------------------------------------
\* The reader.

\* chd_plan, between reads: what was queued stays queued.
Plan(p) ==
    /\ rd.at = "idle"
    /\ plan' = p /\ planAt' = 1 /\ planSub' = 1
    /\ UNCHANGED <<slot, bytes, lru, where, todo, stop, dpc, rd>>

\* Where the plan says the reader is, not far from where it was.
Planned(h) ==
    {i \in planAt .. Len(plan) :
        /\ i <= planAt + Look /\ plan[i] = h
        /\ \A j \in planAt .. i - 1 : plan[j] # h}

\* hunk_get
Get(h) ==
    /\ rd.at = "idle"
    /\ IF Decoders # {} /\ Planned(h) # {}
          THEN \E i \in Planned(h) :
                  /\ planAt' = i
                  /\ planSub' = IF planSub < i THEN i ELSE planSub
                  /\ rd' = [rd EXCEPT !.at = "submit", !.hunk = h]
          ELSE /\ rd' = [rd EXCEPT !.at = "look", !.hunk = h]
               /\ UNCHANGED <<planAt, planSub>>
    /\ UNCHANGED <<slot, bytes, lru, where, todo, plan, stop, dpc>>

ToSubmit ==
    rd.at = "submit" /\ planSub < planAt + Window /\ planSub <= Len(plan)
Held(h) == where[h] # NoSlot

Sleepers == {d \in Decoders : dpc[d].at = "asleep"}
WakesOne ==
    IF Sleepers = {} THEN UNCHANGED dpc
    ELSE \E d \in Sleepers : dpc' = [dpc EXCEPT ![d].at = "up"]

\* One turn of plan_submit.
Submit ==
    /\ ToSubmit
    /\ planSub' = planSub + 1
    /\ IF Held(plan[planSub])
          THEN UNCHANGED <<slot, lru, where, todo, dpc>>
          ELSE /\ Take(plan[planSub])
               /\ todo' = Append(todo, Oldest)
               /\ WakesOne
    /\ UNCHANGED <<bytes, plan, planAt, stop, rd>>

SubmitDone ==
    rd.at = "submit" /\ (ToSubmit => ~Held(plan[planSub]) /\ ~CanTake)

State == IF Held(rd.hunk) THEN slot[where[rd.hunk]].state ELSE "absent"
Turn == (rd.at = "look" \/ SubmitDone)
        /\ UNCHANGED <<todo, plan, planAt, planSub, stop, dpc>>

Found ==
    /\ Turn /\ State = "ready"
    /\ slot' = [slot EXCEPT ![where[rd.hunk]].pins = @ + 1]
    /\ lru' = Touched(where[rd.hunk])
    /\ rd' = [rd EXCEPT !.at = "using", !.slot = where[rd.hunk]]
    /\ UNCHANGED <<bytes, where>>

Sleeps ==
    /\ Turn
    /\ State = "pending" \/ (State = "absent" /\ ~CanTake)
    /\ rd' = [rd EXCEPT !.at = "asleep"]
    /\ UNCHANGED <<slot, bytes, lru, where>>

FoundBad ==
    /\ Turn /\ State = "failed"
    /\ rd' = [rd EXCEPT !.at = "idle"]
    /\ UNCHANGED <<slot, bytes, lru, where>>

DecodesItself ==
    /\ Turn /\ State = "absent" /\ Take(rd.hunk)
    /\ bytes' = [bytes EXCEPT ![Oldest] = Torn]
    /\ rd' = [rd EXCEPT !.at = "decode", !.slot = Oldest]

Decoded ==
    /\ rd.at = "decode"
    /\ bytes' = [bytes EXCEPT ![rd.slot] = rd.hunk]
    /\ LET end == Outcome(rd.slot)
       IN  /\ slot' = [slot EXCEPT ![rd.slot].state = end,
                                   ![rd.slot].pins = IF end = "ready" THEN 1 ELSE 0]
           /\ rd' = [rd EXCEPT !.at = IF end = "ready" THEN "using" ELSE "idle"]
    /\ UNCHANGED <<lru, where, todo, plan, planAt, planSub, stop, dpc>>

\* The bytes are copied out; hunk_put
Put ==
    /\ rd.at = "using"
    /\ slot' = [slot EXCEPT ![rd.slot].pins = @ - 1]
    /\ rd' = [rd EXCEPT !.at = "idle", !.slot = NoSlot]
    /\ UNCHANGED <<bytes, lru, where, todo, plan, planAt, planSub, stop, dpc>>

\* chd_close stops the decoders and joins them.
Close ==
    /\ rd.at = "idle"
    /\ stop' = TRUE
    /\ dpc' = [d \in Decoders |->
                IF d \in Sleepers THEN [dpc[d] EXCEPT !.at = "up"] ELSE dpc[d]]
    /\ rd' = [rd EXCEPT !.at = "closing"]
    /\ UNCHANGED <<slot, bytes, lru, where, todo, plan, planAt, planSub>>

Joined ==
    /\ rd.at = "closing" /\ \A d \in Decoders : dpc[d].at = "ended"
    /\ rd' = [rd EXCEPT !.at = "closed"]
    /\ UNCHANGED <<slot, bytes, lru, where, todo, plan, planAt, planSub, stop,
                   dpc>>

----------------------------------------------------------------------------
\* A decoder, worker_main.

Rests(d) ==
    /\ LockFree /\ dpc[d].at = "up"
    /\ \/ stop /\ dpc' = [dpc EXCEPT ![d].at = "ended"]
       \/ ~stop /\ todo = <<>> /\ dpc' = [dpc EXCEPT ![d].at = "asleep"]
    /\ UNCHANGED <<slot, bytes, lru, where, todo, plan, planAt, planSub, stop, rd>>

Begins(d) ==
    /\ LockFree /\ dpc[d].at = "up" /\ ~stop /\ todo # <<>>
    /\ dpc' = [dpc EXCEPT ![d] = [at |-> "decoding", slot |-> Head(todo)]]
    /\ todo' = Tail(todo)
    /\ bytes' = [bytes EXCEPT ![Head(todo)] = Torn]
    /\ UNCHANGED <<slot, lru, where, plan, planAt, planSub, stop, rd>>

\* Mutant of Wakes: a hunk that could not be decoded wakes nobody.
WakesWhenGood(s) ==
    rd' = IF rd.at = "asleep" /\ Outcome(s) = "ready"
          THEN [rd EXCEPT !.at = "look"] ELSE rd

Wakes(s) == rd' = IF rd.at = "asleep" THEN [rd EXCEPT !.at = "look"] ELSE rd

\* slot_done
Finishes(d) ==
    /\ LockFree /\ dpc[d].at = "decoding"
    /\ LET s == dpc[d].slot
       IN  /\ bytes' = [bytes EXCEPT ![s] = slot[s].hunk]
           /\ slot' = [slot EXCEPT ![s].state = Outcome(s), ![s].pins = @ - 1]
           /\ Wakes(s)
    /\ dpc' = [dpc EXCEPT ![d] = [at |-> "up", slot |-> NoSlot]]
    /\ UNCHANGED <<lru, where, todo, plan, planAt, planSub, stop>>

DecoderStep(d) == Rests(d) \/ Begins(d) \/ Finishes(d)
Reading ==
    Submit \/ Found \/ Sleeps \/ FoundBad \/ DecodesItself \/ Decoded \/ Joined

Next ==
    \/ Reading \/ Put \/ Close
    \/ (\E p \in Plans : Plan(p)) \/ (\E h \in Hunks : Get(h))
    \/ \E d \in Decoders : DecoderStep(d)

\* Every thread is scheduled.
Fairness ==
    /\ WF_chdVars(Reading)
    /\ \A d \in Decoders : WF_chdVars(DecoderStep(d))
Spec == Init /\ [][Next]_chdVars /\ Fairness

----------------------------------------------------------------------------
\* What the reader copies out are its hunk's bytes: the slot was not given away
\* and no decoder writes into it.
RightHunk == rd.at = "using" => bytes[rd.slot] = rd.hunk

\* A read ends, with the hunk or with an error, whatever the window asked for
\* before it and whichever hunks are bad; and a close ends.
ReadEnds ==
    rd.at \notin {"idle", "using", "closed"} ~> rd.at \in {"idle", "using", "closed"}
=============================================================================
