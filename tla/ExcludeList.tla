----------------------------- MODULE ExcludeList -----------------------------
(***************************************************************************)
(* The ranges of memory that drawreplay.c holds out of the blend because   *)
(* SlideST steps them: a sorted array of limited length, merged as ranges  *)
(* meet, searched by halves, each range forgotten some ticks after its     *)
(* last write and the stalest one when the array is full.                  *)
(***************************************************************************)
EXTENDS Integers, Sequences, SequencesExt, FiniteSets

CONSTANTS
    Addresses,   \* bound: addresses are 0 .. Addresses - 1
    ExMax,       \* EX_MAX
    ExTtl,       \* EX_TTL
    LastExpiry   \* bound: calls of ex_expire

ExcludeAssumption ==
    /\ Addresses \in Nat /\ ExMax \in Nat \ {0}
    /\ ExTtl \in Nat /\ LastExpiry \in Nat

VARIABLES
    ex,       \* s_ex and s_ex_seen
    exNow,    \* s_ex_now
    stepped   \* the tick that last wrote an address; -1: never, or let go

excludeVars == <<ex, exNow, stepped>>

Address == 0 .. Addresses - 1
ExRange == [lo : Address, hi : 1 .. Addresses, seen : 0 .. LastExpiry]

ExTypeOK ==
    /\ ex \in Seq(ExRange) /\ Len(ex) <= ExMax
    /\ exNow \in 0 .. LastExpiry
    /\ stepped \in [Address -> -1 .. LastExpiry]

Init == ex = <<>> /\ exNow = 0 /\ stepped = [a \in Address |-> -1]

----------------------------------------------------------------------------
\* Ranges that end before lo, and those that overlap or touch lo .. hi.
Before(lo) == Cardinality({j \in DOMAIN ex : ex[j].hi < lo})
Meets(lo, hi) == {j \in DOMAIN ex : ex[j].hi >= lo /\ ex[j].lo <= hi}

\* Mutant of Merged: only the first of them is taken in.
MergedFirst(lo, hi, i) ==
    LET first == ex[i + 1]
    IN  ReplaceAt(ex, i + 1,
            [lo |-> IF first.lo < lo THEN first.lo ELSE lo,
             hi |-> IF first.hi > hi THEN first.hi ELSE hi, seen |-> exNow])

\* They become one range, written now.
Merged(lo, hi, i) ==
    LET n == Cardinality(Meets(lo, hi))
        first == ex[i + 1]
        final == ex[i + n]
    IN  SubSeq(ex, 1, i)
            \o <<[lo |-> IF first.lo < lo THEN first.lo ELSE lo,
                  hi |-> IF final.hi > hi THEN final.hi ELSE hi,
                  seen |-> exNow]>>
            \o SubSeq(ex, i + n + 1, Len(ex))

\* The first of the ranges that were not written for longest.
Stalest ==
    CHOOSE k \in DOMAIN ex :
        \A j \in DOMAIN ex :
            ex[j].seen > ex[k].seen \/ (ex[j].seen = ex[k].seen /\ j >= k)

\* Taking range k out moves the places behind it.
Shift(i, k) == IF k <= i THEN i - 1 ELSE i

\* A full list lets its stalest range go.
Inserted(lo, hi, i) ==
    LET new == [lo |-> lo, hi |-> hi, seen |-> exNow]
    IN  IF Len(ex) < ExMax THEN InsertAt(ex, i + 1, new)
        ELSE InsertAt(RemoveAt(ex, Stalest), Shift(i, Stalest) + 1, new)

Spans(r) == r.lo .. (r.hi - 1)

\* exclude_range, of SlideST.
Exclude(lo, hi) ==
    /\ lo < hi
    /\ ex' = IF Meets(lo, hi) # {} THEN Merged(lo, hi, Before(lo))
             ELSE Inserted(lo, hi, Before(lo))
    /\ stepped' = [a \in Address |->
           IF a \in lo .. (hi - 1) THEN exNow
           ELSE IF Meets(lo, hi) = {} /\ Len(ex) = ExMax /\ a \in Spans(ex[Stalest])
           THEN -1 ELSE stepped[a]]
    /\ UNCHANGED exNow

\* The loop of ex_expire from a place on, behind the ranges it has kept.
KeptFrom[c \in (1 .. ExMax + 1) \X Seq(ExRange)] ==
    LET at == c[1]
        kept == c[2]
    IN  IF at > Len(ex) THEN kept
        ELSE IF exNow + 1 - ex[at].seen <= ExTtl
        THEN KeptFrom[<<at + 1, Append(kept, ex[at])>>]
        ELSE KeptFrom[<<at + 1, kept>>]

\* ex_expire, once a tick before the blend.
Expire ==
    /\ exNow < LastExpiry
    /\ exNow' = exNow + 1
    /\ ex' = KeptFrom[<<1, <<>>>>]
    /\ UNCHANGED stepped

Next ==
    \/ \E lo \in Address, hi \in 1 .. Addresses : Exclude(lo, hi)
    \/ Expire

Spec == Init /\ [][Next]_excludeVars

----------------------------------------------------------------------------
\* The loop of excluded: an address, and the places lo and hi.
SearchFrom[c \in Address \X (0 .. ExMax) \X (0 .. ExMax)] ==
    LET a == c[1]
        lo == c[2]
        hi == c[3]
        mid == (lo + hi) \div 2
    IN  IF lo >= hi THEN FALSE
        ELSE IF a < ex[mid + 1].lo THEN SearchFrom[<<a, lo, mid>>]
        ELSE IF a >= ex[mid + 1].hi THEN SearchFrom[<<a, mid + 1, hi>>]
        ELSE TRUE
Search(a) == SearchFrom[<<a, 0, Len(ex)>>]

\* What was stepped in the last ticks is found by the search, however ranges
\* grew together and whichever one had to go; and nothing that was never
\* stepped is.
FoundWhileFresh ==
    \A a \in Address :
        /\ (stepped[a] # -1 /\ exNow - stepped[a] <= ExTtl) => Search(a)
        /\ Search(a) => stepped[a] # -1
=============================================================================
