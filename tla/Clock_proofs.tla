---------------------------- MODULE Clock_proofs ----------------------------
(***************************************************************************)
(* Proofs about the machines that keep time, for every behaviour length    *)
(* and every value of the constants.  The clock: every pair of rates,      *)
(* every nesting of pauses and every set of threads that read, for the     *)
(* reads that no edge of a pause meets (the run timebase_callback shows    *)
(* one that an edge meets).  The control ticks and the wheel's queue:      *)
(* every period, burst and queue length.  The frame budget: every tick     *)
(* length and every cost.                                                  *)
(***************************************************************************)
EXTENDS MCClock, WellFoundedInduction, TLAPS

\* Euclidean division, in the form the provers need it.
LEMMA DivMod ==
    ASSUME NEW n \in Nat, n > 0, NEW r \in Nat
    PROVE  /\ r \div n \in Nat /\ r % n \in Nat /\ r % n < n
           /\ r = (n * (r \div n)) + (r % n)
  OBVIOUS

\* Multiplication by a natural number is monotonic.
LEMMA MulMono ==
    ASSUME NEW i \in Nat, NEW j \in Nat, i <= j, NEW q \in Nat
    PROVE  i * q <= j * q /\ i * q \in Nat /\ j * q \in Nat
  OBVIOUS

\* Division by a natural number is monotonic, and undoes multiplication.
LEMMA DivMono ==
    ASSUME NEW n \in Nat, n > 0, NEW i \in Nat, NEW j \in Nat, i <= j
    PROVE  i \div n <= j \div n
<1> DEFINE a == i \div n
           b == j \div n
<1>1. a \in Nat /\ b \in Nat /\ i >= n * a /\ i < (n * a) + n
      /\ j >= n * b /\ j < (n * b) + n
  BY DivMod
<1> HIDE DEF a, b
<1>2. SUFFICES ASSUME a > b PROVE FALSE
  BY <1>1 DEF a, b
<1>3. (b + 1) * n <= a * n
  BY <1>1, <1>2, MulMono
<1>4. (n * b) + n <= n * a
  BY <1>1, <1>3
<1> QED BY <1>1, <1>4

\* A rate is a natural number, and the counter's frequency is not zero.
LEMMA Rates == ClockHz \in Nat /\ Qpf \in Nat /\ Qpf > 0
<1>1. ASSUME NEW k \in Nat PROVE (TargetHz * k) \div 100 \in Nat
  <2>1. TargetHz * k \in Nat
    BY TimeAssumption
  <2> QED BY <2>1, DivMod
<1>2. (IF SpeedPercent \in 25 .. 400 THEN SpeedPercent ELSE 100) \in Nat
  BY TimeAssumption
<1> QED BY <1>1, <1>2, TimeAssumption DEF ClockHz

\* The remainder's share of a second is at most a second's worth of ticks.
LEMMA FractionBound ==
    ASSUME NEW r \in Nat, r < Qpf
    PROVE  (r * ClockHz) \div Qpf \in Nat /\ (r * ClockHz) \div Qpf <= ClockHz
<1>1. r * ClockHz <= Qpf * ClockHz /\ r * ClockHz \in Nat
      /\ Qpf * ClockHz \in Nat
  BY Rates, MulMono
<1>2. (Qpf * ClockHz) \div Qpf = ClockHz
  BY Rates
<1> QED BY <1>1, <1>2, Rates, DivMono, DivMod

\* synth_ticks never counts less for a longer time, across the boundary of a
\* second included, where the remainder starts over.
LEMMA TicksMonotonic ==
    ASSUME NEW a \in Nat, NEW b \in Nat, a <= b
    PROVE  Ticks(a) \in Nat /\ Ticks(b) \in Nat /\ Ticks(a) <= Ticks(b)
<1> DEFINE sa == a \div Qpf
           sb == b \div Qpf
           ra == a % Qpf
           rb == b % Qpf
           fa == (ra * ClockHz) \div Qpf
           fb == (rb * ClockHz) \div Qpf
<1>1. /\ sa \in Nat /\ sb \in Nat /\ ra \in Nat /\ rb \in Nat
      /\ ra < Qpf /\ rb < Qpf
      /\ a = (Qpf * sa) + ra /\ b = (Qpf * sb) + rb
  BY Rates, DivMod
<1>2. sa <= sb
  BY Rates, DivMono
<1>3. fa \in Nat /\ fb \in Nat /\ fa <= ClockHz
  BY <1>1, FractionBound
<1>4. sa = sb => fa <= fb
  <2> SUFFICES ASSUME sa = sb PROVE fa <= fb
    OBVIOUS
  <2>1. ra <= rb
    <3> HIDE DEF sa, sb, ra, rb
    <3>1. Qpf * sa = Qpf * sb
      OBVIOUS
    <3>2. Qpf * sa \in Nat
      BY <1>1, Rates
    <3> QED BY <1>1, <3>1, <3>2
  <2>2. ra * ClockHz <= rb * ClockHz /\ ra * ClockHz \in Nat
        /\ rb * ClockHz \in Nat
    BY <1>1, <2>1, Rates, MulMono
  <2> QED BY <2>2, Rates, DivMono
<1>5. sa * ClockHz \in Nat /\ sb * ClockHz \in Nat
  BY <1>1, Rates, MulMono
<1>6. sa < sb => (sa * ClockHz) + ClockHz <= sb * ClockHz
  <2> SUFFICES ASSUME sa < sb PROVE (sa * ClockHz) + ClockHz <= sb * ClockHz
    OBVIOUS
  <2> HIDE DEF sa, sb
  <2>1. (sa + 1) * ClockHz <= sb * ClockHz
    BY <1>1, Rates, MulMono
  <2>2. (sa + 1) * ClockHz = (sa * ClockHz) + ClockHz
    BY <1>1, Rates
  <2> QED BY <2>1, <2>2
<1>7. Ticks(a) = (sa * ClockHz) + fa /\ Ticks(b) = (sb * ClockHz) + fb
  BY DEF Ticks
<1> HIDE DEF sa, sb, ra, rb, fa, fb
<1> QED BY <1>1, <1>2, <1>3, <1>4, <1>5, <1>6, <1>7, Rates

-----------------------------------------------------------------------------
\* How far the clock has come, seen from the window thread.
Elapsed == IF depth > 0 \/ ppc = "measured" THEN mark - epoch
           ELSE IF ppc = "moved" THEN end - epoch
           ELSE qpc - epoch

\* The places of timebase_pause and what its variables say there.
Pausing ==
    /\ ppc = "marked" => depth = 1
    /\ ppc \in {"measured", "moved"} => depth = 0
    /\ paused <=> ppc \in {"measured", "moved"} \/ (ppc = "out" /\ depth > 0)
    /\ 0 <= Elapsed /\ Elapsed <= qpc /\ 0 <= epoch
    /\ depth > 0 => mark <= qpc
    /\ ppc \in {"measured", "moved"} => mark <= end /\ end <= qpc

\* How long the clock has stood still is what the epoch has moved, or is to.
Accounts ==
    held = IF depth > 0 THEN epoch + (qpc - mark)
           ELSE IF ppc = "measured" THEN epoch + (end - mark)
           ELSE epoch

\* A read that no edge of a pause met goes on between two edges: what it found
\* in s_paused still holds, and what it computes is what it should.
Reading ==
    \A r \in Readers :
        rpc[r] /= "out" /\ r \notin met =>
            /\ ppc = "out"
            /\ rpc[r] = "held" => paused
            /\ rpc[r] = "live" => ~paused
            /\ rpc[r] = "epoch" => now[r] - epoch = ideal[r] /\ ideal[r] <= qpc

IInv == TypeOK /\ Pausing /\ Accounts /\ Reading

\* The clock has stood still for no longer than it has run.
LEMMA HeldBound ==
    ASSUME TypeOK, Pausing, Accounts
    PROVE  qpc - held \in 0 .. MaxQpc
BY TimeAssumption DEF TypeOK, Pausing, Accounts, Elapsed

\* Every step preserves the invariant, whichever threads read.
LEMMA ClockInductive ==
    ASSUME IInv, [Next]_vars
    PROVE  IInv'
<1> USE TimeAssumption DEF IInv
<1>1. CASE Elapse
  <2>1. TypeOK'
    BY <1>1 DEF TypeOK, Pausing, Elapsed, Accounts, Elapse, pause, reads
  <2>2. Pausing'
    BY <1>1 DEF TypeOK, Pausing, Elapsed, Elapse, pause, reads
  <2>3. Accounts'
    BY <1>1 DEF TypeOK, Pausing, Elapsed, Accounts, Elapse, pause, reads
  <2>4. Reading'
    BY <1>1 DEF TypeOK, Pausing, Reading, Elapse, pause, reads
  <2> QED BY <2>1, <2>2, <2>3, <2>4
<1>2. CASE PauseNested
  <2>1. TypeOK'
    BY <1>2 DEF TypeOK, Pausing, Elapsed, Accounts, PauseNested, reads
  <2>2. Pausing'
    BY <1>2 DEF TypeOK, Pausing, Elapsed, PauseNested, reads
  <2>3. Accounts'
    BY <1>2 DEF TypeOK, Pausing, Elapsed, Accounts, PauseNested, reads
  <2>4. Reading'
    BY <1>2 DEF TypeOK, Pausing, Reading, PauseNested, reads
  <2> QED BY <2>1, <2>2, <2>3, <2>4
<1>3. CASE PauseBegins
  <2>1. TypeOK'
    BY <1>3 DEF TypeOK, Pausing, Elapsed, Accounts, PauseBegins, MeetsEdge
  <2>2. Pausing'
    BY <1>3 DEF TypeOK, Pausing, Elapsed, PauseBegins, MeetsEdge
  <2>3. Accounts'
    BY <1>3 DEF TypeOK, Pausing, Elapsed, Accounts, PauseBegins, MeetsEdge
  <2>4. Reading'
    BY <1>3 DEF TypeOK, Pausing, Reading, PauseBegins, MeetsEdge
  <2> QED BY <2>1, <2>2, <2>3, <2>4
<1>4. CASE PauseSet
  <2>1. TypeOK'
    BY <1>4 DEF TypeOK, Pausing, Elapsed, Accounts, PauseSet, reads
  <2>2. Pausing'
    BY <1>4 DEF TypeOK, Pausing, Elapsed, PauseSet, reads
  <2>3. Accounts'
    BY <1>4 DEF TypeOK, Pausing, Elapsed, Accounts, PauseSet, reads
  <2>4. Reading'
    BY <1>4 DEF TypeOK, Pausing, Reading, PauseSet, reads
  <2> QED BY <2>1, <2>2, <2>3, <2>4
<1>5. CASE ResumeNested
  <2>1. TypeOK'
    BY <1>5 DEF TypeOK, Pausing, Elapsed, Accounts, ResumeNested, reads
  <2>2. Pausing'
    BY <1>5 DEF TypeOK, Pausing, Elapsed, ResumeNested, reads
  <2>3. Accounts'
    BY <1>5 DEF TypeOK, Pausing, Elapsed, Accounts, ResumeNested, reads
  <2>4. Reading'
    BY <1>5 DEF TypeOK, Pausing, Reading, ResumeNested, reads
  <2> QED BY <2>1, <2>2, <2>3, <2>4
<1>6. CASE ResumeBegins
  <2>1. TypeOK'
    BY <1>6 DEF TypeOK, Pausing, Elapsed, Accounts, ResumeBegins, MeetsEdge
  <2>2. Pausing'
    BY <1>6 DEF TypeOK, Pausing, Elapsed, ResumeBegins, MeetsEdge
  <2>3. Accounts'
    BY <1>6 DEF TypeOK, Pausing, Elapsed, Accounts, ResumeBegins, MeetsEdge
  <2>4. Reading'
    BY <1>6 DEF TypeOK, Pausing, Reading, ResumeBegins, MeetsEdge
  <2> QED BY <2>1, <2>2, <2>3, <2>4
<1>7. CASE EpochMoves
  <2>1. TypeOK'
    BY <1>7 DEF TypeOK, Pausing, Elapsed, Accounts, EpochMoves, reads
  <2>2. Pausing'
    BY <1>7 DEF TypeOK, Pausing, Elapsed, EpochMoves, reads
  <2>3. Accounts'
    BY <1>7 DEF TypeOK, Pausing, Elapsed, Accounts, EpochMoves, reads
  <2>4. Reading'
    BY <1>7 DEF TypeOK, Pausing, Reading, EpochMoves, reads
  <2> QED BY <2>1, <2>2, <2>3, <2>4
<1>8. CASE PauseClears
  <2>1. TypeOK'
    BY <1>8 DEF TypeOK, Pausing, Elapsed, Accounts, PauseClears, reads
  <2>2. Pausing'
    BY <1>8 DEF TypeOK, Pausing, Elapsed, PauseClears, reads
  <2>3. Accounts'
    BY <1>8 DEF TypeOK, Pausing, Elapsed, Accounts, PauseClears, reads
  <2>4. Reading'
    BY <1>8 DEF TypeOK, Pausing, Reading, PauseClears, reads
  <2> QED BY <2>1, <2>2, <2>3, <2>4
<1>9. ASSUME NEW r \in Readers, ReadPaused(r) \/ ReadNow(r) \/ ReadEpoch(r)
      PROVE  IInv'
  <2>1. UNCHANGED <<qpc, epoch, pause, held>> /\ Pausing' /\ Accounts'
    <3>1. UNCHANGED <<qpc, epoch, pause, held>>
      BY <1>9 DEF ReadPaused, ReadNow, ReadEpoch
    <3> QED BY <3>1 DEF pause, Elapsed, Pausing, Accounts
  <2>2. CASE ReadPaused(r)
    <3>1. TypeOK'
      BY <2>1, <2>2 DEF ReadPaused, TypeOK, pause
    <3>2. Reading'
      BY <2>1, <2>2 DEF ReadPaused, TypeOK, Reading, pause
    <3> QED BY <2>1, <3>1, <3>2
  <2>3. CASE ReadNow(r)
    <3>1. TypeOK'
      BY <2>1, <2>3, HeldBound DEF ReadNow, TypeOK, pause
    <3>2. /\ r \notin met => now'[r] - epoch = ideal'[r]
          /\ ideal'[r] <= qpc
      <4>1. now'[r] = (IF rpc[r] = "held" THEN mark ELSE qpc)
            /\ ideal'[r] = qpc - held
        BY <2>3 DEF ReadNow, TypeOK
      <4> QED BY <2>3, <4>1 DEF ReadNow, TypeOK, Reading, Pausing, Accounts
    <3>3. Reading'
      BY <2>1, <2>3, <3>2 DEF ReadNow, TypeOK, Reading, pause
    <3> QED BY <2>1, <3>1, <3>3
  <2>4. CASE ReadEpoch(r)
    <3>1. TypeOK'
      BY <2>1, <2>4 DEF ReadEpoch, TypeOK, pause
    <3>2. Reading'
      BY <2>1, <2>4 DEF ReadEpoch, TypeOK, Reading, pause
    <3> QED BY <2>1, <3>1, <3>2
  <2> QED BY <1>9, <2>2, <2>3, <2>4
<1>10. CASE UNCHANGED vars
  BY <1>10 DEF TypeOK, Pausing, Accounts, Reading, Elapsed, vars, pause, reads
<1> QED
  BY <1>1, <1>2, <1>3, <1>4, <1>5, <1>6, <1>7, <1>8, <1>9, <1>10 DEF Next

\* The clock as timebase_init leaves it satisfies the invariant.
LEMMA InitClock ==
    ASSUME Init
    PROVE  IInv
<1>1. paused \in BOOLEAN
  BY DEF Init
<1>2. TypeOK
  BY <1>1, TimeAssumption DEF Init, TypeOK
<1> QED BY <1>2, TimeAssumption DEF Init, IInv, Pausing, Accounts, Reading,
           Elapsed

\* A clean read returns the ticks of the time outside the pauses.
LEMMA CleanValue ==
    ASSUME IInv, NEW r \in Readers, Clean(r)
    PROVE  Value(r) = Ticks(ideal[r]) /\ ideal[r] \in Nat /\ ideal[r] <= qpc
<1>1. now[r] - epoch = ideal[r] /\ ideal[r] \in 0 .. MaxQpc /\ ideal[r] <= qpc
  BY DEF IInv, Reading, Clean, TypeOK
<1>2. ideal[r] % Word = ideal[r]
  BY <1>1, TimeAssumption
<1>3. Value(r) = Ticks(ideal[r])
  BY <1>1, <1>2 DEF Value
<1> QED BY <1>1, <1>3, TimeAssumption

\* So clean reads are true, and account for the pauses.
LEMMA ReadingSafe ==
    ASSUME IInv
    PROVE  TrueReads /\ PauseAccounts
<1>1. ASSUME NEW r \in Readers, Clean(r)
      PROVE  Value(r) = Ticks(ideal[r]) /\ Value(r) <= Ticks(qpc)
  <2>1. qpc \in Nat
    BY TimeAssumption DEF IInv, TypeOK
  <2> QED BY <1>1, <2>1, CleanValue, TicksMonotonic
<1>2. ASSUME NEW r \in Readers, NEW q \in Readers, Clean(r), Clean(q),
             ideal[r] <= ideal[q]
      PROVE  Value(r) <= Value(q)
  BY <1>2, CleanValue, TicksMonotonic
<1>3. PauseAccounts
  BY DEF IInv, Accounts, Reading, PauseAccounts, Clean
<1> QED BY <1>1, <1>2, <1>3 DEF TrueReads

\* Read from whichever threads, the clock never runs ahead of the time that has
\* passed, never runs backwards and stands still for exactly its pauses, unless
\* an outermost pause begins or ends around the read: synth_ticks and
\* timebase_pause agree on the epoch wherever else a read can fall.
THEOREM ClockSafety == Spec => [](TypeOK /\ TrueReads /\ PauseAccounts)
<1>1. Init => IInv
  BY InitClock
<1>2. IInv /\ [Next]_vars => IInv'
  BY ClockInductive
<1>3. IInv => TypeOK /\ TrueReads /\ PauseAccounts
  BY ReadingSafe DEF IInv
<1> QED BY <1>1, <1>2, <1>3, PTL DEF Spec

-----------------------------------------------------------------------------
\* A set of natural numbers has a least member.
LEMMA LeastNat ==
    ASSUME NEW S, S \subseteq Nat, S # {} PROVE \E x \in S : \A y \in S : x <= y
<1>1. \E x \in S : \A y \in S : ~(<<y, x>> \in OpToRel(<, Nat))
  BY NatLessThanWellFounded, WFMin
<1>2. PICK x \in S : \A y \in S : ~(<<y, x>> \in OpToRel(<, Nat))
  BY <1>1
<1>3. \A y \in S : ~(y < x)
  BY <1>2 DEF OpToRel
<1>4. QED BY <1>3

\* Counting up to a bound stops somewhere: at the first number at which the
\* condition fails, or at the bound.
LEMMA CountStops ==
    ASSUME NEW b \in Nat, NEW F \in SUBSET (0 .. b)
    PROVE  \E k \in 0 .. b : /\ \A j \in 0 .. k - 1 : j \in F
                             /\ k = b \/ k \notin F
<1> DEFINE S == {k \in 0 .. b : k = b \/ k \notin F}
<1>1. S \subseteq Nat /\ b \in S
  OBVIOUS
<1>2. PICK k \in S : \A y \in S : k <= y
  BY <1>1, LeastNat
<1>3. ASSUME NEW j \in 0 .. k - 1 PROVE j \in F
  <2>1. j \in 0 .. b /\ j < k /\ j # b
    OBVIOUS
  <2> QED BY <1>2, <2>1
<1>4. QED BY <1>2, <1>3

-----------------------------------------------------------------------------
\* Types of the wheel's state.
WheelTyped ==
    /\ wheelNow \in Int /\ base \in Int /\ calls \in Int
    /\ due = Never \/ due \in Int
    /\ given \in Nat /\ sent \in Nat
    /\ stamp \in Int /\ pass \in [at : Int, step : Int, owed : Int, n : Int]
    /\ queue \in Seq([force : Nat, when : Int])

\* The count of due ticks is the time of the resynchronisation and a period for
\* every call since; none is called more than a period and a half early.
Cadence ==
    due # Never => /\ due = base + calls * Period
                   /\ due <= wheelNow + Period + (Period \div 2)

WheelInv == WheelTyped /\ Cadence /\ InOrder

\* What the parameters are, without the module's name.
LEMMA WheelConstants ==
    /\ Period \in Nat /\ Period \div 2 \in Nat /\ Never \notin Int
    /\ CatchUp \in Nat /\ QueueMax \in Nat /\ QueueMax > 0
  BY ClockAssumption DEF Wh!WheelAssumption

\* A pass owes every tick that is due within half a period, and the last one it
\* owes is.
LEMMA OwedBound ==
    ASSUME NEW from \in Int, wheelNow \in Int
    PROVE  /\ Wh!Owed(from) \in 0 .. CatchUp
           /\ Wh!Owed(from) > 0 =>
                from + (Wh!Owed(from) * Period)
                  <= wheelNow + Period + (Period \div 2)
<1> DEFINE F == {j \in 0 .. CatchUp :
                    wheelNow >= from + j * Period - (Period \div 2)}
           o == Wh!Owed(from)
<1>1. PICK k \in 0 .. CatchUp : /\ \A j \in 0 .. k - 1 : j \in F
                                /\ k = CatchUp \/ k \notin F
  BY CountStops, WheelConstants
<1>2. /\ \A j \in 0 .. k - 1 : wheelNow >= from + j * Period - (Period \div 2)
      /\ k = CatchUp \/ wheelNow < from + k * Period - (Period \div 2)
  <2>1. k = CatchUp \/ wheelNow < from + k * Period - (Period \div 2)
    <3>1. from + k * Period - (Period \div 2) \in Int
      BY WheelConstants
    <3> QED BY <1>1, <3>1
  <2> QED BY <1>1, <2>1
<1>3. /\ o \in 0 .. CatchUp
      /\ \A j \in 0 .. o - 1 : wheelNow >= from + j * Period - (Period \div 2)
  BY <1>2 DEF Wh!Owed
<1> HIDE DEF o
<1>4. ASSUME o > 0 PROVE from + (o * Period) <= wheelNow + Period + (Period \div 2)
  <2>1. o - 1 \in 0 .. o - 1 /\ o \in Int
    BY <1>3, <1>4, WheelConstants
  <2>2. wheelNow >= from + (o - 1) * Period - (Period \div 2)
    BY <1>3, <2>1
  <2>3. (o - 1) * Period = o * Period - Period
    BY <2>1, WheelConstants
  <2>4. o * Period \in Int /\ Period \in Int /\ Period \div 2 \in Int
    BY <2>1, WheelConstants
  <2> QED BY <2>2, <2>3, <2>4
<1> QED BY <1>3, <1>4 DEF o

\* A member of a sequence.
LEMMA MemberOf ==
    ASSUME NEW S, NEW q \in Seq(S), NEW i \in 1 .. Len(q) PROVE q[i] \in S
  OBVIOUS

\* How much of the queue is due is at most all of it.
LEMMA DueBound ==
    ASSUME wheelNow \in Int, queue \in Seq([force : Nat, when : Int])
    PROVE  Wh!DueCount \in 0 .. Len(queue)
<1> DEFINE F == {j \in 0 .. Len(queue) - 1 : queue[j + 1].when <= wheelNow}
           d == Wh!DueCount
<1>1. Len(queue) \in Nat
  OBVIOUS
<1>2. F \in SUBSET (0 .. Len(queue))
  BY <1>1
<1>3. PICK k \in 0 .. Len(queue) : /\ \A j \in 0 .. k - 1 : j \in F
                                   /\ k = Len(queue) \/ k \notin F
  BY <1>1, <1>2, CountStops
<1>4. ASSUME NEW i \in 1 .. k PROVE queue[i].when <= wheelNow
  <2>1. i - 1 \in 0 .. k - 1 /\ (i - 1) + 1 = i
    OBVIOUS
  <2> QED BY <1>3, <2>1
<1>5. k = Len(queue) \/ queue[k + 1].when > wheelNow
  <2> SUFFICES ASSUME k # Len(queue) PROVE queue[k + 1].when > wheelNow
    OBVIOUS
  <2> DEFINE l == Len(queue)
  <2>1. k \in 0 .. l /\ l \in Nat /\ k # l
    BY <1>1, <1>3
  <2> HIDE DEF l
  <2>2. k \in 0 .. l - 1 /\ k + 1 \in 1 .. l
    BY <2>1
  <2>3. queue[k + 1] \in [force : Nat, when : Int]
    BY <2>2, MemberOf DEF l
  <2>4. queue[k + 1].when \in Int /\ ~(queue[k + 1].when <= wheelNow)
    BY <1>3, <2>1, <2>2, <2>3 DEF l
  <2> QED BY <2>4
<1> HIDE DEF F
<1>6. d \in 0 .. Len(queue)
  BY <1>4, <1>5 DEF Wh!DueCount
<1> QED BY <1>6

\* A step of the clock's composition is one of the machine that steps.
LEMMA ClockStep ==
    ASSUME [ClockNext]_clockVars
    PROVE  [Next]_vars /\ [Wh!Next]_wheel /\ [Fb!Next]_budget
  BY DEF ClockNext, clockVars, Ticking, Pacing, Drawing

\* What leaves InOrder as it is, and what it says.
LEMMA OrderDef ==
    InOrder <=> (open => /\ given = sent + Len(queue)
                         /\ \A i \in 1 .. Len(queue) : queue[i].force = sent + i)
  BY DEF InOrder, Wh!InOrder

\* A transmission keeps the forces in order: it goes out past an empty queue,
\* or waits behind all the others.
LEMMA TransmitInOrder ==
    ASSUME WheelInv, NEW when \in Int, Wh!Transmit(when), UNCHANGED open
    PROVE  /\ given' \in Nat /\ sent' \in Nat /\ stamp' \in Int
           /\ queue' \in Seq([force : Nat, when : Int])
           /\ InOrder'
<1> DEFINE E == [force : Nat, when : Int]
<1>0. /\ given \in Nat /\ sent \in Nat /\ stamp \in Int
      /\ queue \in Seq(E) /\ Len(queue) \in Nat /\ wheelNow \in Int
  BY DEF WheelInv, WheelTyped
<1>1. given' = given + 1 /\ given' \in Nat /\ stamp' \in Int
  <2>1. Wh!Stamp(when) \in Int
    BY <1>0, ClockAssumption DEF Wh!Stamp, Wh!WheelAssumption
  <2> QED BY <1>0, <2>1 DEF Wh!Transmit
<1>2. Wh!Submit(given', stamp')
  BY DEF Wh!Transmit
<1>3. CASE ~handle \/ stamp' <= wheelNow
  <2>1. sent' = given' /\ queue' = <<>>
    BY <1>2, <1>3 DEF Wh!Submit
  <2>2. queue' \in Seq(E) /\ Len(queue') = 0
    BY <2>1
  <2>3. InOrder'
    BY <1>1, <2>1, <2>2 DEF InOrder, Wh!InOrder
  <2> QED BY <1>1, <2>1, <2>2, <2>3
<1>4. CASE ~(~handle \/ stamp' <= wheelNow)
  <2> DEFINE e == [force |-> given', when |-> stamp']
             room == Wh!Room(queue)
  <2>1. /\ sent' = IF Len(queue) = QueueMax THEN queue[1].force ELSE sent
        /\ queue' = Append(room, e)
    BY <1>2, <1>4 DEF Wh!Submit
  <2>2. e \in E
    BY <1>1
  <2>3. CASE Len(queue) = QueueMax
    <3>1. room = Tail(queue) /\ queue # <<>> /\ Len(queue) > 0
      BY <1>0, <2>3, WheelConstants DEF Wh!Room
    <3>2. /\ room \in Seq(E) /\ Len(room) = Len(queue) - 1
          /\ \A i \in 1 .. Len(room) : room[i] = queue[i + 1]
      BY <1>0, <3>1
    <3> HIDE DEF room, e
    <3>3. /\ queue' \in Seq(E) /\ Len(queue') = Len(queue)
          /\ \A i \in 1 .. Len(room) : queue'[i] = room[i]
          /\ queue'[Len(queue')] = e
      BY <1>0, <2>1, <2>2, <3>2
    <3>4. sent' = queue[1].force /\ sent' \in Nat
      <4>1. 1 \in 1 .. Len(queue)
        BY <1>0, <3>1
      <4>2. queue[1] \in E
        BY <1>0, <4>1, MemberOf
      <4> QED BY <2>1, <2>3, <4>2
    <3>5. ASSUME open
          PROVE  /\ given' = sent' + Len(queue')
                 /\ \A i \in 1 .. Len(queue') : queue'[i].force = sent' + i
      <4>1. /\ given = sent + Len(queue)
            /\ \A i \in 1 .. Len(queue) : queue[i].force = sent + i
        BY <3>5, OrderDef DEF WheelInv
      <4>2. sent' = sent + 1
        BY <1>0, <3>1, <3>4, <4>1
      <4>3. given' = sent' + Len(queue')
        BY <1>0, <1>1, <3>3, <4>1, <4>2
      <4>4. ASSUME NEW i \in 1 .. Len(queue') PROVE queue'[i].force = sent' + i
        <5>1. CASE i = Len(queue')
          BY <1>0, <1>1, <3>3, <4>3, <5>1 DEF e
        <5>2. CASE i # Len(queue')
          <6>1. i \in 1 .. Len(room) /\ i + 1 \in 1 .. Len(queue)
            <7>1. Len(room) = Len(queue) - 1 /\ i \in 1 .. Len(queue)
              BY <3>2, <3>3
            <7>2. i # Len(queue)
              BY <3>3, <5>2
            <7> QED BY <1>0, <7>1, <7>2
          <6>2. queue'[i] = queue[i + 1]
            BY <3>2, <3>3, <6>1
          <6>3. queue[i + 1].force = sent + (i + 1)
            BY <4>1, <6>1
          <6> QED BY <1>0, <4>2, <6>2, <6>3
        <5> QED BY <5>1, <5>2
      <4> QED BY <4>3, <4>4
    <3>6. InOrder'
      BY <3>5 DEF InOrder, Wh!InOrder
    <3> QED BY <1>1, <3>3, <3>4, <3>6
  <2>4. CASE Len(queue) # QueueMax
    <3>1. room = queue /\ sent' = sent
      BY <2>1, <2>4 DEF Wh!Room
    <3> HIDE DEF e
    <3>2. /\ queue' \in Seq(E) /\ Len(queue') = Len(queue) + 1
          /\ \A i \in 1 .. Len(queue) : queue'[i] = queue[i]
          /\ queue'[Len(queue')] = e
      <4>1. queue' = Append(queue, e)
        BY <2>1, <3>1
      <4> QED BY <1>0, <2>2, <4>1
    <3>3. ASSUME open
          PROVE  /\ given' = sent' + Len(queue')
                 /\ \A i \in 1 .. Len(queue') : queue'[i].force = sent' + i
      <4>1. /\ given = sent + Len(queue)
            /\ \A i \in 1 .. Len(queue) : queue[i].force = sent + i
        BY <3>3, OrderDef DEF WheelInv
      <4>2. given' = sent' + Len(queue')
        BY <1>0, <1>1, <3>1, <3>2, <4>1
      <4>3. ASSUME NEW i \in 1 .. Len(queue') PROVE queue'[i].force = sent' + i
        <5>1. CASE i = Len(queue')
          BY <1>0, <1>1, <3>1, <3>2, <4>2, <5>1 DEF e
        <5>2. CASE i # Len(queue')
          <6>1. i \in 1 .. Len(queue)
            BY <1>0, <3>2, <5>2
          <6> QED BY <3>1, <3>2, <4>1, <6>1
        <5> QED BY <5>1, <5>2
      <4> QED BY <4>2, <4>3
    <3>4. InOrder'
      BY <3>3 DEF InOrder, Wh!InOrder
    <3> QED BY <1>0, <1>1, <3>1, <3>2, <3>4
  <2> QED BY <2>3, <2>4
<1> QED BY <1>3, <1>4

\* What is left of a queue whose first d are taken.
LEMMA Dropped ==
    ASSUME NEW S, NEW q \in Seq(S), NEW d \in 0 .. Len(q)
    PROVE  LET rest == SubSeq(q, d + 1, Len(q)) IN
           /\ rest \in Seq(S) /\ Len(rest) = Len(q) - d
           /\ \A i \in 1 .. Len(q) - d : rest[i] = q[d + i]
<1> DEFINE rest == SubSeq(q, d + 1, Len(q))
<1>1. Len(q) \in Nat /\ d + 1 \in Int /\ d + 1 >= 1
  OBVIOUS
<1>2. Len(rest) = Len(q) - d
  BY <1>1
<1>3. rest \in Seq(S)
  BY <1>1
<1>4. ASSUME NEW i \in 1 .. Len(q) - d PROVE rest[i] = q[d + i]
  BY <1>1, <1>2
<1> QED BY <1>2, <1>3, <1>4

\* A step of the tick, the queue or the poll thread keeps the invariant.
LEMMA WheelInductive ==
    ASSUME WheelInv, [Wh!Next]_wheel
    PROVE  WheelInv'
<1> DEFINE E == [force : Nat, when : Int]
           P == [at : Int, step : Int, owed : Int, n : Int]
<1>0. /\ wheelNow \in Int /\ base \in Int /\ calls \in Int
      /\ due = Never \/ due \in Int
      /\ given \in Nat /\ sent \in Nat /\ stamp \in Int
      /\ pass \in P /\ queue \in Seq(E)
  BY DEF WheelInv, WheelTyped
<1>c. /\ due # Never => /\ due = base + calls * Period
                        /\ due <= wheelNow + Period + (Period \div 2)
      /\ Period \in Int /\ Period \div 2 \in Nat /\ Never \notin Int
      /\ Period >= 0
  BY WheelConstants DEF WheelInv, Cadence
<1>i. Wh!Idle \in P
  BY DEF Wh!Idle
<1>1. CASE Wh!PassBegins
  <2> DEFINE o == Wh!Owed(Wh!From)
             from == Wh!From
  <2>1. from \in Int /\ (from = wheelNow \/ (from = due /\ due # Never))
    BY <1>0, <1>c DEF Wh!From
  <2>2. /\ o \in 0 .. CatchUp
        /\ o > 0 => from + (o * Period) <= wheelNow + Period + (Period \div 2)
    BY <1>0, <2>1, OwedBound
  <2>3. /\ due' = from + o * Period
        /\ base' = IF from = due THEN base ELSE wheelNow
        /\ calls' = (IF from = due THEN calls ELSE 0) + o
        /\ UNCHANGED <<wheelNow, stamp, queue, timer, sent, handle, open, given>>
    BY <1>1 DEF Wh!PassBegins, Wh!wheel
  <2>4. pass' \in P
    <3>1. PICK step \in Wh!Steps(o) :
             pass' = IF o = 0 THEN Wh!Idle
                     ELSE [at |-> wheelNow, step |-> step, owed |-> o, n |-> 0]
      BY <1>1 DEF Wh!PassBegins
    <3>2. step \in Int
      <4>1. step \in 1 .. Period \cup {Period}
        BY DEF Wh!Steps
      <4> QED BY <1>c, <4>1
    <3>3. o \in Int
      BY <2>2, WheelConstants
    <3> HIDE DEF o
    <3> QED BY <1>0, <1>i, <3>1, <3>2, <3>3
  <2> HIDE DEF o, from
  <2>5. o \in Nat /\ o * Period \in Int
    BY <1>c, <2>2, WheelConstants
  <2>6. /\ due' \in Int /\ base' \in Int /\ calls' \in Int
        /\ due' = base' + calls' * Period
    <3>1. CASE from = due
      <4>1. due = base + calls * Period
        BY <1>c, <2>1, <3>1
      <4>2. base' = base /\ calls' = calls + o /\ due' = due + o * Period
        BY <2>3, <3>1
      <4>3. (calls + o) * Period = calls * Period + o * Period
        BY <1>0, <1>c, <2>5
      <4>4. calls * Period \in Int
        BY <1>0, <1>c
      <4> QED BY <1>0, <2>5, <4>1, <4>2, <4>3, <4>4
    <3>2. CASE from # due
      BY <1>0, <2>1, <2>3, <2>5, <3>2
    <3> QED BY <3>1, <3>2
  <2>7. due' <= wheelNow + Period + (Period \div 2)
    <3>1. CASE o = 0
      <4>1. due' = from
        BY <1>c, <2>1, <2>3, <3>1
      <4>2. from <= wheelNow + Period + (Period \div 2)
        BY <1>0, <1>c, <2>1
      <4> QED BY <4>1, <4>2
    <3>2. CASE o # 0
      BY <2>2, <2>3, <2>5, <3>2
    <3> QED BY <3>1, <3>2
  <2>8. InOrder'
    BY <2>3 DEF WheelInv, InOrder, Wh!InOrder
  <2>9. WheelTyped'
    BY <1>0, <2>3, <2>4, <2>6 DEF WheelTyped
  <2>10. Cadence'
    BY <2>3, <2>6, <2>7 DEF Cadence
  <2> QED BY <2>8, <2>9, <2>10 DEF WheelInv
<1>2. CASE Wh!Tick
  <2> DEFINE when == pass.at + pass.n * pass.step
  <2>1. when \in Int
    <3>1. pass.at \in Int /\ pass.n \in Int /\ pass.step \in Int
      BY <1>0
    <3> QED BY <3>1
  <2>2. /\ Wh!Transmit(when)
        /\ UNCHANGED <<wheelNow, due, base, calls, open>>
    BY <1>2 DEF Wh!Tick, Wh!cadence
  <2> HIDE DEF when
  <2>3. /\ given' \in Nat /\ sent' \in Nat /\ stamp' \in Int
        /\ queue' \in Seq(E) /\ InOrder'
    BY <2>1, <2>2, TransmitInOrder
  <2>4. pass' \in P
    <3>1. pass.n + 1 \in Int
      BY <1>0
    <3>2. [pass EXCEPT !.n = pass.n + 1] \in P
      BY <1>0, <3>1
    <3> QED BY <1>2, <1>i, <3>2 DEF Wh!Tick
  <2>5. WheelTyped'
    BY <1>0, <2>2, <2>3, <2>4 DEF WheelTyped
  <2>6. Cadence'
    BY <2>2 DEF WheelInv, Cadence
  <2> QED BY <2>3, <2>5, <2>6 DEF WheelInv
<1>3. CASE Wh!QuietPass
  <2>1. /\ Wh!Transmit(wheelNow) /\ due' = Never
        /\ UNCHANGED <<wheelNow, pass, base, calls, open>>
    BY <1>3 DEF Wh!QuietPass
  <2>2. /\ given' \in Nat /\ sent' \in Nat /\ stamp' \in Int
        /\ queue' \in Seq(E) /\ InOrder'
    BY <1>0, <2>1, TransmitInOrder
  <2>3. WheelTyped'
    BY <1>0, <2>1, <2>2 DEF WheelTyped
  <2>4. Cadence'
    BY <2>1 DEF Cadence
  <2> QED BY <2>2, <2>3, <2>4 DEF WheelInv
<1>4. CASE Wh!Deliver
  <2> DEFINE d == Wh!DueCount
             l == Len(queue)
  <2>1. d \in 0 .. l
    BY <1>0, DueBound
  <2>2. /\ sent' = IF d = 0 THEN sent ELSE queue[d].force
        /\ queue' = SubSeq(queue, d + 1, l)
        /\ UNCHANGED <<wheelNow, stamp, pass, due, base, calls, open, given>>
    BY <1>4 DEF Wh!Deliver, Wh!cadence
  <2>3. l \in Nat
    BY <1>0
  <2> HIDE DEF d
  <2>4. /\ queue' \in Seq(E) /\ Len(queue') = l - d
        /\ \A i \in 1 .. l - d : queue'[i] = queue[d + i]
    BY <1>0, <2>1, <2>2, <2>3, Dropped
  <2>5. sent' \in Nat
    <3>1. CASE d = 0
      BY <1>0, <2>2, <3>1
    <3>2. CASE d # 0
      <4>1. d \in 1 .. Len(queue)
        BY <2>1, <2>3, <3>2
      <4>2. queue[d] \in E
        BY <1>0, <4>1, MemberOf
      <4> QED BY <2>2, <3>2, <4>2
    <3> QED BY <3>1, <3>2
  <2>6. ASSUME open
        PROVE  /\ given' = sent' + Len(queue')
               /\ \A i \in 1 .. Len(queue') : queue'[i].force = sent' + i
    <3>1. /\ given = sent + l
          /\ \A i \in 1 .. l : queue[i].force = sent + i
      BY <2>6, OrderDef DEF WheelInv
    <3> HIDE DEF l
    <3>2. sent' = sent + d
      <4>1. CASE d = 0
        BY <1>0, <2>2, <4>1
      <4>2. CASE d # 0
        <5>1. d \in 1 .. l
          BY <2>1, <2>3, <4>2
        <5> QED BY <2>2, <3>1, <4>2, <5>1
      <4> QED BY <4>1, <4>2
    <3>3. given' = sent' + Len(queue')
      <4>1. given' = given
        BY <2>2
      <4>2. Len(queue') = l - d
        BY <2>4
      <4>3. d \in Int
        BY <2>1, <2>3
      <4> QED BY <1>0, <2>3, <3>1, <3>2, <4>1, <4>2, <4>3
    <3>4. ASSUME NEW i \in 1 .. Len(queue') PROVE queue'[i].force = sent' + i
      <4>1. i \in 1 .. l - d
        BY <2>4
      <4>2. d + i \in 1 .. l
        BY <2>1, <2>3, <4>1
      <4>3. queue'[i] = queue[d + i]
        BY <2>4, <4>1
      <4>4. queue[d + i].force = sent + (d + i)
        BY <3>1, <4>2
      <4>5. sent + (d + i) = (sent + d) + i
        BY <1>0, <2>1, <2>3, <4>1
      <4> QED BY <3>2, <4>3, <4>4, <4>5
    <3> QED BY <3>3, <3>4
  <2>7. InOrder'
    BY <2>2, <2>6 DEF InOrder, Wh!InOrder
  <2>8. WheelTyped'
    BY <1>0, <2>2, <2>4, <2>5 DEF WheelTyped
  <2>9. Cadence'
    BY <2>2 DEF WheelInv, Cadence
  <2> QED BY <2>7, <2>8, <2>9 DEF WheelInv
<1>5. CASE Wh!Close
  <2>1. /\ queue' = <<>> /\ open' = FALSE
        /\ UNCHANGED <<wheelNow, stamp, pass, due, base, calls, given, sent>>
    BY <1>5 DEF Wh!Close, Wh!cadence
  <2>2. queue' \in Seq(E)
    BY <2>1
  <2>3. WheelTyped'
    BY <1>0, <2>1, <2>2 DEF WheelTyped
  <2>4. Cadence'
    BY <2>1 DEF WheelInv, Cadence
  <2>5. InOrder'
    BY <2>1 DEF InOrder, Wh!InOrder
  <2> QED BY <2>3, <2>4, <2>5 DEF WheelInv
<1>6. CASE Wh!Elapse
  <2>1. /\ wheelNow' = wheelNow + 1
        /\ UNCHANGED <<due, stamp, pass, queue, open, given, sent, base, calls>>
    BY <1>6 DEF Wh!Elapse, Wh!cadence, Wh!wheel
  <2>2. WheelTyped'
    BY <1>0, <2>1 DEF WheelTyped
  <2>3. Cadence'
    BY <1>0, <1>c, <2>1 DEF Cadence
  <2>4. InOrder'
    BY <2>1 DEF WheelInv, InOrder, Wh!InOrder
  <2> QED BY <2>2, <2>3, <2>4 DEF WheelInv
<1>7. CASE UNCHANGED wheel
  <2>1. UNCHANGED <<wheelNow, due, stamp, pass, queue, open, given, sent, base,
                    calls>>
    BY <1>7 DEF wheel
  <2> QED BY <2>1 DEF WheelInv, WheelTyped, Cadence, InOrder, Wh!InOrder
<1> QED BY <1>1, <1>2, <1>3, <1>4, <1>5, <1>6, <1>7 DEF Wh!Next

\* As sim_open leaves it the wheel satisfies the invariant.
LEMMA InitWheel == ASSUME Wh!Init PROVE WheelInv
<1>1. queue = <<>> /\ given = 0 /\ sent = 0 /\ due = Never
  BY DEF Wh!Init
<1>2. queue \in Seq([force : Nat, when : Int]) /\ Len(queue) = 0
  BY <1>1
<1>3. Wh!Idle \in [at : Int, step : Int, owed : Int, n : Int]
  BY DEF Wh!Idle
<1>4. WheelTyped
  BY <1>1, <1>2, <1>3 DEF Wh!Init, WheelTyped
<1>5. InOrder /\ Cadence
  BY <1>1, <1>2 DEF InOrder, Wh!InOrder, Cadence
<1> QED BY <1>4, <1>5 DEF WheelInv

\* The count of calls is the time they were due at, less the start.
LEMMA PacedFollows == ASSUME WheelInv PROVE Paced
<1> SUFFICES ASSUME due # Never
             PROVE  calls * Period <= wheelNow - base + Period + (Period \div 2)
  BY DEF Paced, Wh!Paced
<1>1. /\ due = base + calls * Period
      /\ due <= wheelNow + Period + (Period \div 2)
  BY DEF WheelInv, Cadence
<1>2. /\ base \in Int /\ calls * Period \in Int /\ wheelNow \in Int
      /\ Period \in Int /\ Period \div 2 \in Int
  BY WheelConstants DEF WheelInv, WheelTyped
<1> QED BY <1>1, <1>2

\* The forces the game writes go out in the order it wrote them: wheel_submit
\* and sim_deliver lose none that a newer one has not overtaken, whatever the
\* queue's length and however late the poll thread wakes.
THEOREM WheelInOrder == ClockSpec => []InOrder
<1>1. ClockInit => WheelInv
  BY InitWheel DEF ClockInit
<1>2. WheelInv /\ [ClockNext]_clockVars => WheelInv'
  BY ClockStep, WheelInductive
<1>3. WheelInv => InOrder
  BY DEF WheelInv
<1> QED BY <1>1, <1>2, <1>3, PTL DEF ClockSpec

\* dispatch_game_callbacks never calls the game more often than its period
\* allows, counted from its last resynchronisation, for every period, burst
\* limit and gap between two passes.
THEOREM CallsPaced == ClockSpec => []Paced
<1>1. ClockInit => WheelInv
  BY InitWheel DEF ClockInit
<1>2. WheelInv /\ [ClockNext]_clockVars => WheelInv'
  BY ClockStep, WheelInductive
<1>3. WheelInv => Paced
  BY PacedFollows
<1> QED BY <1>1, <1>2, <1>3, PTL DEF ClockSpec

-----------------------------------------------------------------------------
\* Types of the frame budget's state.
BudgetTyped ==
    /\ clock \in Int /\ period \in Int /\ prevTi \in Int
    /\ t0 \in Int /\ ti \in Int /\ cinb \in Int /\ cpost \in Int /\ margin \in Int
    /\ drew \in BOOLEAN /\ probing \in BOOLEAN
    /\ bet \in [inb : Int, post : Int, kept : BOOLEAN, held : BOOLEAN]

\* A bet that is won ends with the margin to spare: what is left to do costs
\* what fb_begin trusted, or the real draw has half the tick to itself.
BetHolds ==
    /\ fpc = "inb" => ~drew
    /\ fpc = "inb" /\ ~probing =>
         /\ ~bet.held /\ bet.post = cpost
         /\ t0 + bet.inb + Fb!Most(bet.post, Fb!HalfT) + margin <= T
    /\ fpc = "real" /\ drew /\ ~probing /\ bet.kept =>
         IF bet.held THEN ti + margin <= Fb!HalfT
         ELSE ti + Fb!Most(bet.post, Fb!HalfT) + margin <= T

BudgetInv == BudgetTyped /\ BetHolds /\ InTime

\* What the parameters of the budget are, without the module's name.
LEMMA BudgetConstants ==
    /\ T \in Nat /\ T \in Int /\ Fb!HalfT \in Int /\ Fb!HalfT + Fb!HalfT = T
    /\ MarginMin \in Int /\ MarginMax \in Int /\ MarginStep \in Int
    /\ MarginDecay \in Int /\ Slack \in Int /\ Recover \in Int
    /\ Fb!Inb \subseteq Nat /\ Fb!Post \subseteq Nat /\ Fb!Start \subseteq Nat
    /\ Swaps \subseteq Nat
<1>1. Fb!BudgetAssumption
  BY ClockAssumption
<1>2. T \in Nat /\ Fb!HalfT \in Nat /\ Fb!HalfT + Fb!HalfT = T
  BY <1>1 DEF Fb!BudgetAssumption, Fb!HalfT
<1>3. /\ MarginMin \in Nat /\ MarginMax \in Int /\ MarginStep \in Nat
      /\ MarginDecay \in Nat /\ Slack \in Nat /\ Recover \in Nat
  BY <1>1 DEF Fb!BudgetAssumption
<1>4. /\ Fb!Inb \subseteq Nat /\ Fb!Post \subseteq Nat /\ Fb!Start \subseteq Nat
      /\ Swaps \subseteq Nat
  BY <1>1 DEF Fb!BudgetAssumption, Fb!Inb, Fb!Post, Fb!Start
<1> QED BY <1>2, <1>3, <1>4

\* The lesser and the greater of two numbers, and where an average can get to.
LEMMA LeastMost ==
    ASSUME NEW a \in Int, NEW b \in Int
    PROVE  /\ Fb!Least(a, b) \in Int /\ Fb!Least(a, b) <= a /\ Fb!Least(a, b) <= b
           /\ Fb!Most(a, b) \in Int /\ a <= Fb!Most(a, b) /\ b <= Fb!Most(a, b)
           /\ Fb!Most(a, b) \in {a, b}
           /\ Fb!Average(a, b) \subseteq Int
<1>1. /\ Fb!Least(a, b) \in Int /\ Fb!Least(a, b) <= a /\ Fb!Least(a, b) <= b
      /\ Fb!Most(a, b) \in Int /\ a <= Fb!Most(a, b) /\ b <= Fb!Most(a, b)
      /\ Fb!Most(a, b) \in {a, b}
  BY DEF Fb!Least, Fb!Most
<1>2. Fb!Least(a, b) .. Fb!Most(a, b) \subseteq Int
  BY <1>1
<1>3. Fb!Average(a, b) \subseteq Int
  BY <1>2 DEF Fb!Average
<1> QED BY <1>1, <1>3

\* fb_begin trusts what the last pictures cost.
LEMMA BeginKeeps == ASSUME BudgetInv, Fb!Begin PROVE BudgetInv'
<1>0. /\ BudgetTyped /\ clock \in Int /\ period \in Int /\ prevTi \in Int
      /\ t0 \in Int /\ ti \in Int /\ cinb \in Int /\ cpost \in Int
      /\ margin \in Int
  BY DEF BudgetInv, BudgetTyped
<1>1. /\ t0' \in Int /\ clock' = t0' /\ drew' = FALSE /\ prevTi' \in Int
      /\ bet' = [inb |-> cinb, post |-> cpost, kept |-> TRUE, held |-> FALSE]
      /\ UNCHANGED <<ti, cinb, cpost, period>>
      /\ probing' \in BOOLEAN
  <2>1. t0' \in Fb!Start /\ clock' = t0'
    BY DEF Fb!Begin
  <2>2. /\ drew' = FALSE
        /\ bet' = [inb |-> cinb, post |-> cpost, kept |-> TRUE, held |-> FALSE]
        /\ UNCHANGED <<ti, cinb, cpost, period>>
    BY DEF Fb!Begin
  <2>3. prevTi' = IF drew THEN ti ELSE -1
    BY DEF Fb!Begin
  <2>4. probing' = TRUE \/ probing' = FALSE
    BY DEF Fb!Begin
  <2>5. t0' \in Int
    BY <2>1, BudgetConstants
  <2>6. prevTi' \in Int
    BY <1>0, <2>3
  <2> QED BY <2>1, <2>2, <2>4, <2>5, <2>6
<1>2. margin' \in Int
  <2>1. Fb!Least(period - T, MarginStep) \in Int
    BY <1>0, BudgetConstants, LeastMost
  <2>2. Fb!Least(MarginMax, margin + Fb!Least(period - T, MarginStep) + Slack) \in Int
    <3>1. margin + Fb!Least(period - T, MarginStep) + Slack \in Int
      BY <1>0, <2>1, BudgetConstants
    <3> QED BY <3>1, BudgetConstants, LeastMost
  <2>3. Fb!Most(MarginMin, margin - MarginDecay) \in Int
    BY <1>0, BudgetConstants, LeastMost
  <2> QED BY <1>0, <2>2, <2>3 DEF Fb!Begin, Fb!LearnsMargin
<1>3. BudgetTyped'
  <2>1. bet' \in [inb : Int, post : Int, kept : BOOLEAN, held : BOOLEAN]
    BY <1>0, <1>1
  <2> QED BY <1>0, <1>1, <1>2, <2>1 DEF BudgetTyped
<1>4. fpc' \in {"inb", "real"} /\ (fpc' = "inb" /\ ~probing' => Fb!Fits(cinb))
  BY DEF Fb!Begin
<1>5. BetHolds'
  <2>1. /\ bet'.inb = cinb /\ bet'.post = cpost /\ bet'.held = FALSE
    BY <1>1
  <2>2. fpc' = "inb" /\ ~probing' =>
          t0' + cinb + Fb!Most(cpost, Fb!HalfT) + margin' <= T
    BY <1>4 DEF Fb!Fits
  <2>3. Fb!Most(cpost, Fb!HalfT)' = Fb!Most(cpost, Fb!HalfT)
    BY <1>1 DEF Fb!Most, Fb!HalfT
  <2> QED BY <1>1, <1>4, <2>1, <2>2, <2>3 DEF BetHolds, Fb!Most, Fb!HalfT
<1>6. InTime'
  BY <1>4 DEF InTime, Fb!InTime
<1> QED BY <1>3, <1>5, <1>6 DEF BudgetInv

\* The in-between goes up: as soon as it is ready, or held no longer than half
\* the tick less the margin.
LEMMA PresentKeeps == ASSUME BudgetInv, Fb!Present PROVE BudgetInv'
<1>0. /\ BudgetTyped /\ clock \in Int /\ period \in Int /\ prevTi \in Int
      /\ t0 \in Int /\ ti \in Int /\ cinb \in Int /\ cpost \in Int
      /\ margin \in Int /\ drew \in BOOLEAN /\ probing \in BOOLEAN
      /\ bet \in [inb : Int, post : Int, kept : BOOLEAN, held : BOOLEAN]
  BY DEF BudgetInv, BudgetTyped
<1> DEFINE waits(c) == prevTi >= 0 /\ Fb!HoldUntil > t0 + c
<1>1. PICK c \in Fb!Inb :
         /\ ti' = IF waits(c) THEN Fb!HoldUntil ELSE t0 + c
         /\ clock' = ti'
         /\ cinb' \in IF probing THEN {c} ELSE Fb!Average(cinb, c)
         /\ bet' = [bet EXCEPT !.kept = c <= bet.inb, !.held = waits(c)]
  BY DEF Fb!Present
<1>2. /\ fpc = "inb" /\ fpc' = "real" /\ drew' = TRUE
      /\ UNCHANGED <<t0, prevTi, cpost, margin, probing, period>>
  BY DEF Fb!Present
<1>3. c \in Int
  BY BudgetConstants
<1>4. Fb!HoldUntil \in Int /\ Fb!HoldUntil <= Fb!HalfT - margin
  <2>1. prevTi - Recover \in Int /\ Fb!HalfT - margin \in Int
    BY <1>0, BudgetConstants
  <2> QED BY <2>1, LeastMost DEF Fb!HoldUntil
<1>5. waits(c) \in BOOLEAN
  OBVIOUS
<1> HIDE DEF waits
<1>6. ti' \in Int /\ clock' \in Int /\ cinb' \in Int
  <2>1. Fb!Average(cinb, c) \subseteq Int
    BY <1>0, <1>3, LeastMost
  <2> QED BY <1>0, <1>1, <1>3, <1>4, <2>1
<1>7. /\ bet'.inb = bet.inb /\ bet'.post = bet.post
      /\ bet'.kept = (c <= bet.inb) /\ bet'.held = waits(c)
      /\ bet' \in [inb : Int, post : Int, kept : BOOLEAN, held : BOOLEAN]
  <2> DEFINE kept == c <= bet.inb
             h == waits(c)
  <2>1. kept \in BOOLEAN /\ h \in BOOLEAN
    BY <1>5
  <2>2. bet' = [bet EXCEPT !.kept = kept, !.held = h]
    BY <1>1
  <2> HIDE DEF kept, h
  <2>3. /\ bet'.inb = bet.inb /\ bet'.post = bet.post
        /\ bet'.kept = kept /\ bet'.held = h
        /\ bet' \in [inb : Int, post : Int, kept : BOOLEAN, held : BOOLEAN]
    BY <1>0, <2>1, <2>2
  <2> QED BY <2>3 DEF kept, h
<1>8. BudgetTyped'
  BY <1>0, <1>2, <1>6, <1>7 DEF BudgetTyped
<1>9. ASSUME ~probing, bet'.kept
      PROVE  IF bet'.held THEN ti' + margin <= Fb!HalfT
             ELSE ti' + Fb!Most(bet.post, Fb!HalfT) + margin <= T
  <2>1. t0 + bet.inb + Fb!Most(bet.post, Fb!HalfT) + margin <= T
    BY <1>2, <1>9 DEF BudgetInv, BetHolds
  <2>2. bet.inb \in Int /\ bet.post \in Int /\ c <= bet.inb
    BY <1>0, <1>7, <1>9
  <2>3. Fb!Most(bet.post, Fb!HalfT) \in Int
    BY <2>2, BudgetConstants, LeastMost
  <2>4. CASE waits(c)
    <3>1. ti' = Fb!HoldUntil /\ bet'.held
      BY <1>1, <1>7, <2>4
    <3> QED BY <1>0, <1>4, <3>1, BudgetConstants
  <2>5. CASE ~waits(c)
    <3>1. ti' = t0 + c /\ ~bet'.held
      BY <1>1, <1>7, <2>5
    <3> QED BY <1>0, <1>3, <2>1, <2>2, <2>3, <3>1, BudgetConstants
  <2> QED BY <2>4, <2>5
<1>10. BetHolds'
  BY <1>2, <1>7, <1>9 DEF BetHolds, Fb!Most, Fb!HalfT
<1>11. InTime'
  BY <1>2 DEF InTime, Fb!InTime
<1> QED BY <1>8, <1>10, <1>11 DEF BudgetInv

\* The real picture is ready in time when the bet is won.
LEMMA ReadyKeeps ==
    ASSUME BudgetInv, NEW p \in Fb!Post, Fb!Ready(p)
    PROVE  BudgetInv'
<1>0. /\ BudgetTyped /\ clock \in Int /\ period \in Int /\ prevTi \in Int
      /\ t0 \in Int /\ ti \in Int /\ cinb \in Int /\ cpost \in Int
      /\ margin \in Int /\ drew \in BOOLEAN /\ probing \in BOOLEAN
      /\ bet \in [inb : Int, post : Int, kept : BOOLEAN, held : BOOLEAN]
  BY DEF BudgetInv, BudgetTyped
<1>1. /\ fpc = "real" /\ drew /\ fpc' = "swap"
      /\ cpost' \in IF probing THEN {p} ELSE Fb!Average(cpost, p)
      /\ clock' = Fb!Most(ti + p, Fb!Least(ti + Fb!HalfT, T - margin))
      /\ bet' = [bet EXCEPT !.kept = bet.kept /\ p <= bet.post]
      /\ UNCHANGED <<t0, ti, prevTi, cinb, margin, drew, probing, period>>
  BY DEF Fb!Ready
<1>2. p \in Nat /\ p \in Int
  BY BudgetConstants
<1>3. cpost' \in Int
  <2>1. Fb!Average(cpost, p) \subseteq Int
    BY <1>0, <1>2, LeastMost
  <2> QED BY <1>1, <1>2, <2>1
<1> DEFINE until == Fb!Least(ti + Fb!HalfT, T - margin)
<1>4. until \in Int /\ until <= T - margin
  <2>1. ti + Fb!HalfT \in Int /\ T - margin \in Int
    BY <1>0, BudgetConstants
  <2> QED BY <2>1, LeastMost
<1> HIDE DEF until
<1>5. clock' \in Int /\ clock' \in {ti + p, until}
  <2>1. ti + p \in Int
    BY <1>0, <1>2
  <2>2. clock' = Fb!Most(ti + p, until)
    BY <1>1 DEF until
  <2> QED BY <1>4, <2>1, <2>2, LeastMost
<1>6. /\ bet'.post = bet.post /\ bet'.held = bet.held
      /\ bet'.kept = (bet.kept /\ p <= bet.post)
      /\ bet' \in [inb : Int, post : Int, kept : BOOLEAN, held : BOOLEAN]
  BY <1>0, <1>1
<1>7. BudgetTyped'
  BY <1>0, <1>1, <1>3, <1>5, <1>6 DEF BudgetTyped
<1>8. BetHolds'
  BY <1>1 DEF BetHolds
<1>9. ASSUME ~probing, bet'.kept, bet'.held => bet'.post <= Fb!HalfT
      PROVE  ti + p <= T - margin
  <2>1. bet.kept /\ p <= bet.post /\ bet.post \in Int
    BY <1>0, <1>6, <1>9
  <2>2. IF bet.held THEN ti + margin <= Fb!HalfT
        ELSE ti + Fb!Most(bet.post, Fb!HalfT) + margin <= T
    BY <1>1, <1>9, <2>1 DEF BudgetInv, BetHolds
  <2>3. CASE bet.held
    <3>1. ti + margin <= Fb!HalfT /\ p <= Fb!HalfT
      BY <1>2, <1>6, <1>9, <2>1, <2>2, <2>3, BudgetConstants
    <3> QED BY <1>0, <1>2, <3>1, BudgetConstants
  <2>4. CASE ~bet.held
    <3>1. Fb!Most(bet.post, Fb!HalfT) \in Int
          /\ bet.post <= Fb!Most(bet.post, Fb!HalfT)
      BY <2>1, BudgetConstants, LeastMost
    <3> QED BY <1>0, <1>2, <2>1, <2>2, <2>4, <3>1, BudgetConstants
  <2> QED BY <2>3, <2>4
<1>10. InTime'
  <2> SUFFICES ASSUME ~probing', bet'.kept, bet'.held => bet'.post <= Fb!HalfT
               PROVE  clock' <= T - margin'
    BY DEF InTime, Fb!InTime, Fb!HalfT
  <2>1. ti + p <= T - margin /\ margin' = margin
    BY <1>1, <1>9
  <2> QED BY <1>4, <1>5, <2>1
<1> QED BY <1>7, <1>8, <1>10 DEF BudgetInv

\* Every step of the tick keeps the invariant.
LEMMA BudgetInductive ==
    ASSUME BudgetInv, [Fb!Next]_budget
    PROVE  BudgetInv'
<1>0. /\ BudgetTyped /\ clock \in Int /\ period \in Int /\ prevTi \in Int
      /\ t0 \in Int /\ ti \in Int /\ cinb \in Int /\ cpost \in Int
      /\ margin \in Int /\ drew \in BOOLEAN /\ probing \in BOOLEAN
      /\ bet \in [inb : Int, post : Int, kept : BOOLEAN, held : BOOLEAN]
  BY DEF BudgetInv, BudgetTyped
<1>1. CASE Fb!Lose
  <2>1. /\ fpc = "inb" /\ fpc' = "real"
        /\ UNCHANGED <<t0, ti, prevTi, cinb, cpost, margin, drew, probing,
                       period, bet>>
    BY <1>1 DEF Fb!Lose, Fb!learnt
  <2>2. clock' \in Int
    <3>1. PICK c \in Fb!Inb : clock' = t0 + c
      BY <1>1 DEF Fb!Lose
    <3> QED BY <1>0, <3>1, BudgetConstants
  <2>3. BudgetTyped'
    BY <1>0, <2>1, <2>2 DEF BudgetTyped
  <2>4. BetHolds'
    BY <2>1 DEF BudgetInv, BetHolds
  <2>5. InTime'
    BY <2>1 DEF InTime, Fb!InTime
  <2> QED BY <2>3, <2>4, <2>5 DEF BudgetInv
<1>2. ASSUME NEW p \in Fb!Post, Fb!ReadyAlone(p)
      PROVE  BudgetInv'
  <2>1. /\ ~drew /\ fpc' = "swap" /\ clock' = clock + p
        /\ UNCHANGED <<t0, ti, prevTi, cinb, cpost, margin, drew, probing,
                       period, bet>>
    BY <1>2 DEF Fb!ReadyAlone, Fb!learnt
  <2>2. clock' \in Int
    BY <1>0, <2>1, BudgetConstants
  <2>3. BudgetTyped'
    BY <1>0, <2>1, <2>2 DEF BudgetTyped
  <2>4. BetHolds' /\ InTime'
    BY <2>1 DEF BetHolds, InTime, Fb!InTime
  <2> QED BY <2>3, <2>4 DEF BudgetInv
<1>3. CASE Fb!Swap
  <2>1. /\ fpc' = "begin"
        /\ UNCHANGED <<clock, t0, ti, prevTi, cinb, cpost, margin, drew, probing,
                       bet>>
    BY <1>3 DEF Fb!Swap, Fb!learnt
  <2>2. period' \in Int
    <3>1. CASE period' = 2 * T
      BY <3>1, BudgetConstants
    <3>2. ASSUME NEW s \in Swaps, period' = Fb!Most(T, clock + s)
          PROVE  period' \in Int
      <4>1. clock + s \in Int
        BY <1>0, BudgetConstants
      <4> QED BY <3>2, <4>1, BudgetConstants, LeastMost
    <3> QED BY <1>3, <3>1, <3>2 DEF Fb!Swap
  <2>3. BudgetTyped'
    BY <1>0, <2>1, <2>2 DEF BudgetTyped
  <2>4. BetHolds' /\ InTime'
    BY <2>1 DEF BetHolds, InTime, Fb!InTime
  <2> QED BY <2>3, <2>4 DEF BudgetInv
<1>4. CASE Fb!LoadChanges
  <2>1. UNCHANGED <<fpc, clock, t0, ti, prevTi, cinb, cpost, margin, drew,
                    probing, period, bet>>
    BY <1>4 DEF Fb!LoadChanges, Fb!learnt
  <2>2. BudgetTyped'
    BY <1>0, <2>1 DEF BudgetTyped
  <2>3. BetHolds' /\ InTime'
    BY <2>1 DEF BudgetInv, BetHolds, InTime, Fb!InTime, Fb!Most, Fb!HalfT
  <2> QED BY <2>2, <2>3 DEF BudgetInv
<1>5. CASE UNCHANGED budget
  <2>1. UNCHANGED <<fpc, clock, t0, ti, prevTi, cinb, cpost, margin, drew,
                    probing, period, bet>>
    BY <1>5 DEF budget
  <2>2. BudgetTyped'
    BY <1>0, <2>1 DEF BudgetTyped
  <2>3. BetHolds' /\ InTime'
    BY <2>1 DEF BudgetInv, BetHolds, InTime, Fb!InTime, Fb!Most, Fb!HalfT
  <2> QED BY <2>2, <2>3 DEF BudgetInv
<1> QED
  BY <1>1, <1>2, <1>3, <1>4, <1>5, BeginKeeps, PresentKeeps, ReadyKeeps
     DEF Fb!Next, Fb!TickStep

\* Before the first tick nothing is bet.
LEMMA InitBudget == ASSUME Fb!Init PROVE BudgetInv
<1>1. /\ fpc = "begin" /\ bet = [inb |-> 0, post |-> 0, kept |-> TRUE, held |-> FALSE]
      /\ clock = 0 /\ t0 = 0 /\ ti = 0 /\ prevTi = -1 /\ cinb = InbStart
      /\ cpost = PostStart /\ margin = MarginStart /\ drew = FALSE
      /\ probing = FALSE /\ period = T
  BY DEF Fb!Init
<1>2. InbStart \in Int /\ PostStart \in Int /\ MarginStart \in Int /\ T \in Int
  BY ClockAssumption, BudgetConstants DEF Fb!BudgetAssumption
<1>3. BudgetTyped
  <2>1. bet \in [inb : Int, post : Int, kept : BOOLEAN, held : BOOLEAN]
    BY <1>1
  <2>2. -1 \in Int
    OBVIOUS
  <2> QED BY <1>1, <1>2, <2>1, <2>2 DEF BudgetTyped
<1> QED BY <1>1, <1>3 DEF BudgetInv, BetHolds, InTime, Fb!InTime

\* An in-between picture is drawn only where the real one then goes up with the
\* margin to spare, whatever the tick's length, the costs and how the averages
\* move: fb_begin's estimate covers fb_presented's hold and fb_wait_real's.
THEOREM BudgetInTime == ClockSpec => []InTime
<1>1. ClockInit => BudgetInv
  BY InitBudget DEF ClockInit
<1>2. BudgetInv /\ [ClockNext]_clockVars => BudgetInv'
  BY ClockStep, BudgetInductive
<1>3. BudgetInv => InTime
  BY DEF BudgetInv
<1> QED BY <1>1, <1>2, <1>3, PTL DEF ClockSpec

\* The clock of the composition is the clock of ClockSafety.
THEOREM PausesCounted == ClockSpec => [](TypeOK /\ PauseAccounts)
<1>1. ClockInit => IInv
  BY InitClock DEF ClockInit
<1>2. IInv /\ [ClockNext]_clockVars => IInv'
  BY ClockStep, ClockInductive
<1>3. IInv => TypeOK /\ PauseAccounts
  BY ReadingSafe DEF IInv
<1> QED BY <1>1, <1>2, <1>3, PTL DEF ClockSpec
=============================================================================
