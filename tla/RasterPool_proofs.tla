-------------------------- MODULE RasterPool_proofs --------------------------
(***************************************************************************)
(* Proofs about RasterPool for every pool size, every triangle height and  *)
(* every width of the generation counter.  They assume CloseMayTimeOut =   *)
(* FALSE: with a worker left over from a closed pool the properties do not *)
(* hold.                                                                   *)
(***************************************************************************)
EXTENDS RasterPool, FiniteSetTheorems, TLAPS

\* The thread waits for a generation after the one it has seen.
Quiet(t) ==
    wpc[t] \in {"spin", "look", "sleepy", "blocked", "waking"} /\ seen[t] = gen

Crew == {s \in Slots : s < workers}
Busy == {s \in Crew : ~Quiet(<<inc, s>>)}

Closing == spc \in {"closebump", "join", "joining"}

\* Only the open pool has threads.
NoStraggler ==
    \A t \in Threads : wpc[t] /= "none" => t[1] = inc /\ t[2] \in Crew

\* What the submitter's place says of the shared words.
Control ==
    /\ quit <=> spc \in {"closebump", "join", "joining", "clear"}
    /\ InRows \/ Closing => workers > 1
    /\ spc = "clear" => workers = 0
    /\ InRows => fn

\* Between two jobs every worker is quiet; during one, those that are not are
\* exactly the ones s_done still lacks.
Counting ==
    /\ spc \in {"idle", "reset", "bump"} => Busy = {}
    /\ spc = "bump" => done = 0
    /\ spc \in {"wakeup", "wait"} =>
            /\ done + Cardinality(Busy) = workers - 1
            /\ \A t \in Threads :
                wpc[t] \in {"check", "draw", "count"} => seen[t] = gen

\* The join loop has seen every earlier slot's thread end.
Joined ==
    /\ Closing => \A t \in Threads : wpc[t] \notin {"draw", "count"}
    /\ spc = "joining" => slot < workers
    /\ spc \in {"join", "joining"} =>
            \A s \in Slots : s < slot => wpc[<<inc, s>>] = "none"

\* The blocks handed out are the ones the split computes.
Handed ==
    InRows => /\ rows \in 1 .. MaxRows
              /\ own = Split(workers, rows, 0)
              /\ \A s \in Crew : block[s] = Split(workers, rows, s)

\* The member s of the pool (0 is the submitter) has drawn its block.
HasDrawn(s) ==
    IF s = 0 THEN spc = "wait"
             ELSE wpc[<<inc, s>>] = "count" \/ Quiet(<<inc, s>>)

Has(r, s) == r \in RowsOf(Split(workers, rows, s))

\* A row of the job is drawn once its owner has drawn its block.
Painted ==
    /\ spc \in {"reset", "bump"} => \A r \in Rows : drawn[r] = 0
    /\ spc \in {"wakeup", "wait"} =>
            \A r \in Rows : drawn[r] = IF \E s \in 0 .. (workers - 1) :
                                               Has(r, s) /\ HasDrawn(s)
                                       THEN 1 ELSE 0
    /\ ~InRows => \A r \in Rows : drawn[r] = IF r < rows THEN 1 ELSE 0

IInv == TypeOK /\ NoStraggler /\ Control /\ Counting /\ Joined /\ Handed /\ Painted

-----------------------------------------------------------------------------
\* Euclidean division, in the form the provers need it.
LEMMA DivMod ==
    ASSUME NEW n \in Nat, n > 0, NEW r \in Nat
    PROVE  /\ r \div n \in Nat /\ r % n \in Nat /\ r % n < n
           /\ r = (n * (r \div n)) + (r % n)
  OBVIOUS

\* Multiplication by a natural number is monotonic.
LEMMA MulMono ==
    ASSUME NEW i \in Nat, NEW j \in Nat, i <= j, NEW q \in Nat
    PROVE  i * q <= j * q /\ i * q \in Nat /\ j * q \in Nat
  OBVIOUS

\* The blocks of vgl_par_rows begin at row 0, end at row r and stay between.
LEMMA StartType ==
    ASSUME NEW n \in Nat \ {0}, NEW r \in Nat, NEW i \in 0 .. n
    PROVE  /\ Start(n, r, i) \in 0 .. r
           /\ Start(n, r, 0) = 0
           /\ Start(n, r, n) = r
<1> DEFINE q == r \div n
           m == r % n
<1>1. q \in Nat /\ m \in Nat /\ m < n /\ r = n * q + m
    BY DivMod
<1>2. i * q <= n * q /\ i * q \in Nat
    BY <1>1, MulMono
<1> HIDE DEF q, m
<1>3. Start(n, r, 0) = 0 * q + 0 /\ Start(n, r, n) = n * q + m 
      /\ Start(n, r, i) = i * q + (IF i < m THEN i ELSE m)
    BY <1>1 DEF Start, q, m
<1> QED BY <1>1, <1>2, <1>3

\* Each block ends where the next one begins, so no two of them overlap.
LEMMA StartStep ==
    ASSUME NEW n \in Nat \ {0}, NEW r \in Nat, NEW i \in Nat, NEW j \in Nat, i <= j
    PROVE  /\ Start(n, r, i) \in Nat /\ Start(n, r, j) \in Nat 
           /\ Start(n, r, i) <= Start(n, r, j)
<1> DEFINE q == r \div n
           m == r % n
<1>1. q \in Nat /\ m \in Nat
    BY DivMod
<1>2. i * q <= j * q /\ i * q \in Nat /\ j * q \in Nat
    BY <1>1, MulMono
<1> HIDE DEF q, m
<1>3. Start(n, r, j) = j * q + (IF j < m THEN j ELSE m)
      /\ Start(n, r, i) = i * q + (IF i < m THEN i ELSE m)
    BY <1>1 DEF Start, q, m
<1> QED BY <1>1, <1>2, <1>3

\* Every row is in some block.
LEMMA StartCover ==
    ASSUME NEW n \in Nat \ {0}, NEW r \in Nat, NEW x \in 0 .. (r - 1)
    PROVE  \E i \in 0 .. (n - 1) : Start(n, r, i) <= x /\ x < Start(n, r, i + 1)
<1> DEFINE q == r \div n
           m == r % n
           c == q + 1
           S(i) == i * q + (IF i < m THEN i ELSE m)
<1>1. q \in Nat /\ m \in Nat /\ m < n /\ r = n * q + m
    BY DivMod
<1>2. \A i \in Nat : Start(n, r, i) = S(i)
    BY <1>1 DEF Start
<1> HIDE DEF q, m
<1>3. CASE x < m * c
  <2> DEFINE i == x \div c
  <2>1. i \in Nat /\ i * c <= x /\ x < i * c + c
    <3>1. c \in Nat /\ c > 0 BY <1>1
    <3> HIDE DEF c
    <3> QED BY <3>1, DivMod
  <2> HIDE DEF i
  <2>2. i < m
    <3>1. SUFFICES ASSUME m <= i PROVE FALSE BY <2>1, <1>1
    <3>2. m * c <= i * c BY <3>1, <2>1, <1>1, MulMono
    <3> QED BY <3>2, <2>1, <1>3, <1>1
  <2>3. S(i) = i * q + i /\ S(i + 1) = (i + 1) * q + i + 1
    BY <2>1, <2>2, <1>1
  <2>4. i * c = i * q + i /\ (i + 1) * q = i * q + q
    BY <2>1, <1>1
  <2>5. S(i) <= x /\ x < S(i + 1)
    BY <2>1, <2>3, <2>4, <1>1
  <2>6. i \in 0 .. (n - 1) /\ i + 1 \in Nat
    BY <2>1, <2>2, <1>1
  <2> QED BY <2>5, <2>6, <1>2
<1>4. CASE ~(x < m * c)
  <2> DEFINE y == x - m * c
             k == y \div q
             i == m + k
  <2>0. m * c = m * q + m /\ m * q \in Nat
    BY <1>1
  <2>1. y \in Nat /\ y < n * q - m * q
    BY <1>4, <1>1, <2>0
  <2> HIDE DEF y
  <2>2. q > 0
    BY <2>1, <1>1
  <2>3. k \in Nat /\ k * q <= y /\ y < k * q + q
    BY <2>1, <2>2, <1>1, DivMod
  <2> HIDE DEF k
  <2>4. i \in Nat /\ i * q = m * q + k * q /\ (i + 1) * q = i * q + q
    BY <2>3, <1>1
  <2>5. i < n
    <3>1. SUFFICES ASSUME n <= i PROVE FALSE BY <2>4, <1>1
    <3>2. n * q <= i * q BY <3>1, <2>4, <1>1, MulMono
    <3> QED BY <3>2, <2>4, <2>3, <2>1, <1>1
  <2>6. S(i) = i * q + m /\ S(i + 1) = (i + 1) * q + m
    BY <2>3, <1>1
  <2> HIDE DEF i
  <2>7. S(i) <= x /\ x < S(i + 1)
    BY <2>6, <2>4, <2>3, <2>0, <1>1 DEF y
  <2>8. i \in 0 .. (n - 1) /\ i + 1 \in Nat
    BY <2>5, <2>4, <1>1
  <2> QED BY <2>7, <2>8, <1>2
<1> QED BY <1>3, <1>4

-----------------------------------------------------------------------------
\* The row split stays within its types.
LEMMA SplitType ==
    ASSUME NEW n \in 1 .. MaxWorkers, NEW r \in 0 .. MaxRows,
           NEW i \in 0 .. (n - 1)
    PROVE  Split(n, r, i) \in Block
<1>1. n \in Nat \ {0} /\ r \in Nat /\ i \in 0 .. n /\ i + 1 \in 0 .. n
      /\ MaxRows \in Nat /\ MaxWorkers \in Nat
    BY PoolAssumption
<1>2. Start(n, r, i) \in 0 .. r /\ Start(n, r, i + 1) \in 0 .. r
    BY <1>1, StartType
<1> QED BY <1>1, <1>2 DEF Split, Block

\* The generation always changes, the wrap to zero included.
LEMMA NextGen ==
    ASSUME NEW g \in 0 .. (GenMod - 1)
    PROVE  Next1(g) \in 0 .. (GenMod - 1) /\ Next1(g) /= g
<1>1. GenMod \in Nat /\ GenMod > 1
    BY PoolAssumption
<1>2. CASE g + 1 < GenMod
  <2>1. (g + 1) % GenMod = g + 1 BY <1>1, <1>2
  <2> QED BY <1>1, <1>2, <2>1 DEF Next1
<1>3. CASE g + 1 = GenMod
  <2>1. (g + 1) % GenMod = 0 BY <1>1, <1>3
  <2> QED BY <1>1, <1>3, <2>1 DEF Next1
<1> QED BY <1>1, <1>2, <1>3

\* The crew of an open pool is workers 1 .. workers - 1.
LEMMA CrewFinite ==
    ASSUME TypeOK
    PROVE  /\ IsFiniteSet(Crew) /\ IsFiniteSet(Busy)
           /\ Cardinality(Busy) \in Nat
           /\ workers > 0 => Crew = 1 .. (workers - 1) /\ Cardinality(Crew) = workers - 1
<1>1. MaxWorkers \in Nat /\ workers \in Nat /\ workers <= MaxWorkers
    BY PoolAssumption DEF TypeOK
<1>2. IsFiniteSet(Slots)
    BY <1>1, FS_Interval DEF Slots
<1>3. IsFiniteSet(Crew)
    BY <1>2, FS_Subset DEF Crew
<1>4. IsFiniteSet(Busy)
    BY <1>3, FS_Subset DEF Busy
<1>5. ASSUME workers > 0
      PROVE  Crew = 1 .. (workers - 1) /\ Cardinality(Crew) = workers - 1
  <2>1. Crew = 1 .. (workers - 1)
    BY <1>1, <1>5 DEF Crew, Slots
  <2>2. Cardinality(1 .. (workers - 1)) = workers - 1
    BY <1>1, <1>5, FS_Interval
  <2> QED BY <2>1, <2>2
<1> QED BY <1>3, <1>4, <1>5, FS_CardinalityType

\* The pool of a program that has drawn nothing satisfies the invariant.
THEOREM InitIInv == Init => IInv
<1> SUFFICES ASSUME Init PROVE IInv
    OBVIOUS
<1> USE PoolAssumption
<1>1. TypeOK
  <2>1. Empty \in Block
    BY DEF Empty, Block
  <2>2. 0 \in 0 .. MaxWorkers /\ 1 \in 1 .. MaxWorkers /\ 0 \in 0 .. MaxRows
        /\ 0 \in 0 .. (GenMod - 1) /\ 0 \in Nat /\ 0 \in 0 .. 2
    OBVIOUS
  <2>3. /\ block \in [Slots -> Block] /\ sleeping \in [Slots -> BOOLEAN]
        /\ wake \in [Slots -> BOOLEAN] /\ own \in Block
    BY <2>1 DEF Init
  <2>4. /\ wpc \in [Threads -> WorkerPC] /\ seen \in [Threads -> 0 .. (GenMod - 1)]
        /\ drawn \in [Rows -> 0 .. 2]
    BY <2>2 DEF Init, WorkerPC
  <2> QED BY <2>2, <2>3, <2>4 DEF Init, TypeOK, SubmitPC
<1>2. Busy = {} /\ Crew = {}
    BY DEF Init, Busy, Crew, Slots
<1>3. NoStraggler /\ Control /\ Joined /\ Handed
    BY DEF Init, NoStraggler, Control, Joined, Handed, InRows, Closing
<1>4. Counting
    BY <1>2 DEF Init, Counting
<1>5. Painted
    BY DEF Init, Painted, InRows, Rows
<1> QED BY <1>1, <1>3, <1>4, <1>5 DEF IInv

\* The block boundaries put every row of the triangle in one block only.
LEMMA SomeOwner ==
    ASSUME NEW n \in Nat \ {0}, NEW h \in Nat, NEW r \in Rows
    PROVE  (\E s \in 0 .. (n - 1) : r \in RowsOf(Split(n, h, s))) <=> r < h
<1>1. ASSUME r < h PROVE \E s \in 0 .. (n - 1) : r \in RowsOf(Split(n, h, s))
  <2>1. r \in 0 .. (h - 1)
    BY <1>1 DEF Rows
  <2> QED BY <2>1, StartCover DEF RowsOf, Split
<1>2. ASSUME NEW s \in 0 .. (n - 1), r \in RowsOf(Split(n, h, s)) PROVE r < h
  <2>1. s + 1 \in 0 .. n
    OBVIOUS
  <2>2. Start(n, h, s + 1) \in 0 .. h
    BY <2>1, StartType
  <2> QED BY <1>2, <2>2 DEF RowsOf, Split, Rows
<1> QED BY <1>1, <1>2

\* No row is in the blocks of two members: the blocks do not overlap.
LEMMA OneOwner ==
    ASSUME NEW n \in Nat \ {0}, NEW h \in Nat, NEW r \in Rows,
           NEW s \in 0 .. (n - 1), NEW u \in 0 .. (n - 1),
           r \in RowsOf(Split(n, h, s)), r \in RowsOf(Split(n, h, u))
    PROVE  s = u
<1>1. ASSUME NEW i \in 0 .. (n - 1), NEW j \in 0 .. (n - 1), i < j,
             r \in RowsOf(Split(n, h, i)), r \in RowsOf(Split(n, h, j))
      PROVE  FALSE
  <2>0. i + 1 \in Nat /\ j \in Nat /\ i + 1 <= j
    BY <1>1
  <2>1. Start(n, h, i + 1) <= Start(n, h, j) /\ Start(n, h, j) \in Nat
        /\ Start(n, h, i + 1) \in Nat
    BY <2>0, StartStep
  <2> QED BY <1>1, <2>1 DEF RowsOf, Split, Rows
<1> QED BY <1>1

\* With nobody busy, no thread at all is past the generation check.
LEMMA QuietThreads ==
    ASSUME TypeOK, NoStraggler, \A s \in Crew : Quiet(<<inc, s>>)
    PROVE  \A t \in Threads : wpc[t] \notin {"check", "draw", "count"}
<1>1. ASSUME NEW t \in Threads, wpc[t] \in {"check", "draw", "count"}
      PROVE  FALSE
  <2>1. t = <<inc, t[2]>> /\ t[2] \in Crew
    BY <1>1 DEF NoStraggler, Threads
  <2> QED BY <1>1, <2>1 DEF Quiet
<1> QED BY <1>1

\* A worker in or past its draw call belongs to the job being waited for.
LEMMA Drawing ==
    ASSUME IInv, NEW t \in Threads,
           wpc[t] \in {"draw", "count"} \/ (wpc[t] = "check" /\ ~quit)
    PROVE  /\ spc \in {"wakeup", "wait"}
           /\ t = <<inc, t[2]>> /\ t[2] \in Crew
<1>1. t = <<inc, t[2]>> /\ t[2] \in Crew
  BY DEF IInv, NoStraggler, Threads
<1>2. spc \notin {"idle", "reset", "bump"}
  BY <1>1 DEF IInv, Counting, Busy, Quiet
<1>3. spc \notin {"closebump", "join", "joining"}
  BY DEF IInv, Joined, Closing, Control
<1>4. spc /= "clear"
  BY <1>1 DEF IInv, Control, Crew, Slots
<1> QED BY <1>1, <1>2, <1>3, <1>4 DEF IInv, TypeOK, SubmitPC

\* Who is busy depends on the workers' places and the generation alone.
LEMMA SameBusy ==
    ASSUME TypeOK, NEW t \in Threads,
           wpc' = [wpc EXCEPT ![t] = wpc'[t]],
           seen' = [seen EXCEPT ![t] = seen'[t]],
           UNCHANGED <<workers, gen, inc>>, Quiet(t)' <=> Quiet(t)
    PROVE  /\ Busy' = Busy
           /\ \A s \in Crew : Quiet(<<inc, s>>)' <=> Quiet(<<inc, s>>)
<1>1. \A u \in Threads : Quiet(u)' <=> Quiet(u)
  BY DEF Quiet, TypeOK
<1>2. \A s \in Crew : <<inc, s>> \in Threads
  BY DEF Crew, Threads, TypeOK
<1> QED BY <1>1, <1>2 DEF Busy, Crew

\* A worker's step that neither draws, counts nor changes its quietness.
LEMMA StillWorker ==
    ASSUME IInv, NEW t \in Threads,
           wpc' = [wpc EXCEPT ![t] = wpc'[t]],
           seen' = [seen EXCEPT ![t] = seen'[t]],
           UNCHANGED <<workers, gen, done, inc, spc, rows, drawn>>,
           Quiet(t)' <=> Quiet(t),
           wpc'[t] = "count" <=> wpc[t] = "count",
           wpc'[t] \in {"check", "draw", "count"} => seen'[t] = gen
    PROVE  Counting' /\ Painted'
<1> USE DEF IInv
<1>1. Busy' = Busy /\ \A s \in Crew : Quiet(<<inc, s>>)' <=> Quiet(<<inc, s>>)
  BY SameBusy
<1>2. \A u \in Threads : /\ wpc'[u] = "count" <=> wpc[u] = "count"
                         /\ u /= t => wpc'[u] = wpc[u] /\ seen'[u] = seen[u]
  BY DEF TypeOK
<1>3. Counting'
  BY <1>1, <1>2 DEF Counting
<1>4. Crew = 1 .. (workers - 1) \/ workers = 0
  BY CrewFinite DEF TypeOK
<1>5. \A s \in Crew : <<inc, s>> \in Threads
  BY DEF Crew, Threads, TypeOK
<1>6. \A s \in 0 .. (workers - 1) : HasDrawn(s)' <=> HasDrawn(s)
  BY <1>1, <1>2, <1>4, <1>5 DEF HasDrawn, TypeOK
<1>7. \A r \in Rows, s \in 0 .. (workers - 1) : Has(r, s)' <=> Has(r, s)
  BY DEF Has
<1>8. Painted'
  BY <1>6, <1>7 DEF Painted, InRows
<1> QED BY <1>3, <1>8

\* The rows of a worker that has not drawn yet are untouched.
LEMMA Undrawn ==
    ASSUME IInv, NEW t \in Threads, wpc[t] = "draw",
           NEW r \in RowsOf(block[t[2]])
    PROVE  drawn[r] = 0
<1> USE DEF IInv
<1>1. spc \in {"wakeup", "wait"} /\ t = <<inc, t[2]>> /\ t[2] \in Crew
  BY Drawing
<1>2. workers \in Nat \ {0} /\ rows \in Nat /\ Crew = 1 .. (workers - 1)
  BY <1>1, CrewFinite DEF Control, InRows, TypeOK
<1>3. block[t[2]] = Split(workers, rows, t[2])
  BY <1>1 DEF Handed, InRows
<1>4. r \in Rows /\ Has(r, t[2])
  BY <1>3 DEF Has, RowsOf
<1>5. \A s \in 0 .. (workers - 1) : Has(r, s) => s = t[2]
  BY <1>1, <1>2, <1>4, OneOwner DEF Has
<1>6. ~HasDrawn(t[2])
  BY <1>1, <1>2 DEF HasDrawn, Quiet
<1> QED BY <1>1, <1>4, <1>5, <1>6 DEF Painted

\* A worker that comes to "count" has drawn its own block and no other.
LEMMA ShareDrawn ==
    ASSUME IInv, NEW t \in Threads,
           wpc[t] = "draw" \/ (wpc[t] = "check" /\ ~quit),
           wpc' = [wpc EXCEPT ![t] = "count"],
           UNCHANGED <<workers, gen, inc, spc, rows, seen>>,
           \A r \in Rows : drawn'[r] = IF r \in RowsOf(block[t[2]])
                                       THEN 1 ELSE drawn[r]
    PROVE  Painted'
<1> USE DEF IInv
<1>1. spc \in {"wakeup", "wait"} /\ t = <<inc, t[2]>> /\ t[2] \in Crew
  BY Drawing
<1>2. workers \in Nat \ {0} /\ rows \in Nat /\ Crew = 1 .. (workers - 1)
  BY <1>1, CrewFinite DEF Control, InRows, TypeOK
<1>3. block[t[2]] = Split(workers, rows, t[2])
  BY <1>1 DEF Handed, InRows
<1>4. \A s \in Crew : <<inc, s>> \in Threads /\ (s /= t[2] => <<inc, s>> /= t)
  BY <1>1 DEF Crew, Threads, TypeOK
<1>5. \A s \in 0 .. (workers - 1) : s /= t[2] => (HasDrawn(s)' <=> HasDrawn(s))
  BY <1>2, <1>4 DEF HasDrawn, Quiet, TypeOK
<1>6. HasDrawn(t[2])' /\ ~HasDrawn(t[2])
  <2>1. t[2] /= 0 /\ wpc'[t] = "count" /\ inc' = inc
    BY <1>1, <1>2 DEF TypeOK
  <2>2. wpc[t] /= "count" /\ ~Quiet(t)
    BY DEF Quiet
  <2> QED BY <1>1, <2>1, <2>2 DEF HasDrawn
<1>7. \A r \in Rows, s \in 0 .. (workers - 1) : Has(r, s)' <=> Has(r, s)
  BY DEF Has
<1>8. \A r \in Rows : drawn[r] = IF \E s \in 0 .. (workers - 1) :
                                         Has(r, s) /\ HasDrawn(s)
                                 THEN 1 ELSE 0
  BY <1>1 DEF Painted
<1>9. ASSUME NEW r \in Rows
      PROVE  drawn'[r] = IF \E s \in 0 .. (workers - 1) :
                                 Has(r, s) /\ HasDrawn(s)'
                         THEN 1 ELSE 0
  <2>1. r \in RowsOf(block[t[2]]) <=> Has(r, t[2])
    BY <1>3 DEF Has
  <2>2. CASE Has(r, t[2])
    BY <2>1, <2>2, <1>1, <1>2, <1>6
  <2>3. CASE ~Has(r, t[2])
    BY <2>1, <2>3, <1>5, <1>8
  <2> QED BY <2>2, <2>3
<1> QED BY <1>1, <1>7, <1>9 DEF Painted, InRows

\* Open preserves the inductive invariant.
LEMMA OpenStep ==
    ASSUME IInv, Open
    PROVE  IInv'
<1> USE PoolAssumption DEF IInv
<1>1. TypeOK'
  <2> PICK i \in Incarnations, n \in 1 .. MaxWorkers :
            /\ \A s \in Slots : wpc[<<i, s>>] = "none"
            /\ inc' = i /\ workers' = n
            /\ wpc' = [t \in Threads |-> IF t[1] = i /\ t[2] < n
                                         THEN "spin" ELSE wpc[t]]
            /\ seen' = [t \in Threads |-> IF t[1] = i THEN 0 ELSE seen[t]]
            /\ wake' = [s \in Slots |-> IF s < n THEN FALSE ELSE wake[s]]
    BY DEF Open
  <2>1. wpc' \in [Threads -> WorkerPC]
    BY DEF TypeOK, WorkerPC
  <2>2. 0 \in 0 .. (GenMod - 1) /\ n \in 0 .. MaxWorkers /\ 0 \in Nat
    OBVIOUS
  <2>3. seen' \in [Threads -> 0 .. (GenMod - 1)]
    BY <2>2 DEF TypeOK
  <2>4. wake' \in [Slots -> BOOLEAN]
    BY DEF TypeOK
  <2> QED BY <2>1, <2>2, <2>3, <2>4 DEF TypeOK, Open, At
<1>2. NoStraggler'
  <2>1. \A t \in Threads : wpc[t] = "none"
    BY DEF NoStraggler, Crew, Slots, Open, TypeOK
  <2>2. ASSUME NEW t \in Threads, wpc'[t] /= "none"
        PROVE  t[1] = inc' /\ t[2] \in Slots /\ t[2] < workers'
    BY <2>1, <2>2 DEF Open, Threads
  <2> QED BY <2>2 DEF NoStraggler, Crew
<1>3. Control'
    BY DEF Control, InRows, Closing, TypeOK, Open, At, vars, shared, submit
<1>4. Counting'
  <2>1. \A s \in Slots : s < workers' => Quiet(<<inc, s>>)'
    BY DEF Open, Quiet, Threads
  <2> QED BY <2>1 DEF Counting, Busy, Crew, Open, At
<1>5. Joined'
    BY DEF Joined, Closing, TypeOK, Open, At, vars, shared, submit
<1>6. Handed'
    BY DEF Handed, InRows, Crew, TypeOK, Open, At, vars, shared, submit
<1>7. Painted'
    BY DEF Painted, InRows, Has, HasDrawn, Quiet, TypeOK, Open, At, vars, shared, submit
<1> QED BY <1>1, <1>2, <1>3, <1>4, <1>5, <1>6, <1>7

\* RowsAlone preserves the inductive invariant.
LEMMA RowsAloneStep ==
    ASSUME IInv, RowsAlone
    PROVE  IInv'
<1> USE PoolAssumption DEF IInv
<1>1. TypeOK'
    BY DEF TypeOK, SubmitPC, WorkerPC, Threads, Slots, Rows, Block, RowsAlone, At, vars, shared, submit
<1>2. NoStraggler'
    BY DEF NoStraggler, Crew, TypeOK, RowsAlone, At, vars, shared, submit
<1>3. Control'
    BY DEF Control, InRows, Closing, TypeOK, RowsAlone, At, vars, shared, submit
<1>4. Counting'
    BY DEF Counting, Busy, Crew, Quiet, TypeOK, RowsAlone, At, vars, shared, submit
<1>5. Joined'
    BY DEF Joined, Closing, TypeOK, RowsAlone, At, vars, shared, submit
<1>6. Handed'
    BY DEF Handed, InRows, Crew, TypeOK, RowsAlone, At, vars, shared, submit
<1>7. Painted'
    BY DEF Painted, InRows, Has, HasDrawn, Quiet, TypeOK, RowsAlone, At, vars, shared, submit
<1> QED BY <1>1, <1>2, <1>3, <1>4, <1>5, <1>6, <1>7

\* Publish preserves the inductive invariant.
LEMMA PublishStep ==
    ASSUME IInv, Publish
    PROVE  IInv'
<1> USE PoolAssumption DEF IInv
<1>1. TypeOK'
  <2> PICK r \in 1 .. MaxRows :
            /\ rows' = r
            /\ block' = [s \in Slots |-> IF s < workers
                                         THEN Split(workers, r, s)
                                         ELSE block[s]]
            /\ own' = Split(workers, r, 0)
    BY DEF Publish
  <2>1. workers \in 1 .. MaxWorkers /\ r \in 0 .. MaxRows /\ MaxWorkers \in Nat
    BY DEF Publish, TypeOK
  <2>2. own' \in Block
    BY <2>1, SplitType
  <2>3. ASSUME NEW s \in Slots PROVE block'[s] \in Block
    <3>1. CASE s < workers
      <4>1. s \in 0 .. (workers - 1)
        BY <2>1, <3>1 DEF Slots
      <4> QED BY <2>1, <3>1, <4>1, SplitType
    <3>2. CASE ~(s < workers)
      BY <3>2 DEF TypeOK
    <3> QED BY <3>1, <3>2
  <2>4. block' \in [Slots -> Block]
    BY <2>3
  <2>5. drawn' \in [Rows -> 0 .. 2]
    BY DEF Publish
  <2> QED BY <2>1, <2>2, <2>4, <2>5 DEF TypeOK, SubmitPC, Publish, At
<1>2. NoStraggler'
    BY DEF NoStraggler, Crew, TypeOK, Publish, At, vars, shared, submit
<1>3. Control'
    BY DEF Control, InRows, Closing, TypeOK, Publish, At, vars, shared, submit
<1>4. Counting'
    BY DEF Counting, Busy, Crew, Quiet, TypeOK, Publish, At, vars, shared, submit
<1>5. Joined'
    BY DEF Joined, Closing, TypeOK, Publish, At, vars, shared, submit
<1>6. Handed'
    BY DEF Handed, InRows, Crew, TypeOK, Publish, At, vars, shared, submit
<1>7. Painted'
    BY DEF Painted, InRows, Has, HasDrawn, Quiet, TypeOK, Publish, At, vars, shared, submit
<1> QED BY <1>1, <1>2, <1>3, <1>4, <1>5, <1>6, <1>7

\* ResetDone preserves the inductive invariant.
LEMMA ResetDoneStep ==
    ASSUME IInv, ResetDone
    PROVE  IInv'
<1> USE PoolAssumption DEF IInv
<1>1. TypeOK'
    BY DEF TypeOK, SubmitPC, WorkerPC, Threads, Slots, Rows, Block, ResetDone, At, vars, shared, submit
<1>2. NoStraggler'
    BY DEF NoStraggler, Crew, TypeOK, ResetDone, At, vars, shared, submit
<1>3. Control'
    BY DEF Control, InRows, Closing, TypeOK, ResetDone, At, vars, shared, submit
<1>4. Counting'
    BY DEF Counting, Busy, Crew, Quiet, TypeOK, ResetDone, At, vars, shared, submit
<1>5. Joined'
    BY DEF Joined, Closing, TypeOK, ResetDone, At, vars, shared, submit
<1>6. Handed'
    BY DEF Handed, InRows, Crew, TypeOK, ResetDone, At, vars, shared, submit
<1>7. Painted'
    BY DEF Painted, InRows, Has, HasDrawn, Quiet, TypeOK, ResetDone, At, vars, shared, submit
<1> QED BY <1>1, <1>2, <1>3, <1>4, <1>5, <1>6, <1>7

\* BumpGen preserves the inductive invariant.
LEMMA BumpGenStep ==
    ASSUME IInv, BumpGen
    PROVE  IInv'
<1> USE PoolAssumption DEF IInv
<1>1. TypeOK'
  <2>1. gen' \in 0 .. (GenMod - 1) /\ 1 \in 1 .. MaxWorkers
    BY NextGen DEF TypeOK, BumpGen
  <2> QED BY <2>1 DEF TypeOK, SubmitPC, BumpGen, At
<1>2. NoStraggler'
    BY DEF NoStraggler, Crew, TypeOK, BumpGen, At, vars, shared, submit
<1>3. Control'
    BY DEF Control, InRows, Closing, TypeOK, BumpGen, At, vars, shared, submit
<1>4. Counting'
  <2>1. Busy = {} /\ done = 0 /\ workers > 1 /\ gen' /= gen
    BY NextGen DEF Counting, Control, InRows, BumpGen, At, TypeOK
  <2>2. \A s \in Crew : Quiet(<<inc, s>>)
    BY <2>1 DEF Busy
  <2>3. Busy' = Crew
    BY <2>1, <2>2 DEF Busy, Crew, Quiet, BumpGen
  <2>4. \A t \in Threads : wpc[t] \notin {"check", "draw", "count"}
    BY <2>2, QuietThreads
  <2>5. Cardinality(Crew) = workers - 1
    BY <2>1, CrewFinite DEF TypeOK
  <2>6. \A t \in Threads : wpc'[t] \notin {"check", "draw", "count"}
    BY <2>4 DEF BumpGen
  <2>7. done' = 0 /\ workers' = workers /\ spc' = "wakeup"
        /\ workers - 1 = 0 + (workers - 1)
    BY <2>1 DEF BumpGen, At, TypeOK
  <2> QED BY <2>3, <2>5, <2>6, <2>7 DEF Counting
<1>5. Joined'
    BY DEF Joined, Closing, TypeOK, BumpGen, At, vars, shared, submit
<1>6. Handed'
    BY DEF Handed, InRows, Crew, TypeOK, BumpGen, At, vars, shared, submit
<1>7. Painted'
  <2>1. gen' /= gen /\ \A s \in Crew : Quiet(<<inc, s>>)
    BY NextGen DEF Counting, Busy, BumpGen, At, TypeOK
  <2>2. workers > 1 /\ workers \in Nat /\ Crew = 1 .. (workers - 1)
    BY CrewFinite DEF Control, InRows, BumpGen, At, TypeOK
  <2>3. \A s \in 0 .. (workers - 1) : ~HasDrawn(s)'
    BY <2>1, <2>2 DEF HasDrawn, Quiet, BumpGen, At
  <2>4. \A r \in Rows : drawn'[r] = 0
    BY DEF Painted, BumpGen, At
  <2> QED BY <2>3, <2>4 DEF Painted, InRows, BumpGen, At
<1> QED BY <1>1, <1>2, <1>3, <1>4, <1>5, <1>6, <1>7

\* WakeSlot preserves the inductive invariant.
LEMMA WakeSlotStep ==
    ASSUME IInv, WakeSlot
    PROVE  IInv'
<1> USE PoolAssumption DEF IInv
<1>1. TypeOK'
    BY DEF TypeOK, SubmitPC, WorkerPC, Threads, Slots, Rows, Block, WakeSlot, At, vars, shared, submit
<1>2. NoStraggler'
    BY DEF NoStraggler, Crew, TypeOK, WakeSlot, At, vars, shared, submit
<1>3. Control'
    BY DEF Control, InRows, Closing, TypeOK, WakeSlot, At, vars, shared, submit
<1>4. Counting'
    BY DEF Counting, Busy, Crew, Quiet, TypeOK, WakeSlot, At, vars, shared, submit
<1>5. Joined'
    BY DEF Joined, Closing, TypeOK, WakeSlot, At, vars, shared, submit
<1>6. Handed'
    BY DEF Handed, InRows, Crew, TypeOK, WakeSlot, At, vars, shared, submit
<1>7. Painted'
    BY DEF Painted, InRows, Has, HasDrawn, Quiet, TypeOK, WakeSlot, At, vars, shared, submit
<1> QED BY <1>1, <1>2, <1>3, <1>4, <1>5, <1>6, <1>7

\* OwnShare preserves the inductive invariant.
LEMMA OwnShareStep ==
    ASSUME IInv, OwnShare
    PROVE  IInv'
<1> USE PoolAssumption DEF IInv
<1>1. TypeOK'
  <2>1. drawn' \in [Rows -> 0 .. 2]
    BY DEF TypeOK, OwnShare, Draw
  <2> QED BY <2>1 DEF TypeOK, SubmitPC, OwnShare, At, shared
<1>2. NoStraggler'
    BY DEF NoStraggler, Crew, TypeOK, OwnShare, At, vars, shared, submit
<1>3. Control'
    BY DEF Control, InRows, Closing, TypeOK, OwnShare, At, vars, shared, submit
<1>4. Counting'
    BY DEF Counting, Busy, Crew, Quiet, TypeOK, OwnShare, At, vars, shared, submit
<1>5. Joined'
    BY DEF Joined, Closing, TypeOK, OwnShare, At, vars, shared, submit
<1>6. Handed'
    BY DEF Handed, InRows, Crew, TypeOK, OwnShare, At, vars, shared, submit
<1>7. Painted'
  <2>1. workers > 1 /\ workers \in Nat /\ Crew = 1 .. (workers - 1)
        /\ own = Split(workers, rows, 0)
    BY CrewFinite DEF Control, Handed, InRows, OwnShare, At, TypeOK
  <2>2. \A s \in 1 .. (workers - 1) : HasDrawn(s)' <=> HasDrawn(s)
    BY DEF HasDrawn, Quiet, OwnShare, shared
  <2>3. HasDrawn(0)' /\ ~HasDrawn(0) /\ 0 \in 0 .. (workers - 1)
    BY <2>1 DEF HasDrawn, OwnShare, At
  <2>4. \A r \in Rows : drawn[r] = IF \E s \in 0 .. (workers - 1) :
                                           Has(r, s) /\ HasDrawn(s)
                                   THEN 1 ELSE 0
    BY DEF Painted, OwnShare, At
  <2>5. \A r \in Rows, s \in 0 .. (workers - 1) : Has(r, s)' <=> Has(r, s)
    BY DEF Has, OwnShare, shared
  <2>6. \A r \in Rows : r \in RowsOf(own) <=> Has(r, 0)
    BY <2>1 DEF Has
  <2>7. ASSUME NEW r \in Rows
        PROVE  drawn'[r] = IF \E s \in 0 .. (workers - 1) :
                                   Has(r, s) /\ HasDrawn(s)'
                           THEN 1 ELSE 0
    <3>1. CASE Has(r, 0)
      <4>1. \A s \in 0 .. (workers - 1) : Has(r, s) => s = 0
        BY <3>1, <2>1, OneOwner DEF Has, TypeOK
      <4>2. drawn[r] = 0
        BY <4>1, <2>3, <2>4
      <4>3. drawn'[r] = 1
        BY <4>2, <3>1, <2>6 DEF OwnShare, Draw, TypeOK
      <4> QED BY <4>3, <3>1, <2>3
    <3>2. CASE ~Has(r, 0)
      <4>1. drawn'[r] = drawn[r]
        BY <3>2, <2>6 DEF OwnShare, Draw, TypeOK
      <4>2. \A s \in 0 .. (workers - 1) :
                Has(r, s) => s \in 1 .. (workers - 1)
        BY <3>2, <2>1
      <4> QED BY <4>1, <4>2, <2>2, <2>4
    <3> QED BY <3>1, <3>2
  <2>8. workers' = workers
    BY DEF OwnShare, shared
  <2> QED BY <2>5, <2>7, <2>8 DEF Painted, InRows, OwnShare, At
<1> QED BY <1>1, <1>2, <1>3, <1>4, <1>5, <1>6, <1>7

\* Return preserves the inductive invariant.
LEMMA ReturnStep ==
    ASSUME IInv, Return
    PROVE  IInv'
<1> USE PoolAssumption DEF IInv
<1>1. TypeOK'
    BY DEF TypeOK, SubmitPC, WorkerPC, Threads, Slots, Rows, Block, Return, At, vars, shared, submit
<1>2. NoStraggler'
    BY DEF NoStraggler, Crew, TypeOK, Return, At, vars, shared, submit
<1>3. Control'
    BY DEF Control, InRows, Closing, TypeOK, Return, At, vars, shared, submit
<1>4. Counting'
  <2>1. done + Cardinality(Busy) = workers - 1 /\ done >= workers - 1
    BY DEF Counting, Return, At
  <2>2. Cardinality(Busy) = 0
    BY <2>1, CrewFinite DEF TypeOK
  <2>3. Busy = {}
    BY <2>2, CrewFinite, FS_EmptySet
  <2>4. Busy' = Busy
    BY DEF Busy, Crew, Quiet, Return, shared
  <2> QED BY <2>3, <2>4 DEF Counting, Return, At
<1>5. Joined'
    BY DEF Joined, Closing, TypeOK, Return, At, vars, shared, submit
<1>6. Handed'
    BY DEF Handed, InRows, Crew, TypeOK, Return, At, vars, shared, submit
<1>7. Painted'
  <2>1. workers > 1 /\ workers \in Nat /\ Crew = 1 .. (workers - 1)
        /\ rows \in Nat /\ spc = "wait"
    BY CrewFinite DEF Control, InRows, Return, At, TypeOK
  <2>2. \A s \in Crew : Quiet(<<inc, s>>)
    <3>1. Counting'
      BY <1>4
    <3> QED BY <3>1 DEF Counting, Busy, Crew, Quiet, Return, At, shared
  <2>3. \A s \in 0 .. (workers - 1) : HasDrawn(s)
    BY <2>1, <2>2 DEF HasDrawn
  <2>4. ASSUME NEW r \in Rows PROVE drawn[r] = IF r < rows THEN 1 ELSE 0
    <3>1. drawn[r] = IF \E s \in 0 .. (workers - 1) : Has(r, s) THEN 1 ELSE 0
      BY <2>1, <2>3 DEF Painted
    <3>2. (\E s \in 0 .. (workers - 1) : Has(r, s)) <=> r < rows
      BY <2>1, SomeOwner DEF Has
    <3> QED BY <3>1, <3>2
  <2> QED BY <2>4 DEF Painted, InRows, Return, At
<1> QED BY <1>1, <1>2, <1>3, <1>4, <1>5, <1>6, <1>7

\* CloseAlone preserves the inductive invariant.
LEMMA CloseAloneStep ==
    ASSUME IInv, CloseAlone
    PROVE  IInv'
<1> USE PoolAssumption DEF IInv
<1>1. TypeOK'
  <2>1. 0 \in 0 .. MaxWorkers /\ 0 \in 0 .. (GenMod - 1) /\ 0 \in Nat
    OBVIOUS
  <2> QED BY <2>1 DEF TypeOK, SubmitPC, CloseAlone, At
<1>2. NoStraggler'
  <2>1. Crew = {}
    BY DEF Crew, Slots, CloseAlone
  <2> QED BY <2>1 DEF NoStraggler, CloseAlone
<1>3. Control'
    BY DEF Control, InRows, Closing, TypeOK, CloseAlone, At, vars, shared, submit
<1>4. Counting'
  <2>1. Busy' = {}
    BY DEF Busy, Crew, Slots, CloseAlone
  <2> QED BY <2>1 DEF Counting, CloseAlone, At
<1>5. Joined'
    BY DEF Joined, Closing, TypeOK, CloseAlone, At, vars, shared, submit
<1>6. Handed'
    BY DEF Handed, InRows, Crew, TypeOK, CloseAlone, At, vars, shared, submit
<1>7. Painted'
    BY DEF Painted, InRows, Has, HasDrawn, Quiet, TypeOK, CloseAlone, At, vars, shared, submit
<1> QED BY <1>1, <1>2, <1>3, <1>4, <1>5, <1>6, <1>7

\* CloseQuit preserves the inductive invariant.
LEMMA CloseQuitStep ==
    ASSUME IInv, CloseQuit
    PROVE  IInv'
<1> USE PoolAssumption DEF IInv
<1>1. TypeOK'
    BY DEF TypeOK, SubmitPC, WorkerPC, Threads, Slots, Rows, Block, CloseQuit, At, vars, shared, submit
<1>2. NoStraggler'
    BY DEF NoStraggler, Crew, TypeOK, CloseQuit, At, vars, shared, submit
<1>3. Control'
    BY DEF Control, InRows, Closing, TypeOK, CloseQuit, At, vars, shared, submit
<1>4. Counting'
    BY DEF Counting, Busy, Crew, Quiet, TypeOK, CloseQuit, At, vars, shared, submit
<1>5. Joined'
  <2>1. \A t \in Threads : wpc[t] \notin {"check", "draw", "count"}
    BY QuietThreads DEF Counting, CloseQuit, At, Busy
  <2> QED BY <2>1 DEF Joined, CloseQuit, At
<1>6. Handed'
    BY DEF Handed, InRows, Crew, TypeOK, CloseQuit, At, vars, shared, submit
<1>7. Painted'
    BY DEF Painted, InRows, Has, HasDrawn, Quiet, TypeOK, CloseQuit, At, vars, shared, submit
<1> QED BY <1>1, <1>2, <1>3, <1>4, <1>5, <1>6, <1>7

\* CloseBump preserves the inductive invariant.
LEMMA CloseBumpStep ==
    ASSUME IInv, CloseBump
    PROVE  IInv'
<1> USE PoolAssumption DEF IInv
<1>1. TypeOK'
  <2>1. gen' \in 0 .. (GenMod - 1) /\ 1 \in 1 .. MaxWorkers
    BY NextGen DEF TypeOK, CloseBump
  <2> QED BY <2>1 DEF TypeOK, SubmitPC, CloseBump, At
<1>2. NoStraggler'
    BY DEF NoStraggler, Crew, TypeOK, CloseBump, At, vars, shared, submit
<1>3. Control'
    BY DEF Control, InRows, Closing, TypeOK, CloseBump, At, vars, shared, submit
<1>4. Counting'
    BY DEF Counting, Busy, Crew, Quiet, TypeOK, CloseBump, At, vars, shared, submit
<1>5. Joined'
    BY DEF Joined, Closing, CloseBump, At, Slots
<1>6. Handed'
    BY DEF Handed, InRows, Crew, TypeOK, CloseBump, At, vars, shared, submit
<1>7. Painted'
    BY DEF Painted, InRows, Has, HasDrawn, Quiet, TypeOK, CloseBump, At, vars, shared, submit
<1> QED BY <1>1, <1>2, <1>3, <1>4, <1>5, <1>6, <1>7

\* CloseSignal preserves the inductive invariant.
LEMMA CloseSignalStep ==
    ASSUME IInv, CloseSignal
    PROVE  IInv'
<1> USE PoolAssumption DEF IInv
<1>1. TypeOK'
    BY DEF TypeOK, SubmitPC, WorkerPC, Threads, Slots, Rows, Block, CloseSignal, At, vars, shared, submit
<1>2. NoStraggler'
    BY DEF NoStraggler, Crew, TypeOK, CloseSignal, At, vars, shared, submit
<1>3. Control'
    BY DEF Control, InRows, Closing, TypeOK, CloseSignal, At, vars, shared, submit
<1>4. Counting'
    BY DEF Counting, Busy, Crew, Quiet, TypeOK, CloseSignal, At, vars, shared, submit
<1>5. Joined'
    BY DEF Joined, Closing, TypeOK, CloseSignal, At, vars, shared, submit
<1>6. Handed'
    BY DEF Handed, InRows, Crew, TypeOK, CloseSignal, At, vars, shared, submit
<1>7. Painted'
    BY DEF Painted, InRows, Has, HasDrawn, Quiet, TypeOK, CloseSignal, At, vars, shared, submit
<1> QED BY <1>1, <1>2, <1>3, <1>4, <1>5, <1>6, <1>7

\* CloseJoin preserves the inductive invariant.
LEMMA CloseJoinStep ==
    ASSUME IInv, CloseJoin, CloseMayTimeOut = FALSE
    PROVE  IInv'
<1> USE PoolAssumption DEF IInv
<1>1. TypeOK'
  <2>1. slot < workers /\ workers \in 0 .. MaxWorkers /\ slot \in 1 .. MaxWorkers
    BY DEF CloseJoin, At, TypeOK, Joined
  <2>2. slot + 1 \in 1 .. MaxWorkers
    BY <2>1
  <2> QED BY <2>2 DEF TypeOK, SubmitPC, CloseJoin, At, shared
<1>2. NoStraggler'
    BY DEF NoStraggler, Crew, TypeOK, CloseJoin, At, vars, shared, submit
<1>3. Control'
    BY DEF Control, InRows, Closing, TypeOK, CloseJoin, At, vars, shared, submit
<1>4. Counting'
    BY DEF Counting, Busy, Crew, Quiet, TypeOK, CloseJoin, At, vars, shared, submit
<1>5. Joined'
  <2>1. ASSUME NEW s \in Slots, s < slot + 1 PROVE wpc[<<inc, s>>] = "none"
    <3>1. s < slot \/ s = slot
      BY <2>1 DEF Slots, TypeOK
    <3> QED BY <3>1 DEF Joined, CloseJoin, At
  <2> QED BY <2>1 DEF Joined, Closing, CloseJoin, At, shared
<1>6. Handed'
    BY DEF Handed, InRows, Crew, TypeOK, CloseJoin, At, vars, shared, submit
<1>7. Painted'
    BY DEF Painted, InRows, Has, HasDrawn, Quiet, TypeOK, CloseJoin, At, vars, shared, submit
<1> QED BY <1>1, <1>2, <1>3, <1>4, <1>5, <1>6, <1>7

\* CloseClearGen preserves the inductive invariant.
LEMMA CloseClearGenStep ==
    ASSUME IInv, CloseClearGen
    PROVE  IInv'
<1> USE PoolAssumption DEF IInv
<1>1. TypeOK'
    BY DEF TypeOK, SubmitPC, WorkerPC, Threads, Slots, Rows, Block, CloseClearGen, At, vars, shared, submit
<1>2. NoStraggler'
  <2>1. ASSUME NEW t \in Threads PROVE wpc[t] = "none"
    <3>1. SUFFICES ASSUME wpc[t] /= "none" PROVE FALSE
      OBVIOUS
    <3>2. t = <<inc, t[2]>> /\ t[2] \in Slots /\ t[2] < workers
      BY <3>1 DEF NoStraggler, Crew, Threads
    <3>3. t[2] < slot
      BY <3>2 DEF CloseClearGen, TypeOK, Slots
    <3> QED BY <3>1, <3>2, <3>3 DEF Joined, CloseClearGen, At
  <2> QED BY <2>1 DEF NoStraggler, CloseClearGen
<1>3. Control'
    BY DEF Control, InRows, Closing, TypeOK, CloseClearGen, At, vars, shared, submit
<1>4. Counting'
    BY DEF Counting, Busy, Crew, Quiet, TypeOK, CloseClearGen, At, vars, shared, submit
<1>5. Joined'
    BY DEF Joined, Closing, TypeOK, CloseClearGen, At, vars, shared, submit
<1>6. Handed'
    BY DEF Handed, InRows, Crew, TypeOK, CloseClearGen, At, vars, shared, submit
<1>7. Painted'
    BY DEF Painted, InRows, Has, HasDrawn, Quiet, TypeOK, CloseClearGen, At, vars, shared, submit
<1> QED BY <1>1, <1>2, <1>3, <1>4, <1>5, <1>6, <1>7

\* CloseClear preserves the inductive invariant.
LEMMA CloseClearStep ==
    ASSUME IInv, CloseClear
    PROVE  IInv'
<1> USE PoolAssumption DEF IInv
<1>1. TypeOK'
    BY DEF TypeOK, SubmitPC, WorkerPC, Threads, Slots, Rows, Block, CloseClear, At, vars, shared, submit
<1>2. NoStraggler'
    BY DEF NoStraggler, Crew, TypeOK, CloseClear, At, vars, shared, submit
<1>3. Control'
    BY DEF Control, InRows, Closing, TypeOK, CloseClear, At, vars, shared, submit
<1>4. Counting'
  <2>1. Busy' = {}
    BY DEF Busy, Crew, Slots, CloseClear, Control, At
  <2> QED BY <2>1 DEF Counting, CloseClear, At
<1>5. Joined'
    BY DEF Joined, Closing, TypeOK, CloseClear, At, vars, shared, submit
<1>6. Handed'
    BY DEF Handed, InRows, Crew, TypeOK, CloseClear, At, vars, shared, submit
<1>7. Painted'
    BY DEF Painted, InRows, Has, HasDrawn, Quiet, TypeOK, CloseClear, At, vars, shared, submit
<1> QED BY <1>1, <1>2, <1>3, <1>4, <1>5, <1>6, <1>7

\* SawGen preserves the inductive invariant.
LEMMA SawGenStep ==
    ASSUME IInv, NEW t \in Threads, SawGen(t)
    PROVE  IInv'
<1> USE PoolAssumption DEF IInv
<1>1. TypeOK'
    BY DEF TypeOK, SubmitPC, WorkerPC, Threads, Slots, Rows, Block, SawGen, WAt, vars, shared, submit
<1>2. NoStraggler'
    BY DEF NoStraggler, Crew, TypeOK, SawGen, WAt, vars, shared, submit
<1>3. Control'
    BY DEF Control, InRows, Closing, TypeOK, SawGen, WAt, vars, shared, submit
<1>4. Counting'
    BY StillWorker DEF SawGen, WAt, Quiet, TypeOK, shared, submit
<1>5. Joined'
    BY DEF Joined, Closing, TypeOK, SawGen, WAt, vars, shared, submit
<1>6. Handed'
    BY DEF Handed, InRows, Crew, TypeOK, SawGen, WAt, vars, shared, submit
<1>7. Painted'
    BY StillWorker DEF SawGen, WAt, Quiet, TypeOK, shared, submit
<1> QED BY <1>1, <1>2, <1>3, <1>4, <1>5, <1>6, <1>7

\* SawQuit preserves the inductive invariant.
LEMMA SawQuitStep ==
    ASSUME IInv, NEW t \in Threads, SawQuit(t)
    PROVE  IInv'
<1> USE PoolAssumption DEF IInv
<1>1. TypeOK'
    BY DEF TypeOK, SubmitPC, WorkerPC, Threads, Slots, Rows, Block, SawQuit, WAt, vars, shared, submit
<1>2. NoStraggler'
    BY DEF NoStraggler, Crew, TypeOK, SawQuit, WAt, vars, shared, submit
<1>3. Control'
    BY DEF Control, InRows, Closing, TypeOK, SawQuit, WAt, vars, shared, submit
<1>4. Counting'
    BY DEF Counting, Control, SawQuit, submit, shared
<1>5. Joined'
    BY DEF Joined, Closing, TypeOK, SawQuit, WAt, vars, shared, submit
<1>6. Handed'
    BY DEF Handed, InRows, Crew, TypeOK, SawQuit, WAt, vars, shared, submit
<1>7. Painted'
    BY DEF Painted, InRows, Control, SawQuit, submit, shared
<1> QED BY <1>1, <1>2, <1>3, <1>4, <1>5, <1>6, <1>7

\* SawSame preserves the inductive invariant.
LEMMA SawSameStep ==
    ASSUME IInv, NEW t \in Threads, SawSame(t)
    PROVE  IInv'
<1> USE PoolAssumption DEF IInv
<1>1. TypeOK'
    BY DEF TypeOK, SubmitPC, WorkerPC, Threads, Slots, Rows, Block, SawSame, WAt, vars, shared, submit
<1>2. NoStraggler'
    BY DEF NoStraggler, Crew, TypeOK, SawSame, WAt, vars, shared, submit
<1>3. Control'
    BY DEF Control, InRows, Closing, TypeOK, SawSame, WAt, vars, shared, submit
<1>4. Counting'
    BY StillWorker DEF SawSame, WAt, Quiet, TypeOK, shared, submit
<1>5. Joined'
    BY DEF Joined, Closing, TypeOK, SawSame, WAt, vars, shared, submit
<1>6. Handed'
    BY DEF Handed, InRows, Crew, TypeOK, SawSame, WAt, vars, shared, submit
<1>7. Painted'
    BY StillWorker DEF SawSame, WAt, Quiet, TypeOK, shared, submit
<1> QED BY <1>1, <1>2, <1>3, <1>4, <1>5, <1>6, <1>7

\* SpinOn preserves the inductive invariant.
LEMMA SpinOnStep ==
    ASSUME IInv, NEW t \in Threads, SpinOn(t)
    PROVE  IInv'
<1> USE PoolAssumption DEF IInv
<1>1. TypeOK'
    BY DEF TypeOK, SubmitPC, WorkerPC, Threads, Slots, Rows, Block, SpinOn, WAt, vars, shared, submit
<1>2. NoStraggler'
    BY DEF NoStraggler, Crew, TypeOK, SpinOn, WAt, vars, shared, submit
<1>3. Control'
    BY DEF Control, InRows, Closing, TypeOK, SpinOn, WAt, vars, shared, submit
<1>4. Counting'
    BY StillWorker DEF SpinOn, WAt, Quiet, TypeOK, shared, submit
<1>5. Joined'
    BY DEF Joined, Closing, TypeOK, SpinOn, WAt, vars, shared, submit
<1>6. Handed'
    BY DEF Handed, InRows, Crew, TypeOK, SpinOn, WAt, vars, shared, submit
<1>7. Painted'
    BY StillWorker DEF SpinOn, WAt, Quiet, TypeOK, shared, submit
<1> QED BY <1>1, <1>2, <1>3, <1>4, <1>5, <1>6, <1>7

\* Drowse preserves the inductive invariant.
LEMMA DrowseStep ==
    ASSUME IInv, NEW t \in Threads, Drowse(t)
    PROVE  IInv'
<1> USE PoolAssumption DEF IInv
<1>1. TypeOK'
    BY DEF TypeOK, SubmitPC, WorkerPC, Threads, Slots, Rows, Block, Drowse, WAt, vars, shared, submit
<1>2. NoStraggler'
    BY DEF NoStraggler, Crew, TypeOK, Drowse, WAt, vars, shared, submit
<1>3. Control'
    BY DEF Control, InRows, Closing, TypeOK, Drowse, WAt, vars, shared, submit
<1>4. Counting'
    BY StillWorker DEF Drowse, WAt, Quiet, TypeOK, shared, submit
<1>5. Joined'
    BY DEF Joined, Closing, TypeOK, Drowse, WAt, vars, shared, submit
<1>6. Handed'
    BY DEF Handed, InRows, Crew, TypeOK, Drowse, WAt, vars, shared, submit
<1>7. Painted'
    BY StillWorker DEF Drowse, WAt, Quiet, TypeOK, shared, submit
<1> QED BY <1>1, <1>2, <1>3, <1>4, <1>5, <1>6, <1>7

\* Recheck preserves the inductive invariant.
LEMMA RecheckStep ==
    ASSUME IInv, NEW t \in Threads, Recheck(t)
    PROVE  IInv'
<1> USE PoolAssumption DEF IInv
<1>1. TypeOK'
    BY DEF TypeOK, SubmitPC, WorkerPC, Threads, Slots, Rows, Block, Recheck, WAt, vars, shared, submit
<1>2. NoStraggler'
    BY DEF NoStraggler, Crew, TypeOK, Recheck, WAt, vars, shared, submit
<1>3. Control'
    BY DEF Control, InRows, Closing, TypeOK, Recheck, WAt, vars, shared, submit
<1>4. Counting'
    BY StillWorker DEF Recheck, WAt, Quiet, TypeOK, shared, submit
<1>5. Joined'
    BY DEF Joined, Closing, TypeOK, Recheck, WAt, vars, shared, submit
<1>6. Handed'
    BY DEF Handed, InRows, Crew, TypeOK, Recheck, WAt, vars, shared, submit
<1>7. Painted'
    BY StillWorker DEF Recheck, WAt, Quiet, TypeOK, shared, submit
<1> QED BY <1>1, <1>2, <1>3, <1>4, <1>5, <1>6, <1>7

\* Woken preserves the inductive invariant.
LEMMA WokenStep ==
    ASSUME IInv, NEW t \in Threads, Woken(t)
    PROVE  IInv'
<1> USE PoolAssumption DEF IInv
<1>1. TypeOK'
    BY DEF TypeOK, SubmitPC, WorkerPC, Threads, Slots, Rows, Block, Woken, WAt, vars, shared, submit
<1>2. NoStraggler'
    BY DEF NoStraggler, Crew, TypeOK, Woken, WAt, vars, shared, submit
<1>3. Control'
    BY DEF Control, InRows, Closing, TypeOK, Woken, WAt, vars, shared, submit
<1>4. Counting'
    BY StillWorker DEF Woken, WAt, Quiet, TypeOK, shared, submit
<1>5. Joined'
    BY DEF Joined, Closing, TypeOK, Woken, WAt, vars, shared, submit
<1>6. Handed'
    BY DEF Handed, InRows, Crew, TypeOK, Woken, WAt, vars, shared, submit
<1>7. Painted'
    BY StillWorker DEF Woken, WAt, Quiet, TypeOK, shared, submit
<1> QED BY <1>1, <1>2, <1>3, <1>4, <1>5, <1>6, <1>7

\* TimedOut preserves the inductive invariant.
LEMMA TimedOutStep ==
    ASSUME IInv, NEW t \in Threads, TimedOut(t)
    PROVE  IInv'
<1> USE PoolAssumption DEF IInv
<1>1. TypeOK'
    BY DEF TypeOK, SubmitPC, WorkerPC, Threads, Slots, Rows, Block, TimedOut, WAt, vars, shared, submit
<1>2. NoStraggler'
    BY DEF NoStraggler, Crew, TypeOK, TimedOut, WAt, vars, shared, submit
<1>3. Control'
    BY DEF Control, InRows, Closing, TypeOK, TimedOut, WAt, vars, shared, submit
<1>4. Counting'
    BY StillWorker DEF TimedOut, WAt, Quiet, TypeOK, shared, submit
<1>5. Joined'
    BY DEF Joined, Closing, TypeOK, TimedOut, WAt, vars, shared, submit
<1>6. Handed'
    BY DEF Handed, InRows, Crew, TypeOK, TimedOut, WAt, vars, shared, submit
<1>7. Painted'
    BY StillWorker DEF TimedOut, WAt, Quiet, TypeOK, shared, submit
<1> QED BY <1>1, <1>2, <1>3, <1>4, <1>5, <1>6, <1>7

\* Rouse preserves the inductive invariant.
LEMMA RouseStep ==
    ASSUME IInv, NEW t \in Threads, Rouse(t)
    PROVE  IInv'
<1> USE PoolAssumption DEF IInv
<1>1. TypeOK'
    BY DEF TypeOK, SubmitPC, WorkerPC, Threads, Slots, Rows, Block, Rouse, WAt, vars, shared, submit
<1>2. NoStraggler'
    BY DEF NoStraggler, Crew, TypeOK, Rouse, WAt, vars, shared, submit
<1>3. Control'
    BY DEF Control, InRows, Closing, TypeOK, Rouse, WAt, vars, shared, submit
<1>4. Counting'
    BY StillWorker DEF Rouse, WAt, Quiet, TypeOK, shared, submit
<1>5. Joined'
    BY DEF Joined, Closing, TypeOK, Rouse, WAt, vars, shared, submit
<1>6. Handed'
    BY DEF Handed, InRows, Crew, TypeOK, Rouse, WAt, vars, shared, submit
<1>7. Painted'
    BY StillWorker DEF Rouse, WAt, Quiet, TypeOK, shared, submit
<1> QED BY <1>1, <1>2, <1>3, <1>4, <1>5, <1>6, <1>7

\* TakeGen preserves the inductive invariant.
LEMMA TakeGenStep ==
    ASSUME IInv, NEW t \in Threads, TakeGen(t)
    PROVE  IInv'
<1> USE PoolAssumption DEF IInv
<1>1. TypeOK'
    BY DEF TypeOK, SubmitPC, WorkerPC, Threads, Slots, Rows, Block, TakeGen, WAt, vars, shared, submit
<1>2. NoStraggler'
    BY DEF NoStraggler, Crew, TypeOK, TakeGen, WAt, vars, shared, submit
<1>3. Control'
    BY DEF Control, InRows, Closing, TypeOK, TakeGen, WAt, vars, shared, submit
<1>4. Counting'
    BY StillWorker DEF TakeGen, WAt, Quiet, TypeOK, shared, submit
<1>5. Joined'
    BY DEF Joined, Closing, TypeOK, TakeGen, WAt, vars, shared, submit
<1>6. Handed'
    BY DEF Handed, InRows, Crew, TypeOK, TakeGen, WAt, vars, shared, submit
<1>7. Painted'
    BY StillWorker DEF TakeGen, WAt, Quiet, TypeOK, shared, submit
<1> QED BY <1>1, <1>2, <1>3, <1>4, <1>5, <1>6, <1>7

\* CheckQuit preserves the inductive invariant.
LEMMA CheckQuitStep ==
    ASSUME IInv, NEW t \in Threads, CheckQuit(t)
    PROVE  IInv'
<1> USE PoolAssumption DEF IInv
<1>1. TypeOK'
    BY DEF TypeOK, SubmitPC, WorkerPC, Threads, Slots, Rows, Block, CheckQuit, WAt, vars, shared, submit
<1>2. NoStraggler'
    BY DEF NoStraggler, Crew, TypeOK, CheckQuit, WAt, vars, shared, submit
<1>3. Control'
    BY DEF Control, InRows, Closing, TypeOK, CheckQuit, WAt, vars, shared, submit
<1>4. Counting'
  <2>1. CASE quit
    BY <2>1 DEF Counting, Control, CheckQuit, submit, shared
  <2>2. CASE ~quit
    <3>1. ~Quiet(t) /\ ~Quiet(t)' /\ seen' = seen
      BY <2>2 DEF CheckQuit, WAt, Quiet, TypeOK
    <3>2. Busy' = Busy
      BY <3>1, SameBusy DEF CheckQuit, WAt, TypeOK, shared, submit
    <3> QED BY <3>2, <2>2 DEF Counting, CheckQuit, WAt, TypeOK, shared, submit
  <2> QED BY <2>1, <2>2 DEF TypeOK
<1>5. Joined'
    BY DEF Joined, Closing, Control, CheckQuit, WAt, TypeOK, shared, submit
<1>6. Handed'
    BY DEF Handed, InRows, Crew, TypeOK, CheckQuit, WAt, vars, shared, submit
<1>7. Painted'
  <2>1. CASE quit
    BY <2>1 DEF Painted, InRows, Control, CheckQuit, submit, shared
  <2>2. CASE ~quit /\ block[t[2]].y1 > block[t[2]].y0
    <3>1. spc \in {"wakeup", "wait"} /\ seen[t] = gen
      BY <2>2, Drawing DEF Counting, CheckQuit, WAt
    <3>2. wpc[t] = "check" /\ wpc' = [wpc EXCEPT ![t] = "draw"]
      BY <2>2 DEF CheckQuit, WAt
    <3>3. wpc'[t] = "draw" /\ seen' = [seen EXCEPT ![t] = seen'[t]]
      BY <3>2 DEF CheckQuit, TypeOK
    <3>4. ~Quiet(t) /\ ~Quiet(t)'
      BY <3>2, <3>3 DEF Quiet
    <3> QED BY <3>1, <3>2, <3>3, <3>4, StillWorker DEF CheckQuit, shared, submit
  <2>3. CASE ~quit /\ ~(block[t[2]].y1 > block[t[2]].y0)
    <3>1. RowsOf(block[t[2]]) = {}
      <4>1. block[t[2]] \in Block
        BY DEF Threads, TypeOK
      <4> QED BY <4>1, <2>3 DEF RowsOf, Block, Rows
    <3>2. \A r \in Rows : drawn'[r] = IF r \in RowsOf(block[t[2]])
                                      THEN 1 ELSE drawn[r]
      BY <3>1 DEF CheckQuit
    <3> QED BY <2>3, <3>2, ShareDrawn DEF CheckQuit, WAt, TypeOK, shared, submit
  <2> QED BY <2>1, <2>2, <2>3 DEF TypeOK
<1> QED BY <1>1, <1>2, <1>3, <1>4, <1>5, <1>6, <1>7

\* DrawShare preserves the inductive invariant.
LEMMA DrawShareStep ==
    ASSUME IInv, NEW t \in Threads, DrawShare(t)
    PROVE  IInv'
<1> USE PoolAssumption DEF IInv
<1>1. TypeOK'
  <2>1. drawn' \in [Rows -> 0 .. 2]
    BY DEF TypeOK, DrawShare, Draw
  <2> QED BY <2>1 DEF TypeOK, WorkerPC, DrawShare, WAt, shared, submit
<1>2. NoStraggler'
    BY DEF NoStraggler, Crew, TypeOK, DrawShare, WAt, vars, shared, submit
<1>3. Control'
    BY DEF Control, InRows, Closing, TypeOK, DrawShare, WAt, vars, shared, submit
<1>4. Counting'
  <2>1. ~Quiet(t) /\ ~Quiet(t)' /\ seen' = seen
    BY DEF DrawShare, WAt, Quiet, TypeOK
  <2>2. Busy' = Busy
    BY <2>1, SameBusy DEF DrawShare, WAt, TypeOK, shared, submit
  <2> QED BY <2>2 DEF Counting, DrawShare, WAt, TypeOK, shared, submit
<1>5. Joined'
    BY DEF Joined, Closing, TypeOK, DrawShare, WAt, vars, shared, submit
<1>6. Handed'
    BY DEF Handed, InRows, Crew, TypeOK, DrawShare, WAt, vars, shared, submit
<1>7. Painted'
  <2>1. spc \in {"wakeup", "wait"} /\ ~Quiet(t)
    BY Drawing DEF DrawShare, WAt, Quiet
  <2>2. \A r \in Rows : drawn'[r] = IF r \in RowsOf(block[t[2]])
                                    THEN 1 ELSE drawn[r]
    BY <2>1, Undrawn DEF DrawShare, WAt, Draw, TypeOK
  <2> QED BY <2>1, <2>2, ShareDrawn DEF DrawShare, WAt, TypeOK, shared, submit
<1> QED BY <1>1, <1>2, <1>3, <1>4, <1>5, <1>6, <1>7

\* CountDone preserves the inductive invariant.
LEMMA CountDoneStep ==
    ASSUME IInv, NEW t \in Threads, CountDone(t)
    PROVE  IInv'
<1> USE PoolAssumption DEF IInv
<1>1. TypeOK'
  <2>1. /\ wpc' = [wpc EXCEPT ![t] = "spin"] /\ done' = done + 1
        /\ UNCHANGED <<workers, gen, quit, fn, block, sleeping, wake, submit,
                       seen, rows, drawn>>
    BY DEF CountDone, WAt
  <2>2. wpc' \in [Threads -> WorkerPC]
    BY <2>1 DEF TypeOK, WorkerPC
  <2>3. done' \in Nat
    BY <2>1 DEF TypeOK
  <2> QED BY <2>1, <2>2, <2>3 DEF TypeOK, submit
<1>2. NoStraggler'
    BY DEF NoStraggler, Crew, TypeOK, CountDone, WAt, vars, shared, submit
<1>3. Control'
    BY DEF Control, InRows, Closing, TypeOK, CountDone, WAt, vars, shared, submit
<1>4. Counting'
  <2>1. spc \in {"wakeup", "wait"} /\ t = <<inc, t[2]>> /\ t[2] \in Crew
    BY Drawing DEF CountDone, WAt
  <2>2. seen[t] = gen /\ Quiet(t)' /\ ~Quiet(t)
    BY <2>1 DEF Counting, CountDone, WAt, Quiet, TypeOK, shared
  <2>3. \A u \in Threads : u /= t => (Quiet(u)' <=> Quiet(u))
    BY DEF CountDone, WAt, Quiet, TypeOK, shared
  <2>4. \A s \in Crew : <<inc, s>> \in Threads
                        /\ (s /= t[2] => <<inc, s>> /= t)
    BY <2>1 DEF Crew, Threads, TypeOK
  <2>5. t[2] \in Busy /\ Busy' = Busy \ {t[2]}
    BY <2>1, <2>2, <2>3, <2>4 DEF Busy, Crew, CountDone, submit
  <2>6. Cardinality(Busy') = Cardinality(Busy) - 1
    <3>1. IsFiniteSet(Busy)
      BY CrewFinite
    <3>2. Cardinality(Busy \ {t[2]}) = Cardinality(Busy) - 1
      BY <2>5, <3>1, FS_RemoveElement
    <3> QED BY <2>5, <3>2
  <2>7. Cardinality(Busy) \in Nat
    BY CrewFinite
  <2> QED BY <2>1, <2>6, <2>7 DEF Counting, CountDone, WAt, TypeOK, submit, shared
<1>5. Joined'
    BY DEF Joined, Closing, TypeOK, CountDone, WAt, vars, shared, submit
<1>6. Handed'
    BY DEF Handed, InRows, Crew, TypeOK, CountDone, WAt, vars, shared, submit
<1>7. Painted'
  <2>1. spc \in {"wakeup", "wait"} /\ seen[t] = gen /\ Quiet(t)'
    BY Drawing DEF Counting, CountDone, WAt, Quiet, TypeOK, shared
  <2>2. \A u \in Threads : wpc'[u] = "count" \/ Quiet(u)' <=>
                           wpc[u] = "count" \/ Quiet(u)
    BY <2>1 DEF CountDone, WAt, Quiet, TypeOK, shared
  <2>3. \A s \in Crew : <<inc, s>> \in Threads
    BY DEF Crew, Threads, TypeOK
  <2>4. Crew = 1 .. (workers - 1) /\ workers \in Nat
    BY <2>1, CrewFinite DEF Control, InRows, TypeOK
  <2>5. \A s \in 0 .. (workers - 1) : HasDrawn(s)' <=> HasDrawn(s)
    BY <2>2, <2>3, <2>4 DEF HasDrawn, CountDone, submit
  <2>6. \A r \in Rows, s \in 0 .. (workers - 1) : Has(r, s)' <=> Has(r, s)
    BY DEF Has, CountDone
  <2> QED BY <2>1, <2>5, <2>6 DEF Painted, InRows, CountDone, submit
<1> QED BY <1>1, <1>2, <1>3, <1>4, <1>5, <1>6, <1>7


\* No step of a worker or of the submitter breaks the inductive invariant.
THEOREM StepIInv ==
    ASSUME CloseMayTimeOut = FALSE, IInv, [Next]_vars
    PROVE  IInv'
<1>1. CASE Submitter
  BY <1>1, OpenStep, RowsAloneStep, PublishStep, ResetDoneStep, BumpGenStep,
     WakeSlotStep, OwnShareStep, ReturnStep, CloseAloneStep, CloseQuitStep,
     CloseBumpStep, CloseSignalStep, CloseJoinStep, CloseClearGenStep,
     CloseClearStep DEF Submitter
<1>2. ASSUME NEW t \in Threads, Worker(t) PROVE IInv'
  BY <1>2, SawGenStep, SawSameStep, SawQuitStep, SpinOnStep, DrowseStep, RecheckStep, WokenStep,
     TimedOutStep, RouseStep, TakeGenStep, CheckQuitStep, DrawShareStep,
     CountDoneStep DEF Worker, WorkerStep
<1>3. CASE UNCHANGED vars
  BY <1>3 DEF IInv, TypeOK, NoStraggler, Control, Counting, Joined, Handed,
     Painted, Busy, Crew, Quiet, Closing, InRows, Has, HasDrawn, vars, shared,
     submit
<1> QED BY <1>1, <1>2, <1>3 DEF Next

\* The inductive invariant holds in every behaviour of the pool.
THEOREM Inductive ==
    ASSUME CloseMayTimeOut = FALSE
    PROVE  Spec => []IInv
<1>1. Init => IInv
  BY InitIInv
<1>2. IInv /\ [Next]_vars => IInv'
  BY StepIInv
<1> QED BY <1>1, <1>2, PTL DEF Spec

\* vgl_par_rows returns only with every row of the triangle drawn exactly once:
\* thread.c's split and its s_done count.
THEOREM PoolSafety ==
    ASSUME CloseMayTimeOut = FALSE
    PROVE  Spec => [](TypeOK /\ DrawnOnce /\ ClosedIsEmpty)
<1>1. IInv => TypeOK
  BY DEF IInv
<1>2. IInv => DrawnOnce
  BY DEF IInv, Painted, InRows, DrawnOnce
<1>3. IInv => ClosedIsEmpty
  BY DEF IInv, NoStraggler, Crew, Slots, ClosedIsEmpty
<1> QED BY <1>1, <1>2, <1>3, Inductive, PTL

\* A worker is only ever inside the draw function of a call of vgl_par_rows
\* that has not returned: the stack frame s_ctx names is still there.
THEOREM ContextLives ==
    ASSUME CloseMayTimeOut = FALSE
    PROVE  Spec => []NoExpiredContext
<1>1. IInv => NoExpiredContext
  BY Drawing DEF IInv, Control, InRows, NoExpiredContext
<1> QED BY <1>1, Inductive, PTL

-----------------------------------------------------------------------------
\* A worker that is about to sleep, or sleeps, has said so.
Announced ==
    \A t \in Threads : wpc[t] \in {"sleepy", "blocked"} => sleeping[t[2]]

\* The submitter has yet to come by the slot of thread t with the event.
Coming(t) == \/ spc \in {"wakeup", "join"} /\ slot <= t[2]
             \/ spc = "joining" /\ slot < t[2]

WakeInv == IInv /\ Announced /\ NoLostWake

\* NoLostWake with its two cases named.
LEMMA LostDef ==
    NoLostWake <=> \A t \in Threads :
                      wpc[t] = "blocked" /\ gen /= seen[t] => wake[t[2]] \/ Coming(t)
  BY DEF NoLostWake, Coming

\* Of the threads on a slot only one is there.
LEMMA Alone ==
    ASSUME IInv, NEW t \in Threads, NEW u \in Threads,
           wpc[t] /= "none", wpc[u] /= "none", t[2] = u[2]
    PROVE  t = u
  BY DEF IInv, NoStraggler, Threads

\* The steps of the submitter keep the sleepers announced and awaited.
LEMMA SubmitterWakes ==
    ASSUME WakeInv, Submitter, CloseMayTimeOut = FALSE
    PROVE  Announced' /\ NoLostWake'
<1> USE PoolAssumption
<1>t. /\ TypeOK /\ NoStraggler /\ IInv
      /\ \A t \in Threads : wpc[t] \in {"sleepy", "blocked"} => sleeping[t[2]]
      /\ \A t \in Threads :
            wpc[t] = "blocked" /\ gen /= seen[t] => wake[t[2]] \/ Coming(t)
  BY LostDef DEF WakeInv, IInv, Announced
<1>s. /\ \A t \in Threads : t[2] \in Slots
      /\ slot \in Int /\ workers \in Int
      /\ \A t \in Threads : wpc[t] /= "none" => t[2] < workers
      /\ \A k \in Slots : k \in Int /\ k >= 1
  BY <1>t DEF NoStraggler, Crew, Threads, TypeOK, Slots
<1>1. CASE Open
  <2>1. \A t \in Threads : wpc[t] = "none"
    BY <1>1, <1>s DEF Open
  <2>2. \A t \in Threads : wpc'[t] \in {"none", "spin"}
    BY <1>1, <2>1 DEF Open
  <2> QED BY <2>2 DEF Announced, NoLostWake
<1>2. CASE RowsAlone \/ Publish \/ ResetDone \/ Return
  <2>1. /\ UNCHANGED <<gen, wpc, seen, wake, sleeping>>
        /\ spc \notin {"wakeup", "join", "joining"}
    BY <1>2 DEF RowsAlone, Publish, ResetDone, Return, At, shared
  <2>2. \A t \in Threads : ~Coming(t)
    BY <2>1 DEF Coming
  <2> QED BY <1>t, <2>1, <2>2 DEF Announced, NoLostWake
<1>3. CASE BumpGen \/ CloseBump
  <2>1. /\ UNCHANGED <<wpc, seen, wake, sleeping>>
        /\ spc' \in {"wakeup", "join"} /\ slot' = 1
    BY <1>3 DEF BumpGen, CloseBump, At
  <2>2. \A t \in Threads : slot' <= t[2]
    BY <1>s, <2>1
  <2> QED BY <1>t, <2>1, <2>2 DEF Announced, NoLostWake
<1>4. CASE WakeSlot
  <2>1. /\ UNCHANGED <<gen, wpc, seen, sleeping>>
        /\ slot < workers /\ spc = "wakeup" /\ spc' = "wakeup"
        /\ wake' = [wake EXCEPT ![slot] = wake[slot] \/ sleeping[slot]]
        /\ slot' = slot + 1
    BY <1>4 DEF WakeSlot, At
  <2>2. ASSUME NEW t \in Threads, wpc[t] = "blocked", gen /= seen[t]
        PROVE  wake'[t[2]] \/ slot' <= t[2]
    <3>1. wake[t[2]] \/ slot <= t[2]
      BY <1>t, <2>1, <2>2 DEF Coming
    <3>2. sleeping[t[2]]
      BY <1>t, <2>2
    <3>3. wake \in [Slots -> BOOLEAN]
      BY <1>t DEF TypeOK
    <3>4. CASE slot = t[2]
      BY <1>s, <2>1, <3>2, <3>3, <3>4
    <3>5. CASE slot /= t[2]
      <4>1. wake'[t[2]] = wake[t[2]]
        BY <1>s, <2>1, <3>3, <3>5
      <4> QED BY <1>s, <2>1, <3>1, <3>5, <4>1
    <3> QED BY <3>4, <3>5
  <2> QED BY <1>t, <2>1, <2>2 DEF Announced, NoLostWake
<1>5. CASE OwnShare \/ CloseClearGen
  <2>1. /\ UNCHANGED <<wpc, seen, wake, sleeping>>
        /\ slot >= workers /\ spc \in {"wakeup", "join"}
    BY <1>5 DEF OwnShare, CloseClearGen, At, shared
  <2>2. \A t \in Threads : wpc[t] /= "none" => ~Coming(t)
    BY <1>s, <2>1 DEF Coming
  <2>3. CASE OwnShare
    <3>1. gen' = gen
      BY <2>3 DEF OwnShare, shared
    <3> QED BY <1>t, <2>1, <2>2, <3>1 DEF Announced, NoLostWake
  <2>4. CASE CloseClearGen
    <3>1. \A k \in Slots : k < workers => wpc[<<inc, k>>] = "none"
      BY <1>s, <1>t, <2>4 DEF IInv, Joined, CloseClearGen, At
    <3>2. \A t \in Threads : wpc[t] = "none"
      BY <1>s, <1>t, <3>1 DEF NoStraggler, Threads, Crew
    <3> QED BY <2>1, <3>2 DEF Announced, NoLostWake
  <2> QED BY <1>5, <2>3, <2>4
<1>6. CASE CloseAlone
  <2>1. \A t \in Threads : wpc[t] = "none"
    BY <1>6, <1>s DEF CloseAlone
  <2>2. wpc' = wpc
    BY <1>6 DEF CloseAlone
  <2> QED BY <2>1, <2>2 DEF Announced, NoLostWake
<1>7. CASE CloseQuit \/ CloseClear
  <2>1. /\ UNCHANGED <<gen, wpc, seen, wake, sleeping>>
        /\ spc \in {"idle", "clear"}
    BY <1>7 DEF CloseQuit, CloseClear, At
  <2>2. \A t \in Threads : ~Coming(t)
    BY <2>1 DEF Coming
  <2> QED BY <1>t, <2>1, <2>2 DEF Announced, NoLostWake
<1>8. CASE CloseSignal
  <2>1. /\ UNCHANGED <<gen, wpc, seen, sleeping, slot>>
        /\ spc = "join" /\ spc' = "joining"
        /\ wake' = [wake EXCEPT ![slot] = TRUE]
    BY <1>8 DEF CloseSignal, At
  <2>2. ASSUME NEW t \in Threads, wpc[t] = "blocked", gen /= seen[t]
        PROVE  wake'[t[2]] \/ slot < t[2]
    <3>1. wake[t[2]] \/ slot <= t[2]
      BY <1>t, <2>1, <2>2 DEF Coming
    <3>2. wake \in [Slots -> BOOLEAN]
      BY <1>t DEF TypeOK
    <3>3. CASE slot = t[2]
      BY <1>s, <2>1, <3>2, <3>3
    <3>4. CASE slot /= t[2]
      <4>1. wake'[t[2]] = wake[t[2]]
        BY <1>s, <2>1, <3>2, <3>4
      <4> QED BY <1>s, <3>1, <3>4, <4>1
    <3> QED BY <3>3, <3>4
  <2> QED BY <1>t, <2>1, <2>2 DEF Announced, NoLostWake
<1>9. CASE CloseJoin
  <2>1. /\ UNCHANGED <<gen, wpc, seen, wake, sleeping>>
        /\ spc = "joining" /\ spc' = "join" /\ slot' = slot + 1
    BY <1>9 DEF CloseJoin, At, shared
  <2>2. \A t \in Threads : slot < t[2] => slot' <= t[2]
    BY <1>s, <2>1
  <2> QED BY <1>t, <2>1, <2>2 DEF Announced, NoLostWake, Coming
<1> QED BY <1>1, <1>2, <1>3, <1>4, <1>5, <1>6, <1>7, <1>8, <1>9 DEF Submitter

\* The steps of a worker keep the sleepers announced and awaited.
LEMMA WorkerWakes ==
    ASSUME WakeInv, NEW w \in Threads, Worker(w)
    PROVE  Announced' /\ NoLostWake'
<1> USE PoolAssumption
<1>t. /\ TypeOK /\ IInv
      /\ \A t \in Threads : wpc[t] \in {"sleepy", "blocked"} => sleeping[t[2]]
      /\ \A t \in Threads :
            wpc[t] = "blocked" /\ gen /= seen[t] => wake[t[2]] \/ Coming(t)
  BY LostDef DEF WakeInv, IInv, Announced
<1>s. /\ \A t \in Threads : t[2] \in Slots
      /\ sleeping \in [Slots -> BOOLEAN] /\ wake \in [Slots -> BOOLEAN]
      /\ wpc \in [Threads -> WorkerPC] /\ seen \in [Threads -> 0 .. (GenMod - 1)]
  BY <1>t DEF Threads, TypeOK
<1>1. CASE SawGen(w) \/ SawSame(w) \/ SawQuit(w) \/ SpinOn(w) \/ TimedOut(w)
           \/ CheckQuit(w) \/ DrawShare(w) \/ CountDone(w)
  <2>1. /\ UNCHANGED <<gen, seen, wake, sleeping, spc, slot>>
        /\ \A t \in Threads : wpc'[t] \in {"sleepy", "blocked"} => wpc'[t] = wpc[t]
    BY <1>1, <1>s DEF SawGen, SawSame, SawQuit, SpinOn, TimedOut, CheckQuit,
       DrawShare, CountDone, WAt, shared, submit
  <2> QED BY <1>t, <2>1 DEF Announced, NoLostWake, Coming
<1>2. CASE Drowse(w)
  <2>1. /\ UNCHANGED <<gen, seen, wake, spc, slot>>
        /\ wpc' = [wpc EXCEPT ![w] = "sleepy"]
        /\ sleeping' = [sleeping EXCEPT ![w[2]] = TRUE]
    BY <1>2 DEF Drowse, WAt, submit
  <2>2. \A t \in Threads : wpc'[t] = IF t = w THEN "sleepy" ELSE wpc[t]
    BY <1>s, <2>1
  <2>3. \A k \in Slots : sleeping[k] => sleeping'[k]
    BY <1>s, <2>1
  <2>4. sleeping'[w[2]]
    BY <1>s, <2>1
  <2>5. Announced'
    BY <1>s, <1>t, <2>2, <2>3, <2>4 DEF Announced
  <2>6. NoLostWake'
    BY <1>t, <2>1, <2>2 DEF NoLostWake, Coming
  <2> QED BY <2>5, <2>6
<1>3. CASE Recheck(w)
  <2>1. /\ UNCHANGED <<gen, seen, wake, sleeping, spc, slot>>
        /\ wpc[w] = "sleepy"
        /\ wpc' = [wpc EXCEPT ![w] = IF gen = seen[w] THEN "blocked" ELSE "waking"]
    BY <1>3 DEF Recheck, WAt, shared, submit
  <2>2. \A t \in Threads :
           wpc'[t] = IF t = w THEN IF gen = seen[w] THEN "blocked" ELSE "waking"
                     ELSE wpc[t]
    BY <1>s, <2>1
  <2>3. Announced'
    BY <1>t, <2>1, <2>2 DEF Announced
  <2>4. NoLostWake'
    BY <1>t, <2>1, <2>2 DEF NoLostWake, Coming
  <2> QED BY <2>3, <2>4
<1>4. CASE Woken(w)
  <2>1. /\ UNCHANGED <<gen, seen, sleeping, spc, slot>>
        /\ wpc[w] = "blocked" /\ wpc' = [wpc EXCEPT ![w] = "waking"]
        /\ wake' = [wake EXCEPT ![w[2]] = FALSE]
    BY <1>4 DEF Woken, WAt, submit
  <2>2. \A t \in Threads : wpc'[t] = IF t = w THEN "waking" ELSE wpc[t]
    BY <1>s, <2>1
  <2>3. \A t \in Threads : t /= w /\ wpc[t] = "blocked" => wake'[t[2]] = wake[t[2]]
    BY <1>s, <1>t, <2>1, Alone
  <2>4. Announced'
    BY <1>t, <2>1, <2>2 DEF Announced
  <2>5. ASSUME NEW t \in Threads, wpc'[t] = "blocked", gen' /= seen'[t]
        PROVE  wake'[t[2]] \/ Coming(t)'
    <3>1. t /= w /\ wpc[t] = "blocked" /\ gen /= seen[t]
      BY <2>1, <2>2, <2>5
    <3>2. wake[t[2]] \/ Coming(t)
      BY <1>t, <3>1
    <3>3. wake'[t[2]] = wake[t[2]]
      BY <2>3, <3>1
    <3>4. Coming(t)' = Coming(t)
      BY <2>1 DEF Coming
    <3> QED BY <3>2, <3>3, <3>4
  <2>6. NoLostWake'
    BY <2>5 DEF NoLostWake, Coming
  <2> QED BY <2>4, <2>6
<1>5. CASE Rouse(w)
  <2>1. /\ UNCHANGED <<gen, seen, wake, spc, slot>>
        /\ wpc[w] = "waking" /\ wpc' = [wpc EXCEPT ![w] = "spin"]
        /\ sleeping' = [sleeping EXCEPT ![w[2]] = FALSE]
    BY <1>5 DEF Rouse, WAt, submit
  <2>2. \A t \in Threads : wpc'[t] = IF t = w THEN "spin" ELSE wpc[t]
    BY <1>s, <2>1
  <2>3. \A t \in Threads : t /= w /\ wpc[t] \in {"sleepy", "blocked"}
                              => sleeping'[t[2]] = sleeping[t[2]]
    BY <1>s, <1>t, <2>1, Alone
  <2>4. Announced'
    BY <1>t, <2>2, <2>3 DEF Announced
  <2>5. NoLostWake'
    BY <1>t, <2>1, <2>2 DEF NoLostWake, Coming
  <2> QED BY <2>4, <2>5
<1>6. CASE TakeGen(w)
  <2>1. /\ UNCHANGED <<gen, wake, sleeping, spc, slot>>
        /\ wpc' = [wpc EXCEPT ![w] = "check"]
        /\ seen' = [seen EXCEPT ![w] = gen]
    BY <1>6 DEF TakeGen, WAt, shared, submit
  <2>2. \A t \in Threads : /\ wpc'[t] = IF t = w THEN "check" ELSE wpc[t]
                           /\ t /= w => seen'[t] = seen[t]
    BY <1>s, <2>1
  <2>3. Announced'
    BY <1>t, <2>1, <2>2 DEF Announced
  <2>4. NoLostWake'
    BY <1>t, <2>1, <2>2 DEF NoLostWake, Coming
  <2> QED BY <2>3, <2>4
<1> QED BY <1>1, <1>2, <1>3, <1>4, <1>5, <1>6 DEF Worker, WorkerStep

\* A job that is published while a worker goes to sleep reaches it through its
\* event: thread.c's `sleeping` flag and second look at s_gen leave no window,
\* for any number of workers and wherever the submitter is in its loop.
THEOREM WakesArrive ==
    ASSUME CloseMayTimeOut = FALSE
    PROVE  Spec => []NoLostWake
<1>1. Init => WakeInv
  BY InitIInv DEF Init, WakeInv, Announced, NoLostWake
<1>2. WakeInv /\ [Next]_vars => WakeInv'
  <2> SUFFICES ASSUME WakeInv, [Next]_vars PROVE WakeInv'
    OBVIOUS
  <2>1. IInv'
    BY StepIInv DEF WakeInv
  <2>2. CASE Next
    BY <2>1, <2>2, SubmitterWakes, WorkerWakes DEF WakeInv, Next
  <2>3. CASE UNCHANGED vars
    BY <2>1, <2>3 DEF WakeInv, Announced, NoLostWake, vars, shared, submit
  <2> QED BY <2>2, <2>3
<1>3. WakeInv => NoLostWake
  BY DEF WakeInv
<1> QED BY <1>1, <1>2, <1>3, PTL DEF Spec
=============================================================================
