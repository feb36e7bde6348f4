------------------------ MODULE ReplayMemory_proofs -------------------------
(***************************************************************************)
(* Proofs about ReplayMemory for every set of pages of each kind, every    *)
(* content, with and without side threads that change reservations, and    *)
(* every number of ticks and generations.                                  *)
(***************************************************************************)
EXTENDS ReplayMemory, FiniteSetTheorems, WellFoundedInduction, TLAPS

Content == Values \cup {Half}

\* The types the proofs need: less than ReplayTypeOK bounds.
BufferTyped(b) ==
    /\ b \in [data : [Pages -> Content], epoch : Nat, layout : Nat,
              ranges : SUBSET Pages, tick : Int]

Typed ==
    /\ mem \in [Pages -> Content] /\ truth \in [Pages -> Content]
    /\ watch \subseteq there \cap Reserved /\ there \subseteq Pages
    /\ op.page \in Reserved \cup {NoPage}
    /\ vgen \in Nat /\ epoch \in Nat /\ tick \in Int
    /\ stamps \in [pages : SUBSET Pages, at : [Pages -> Int], gen : Int]
    /\ layout \in [n : Nat, gen : Int, ranges : SUBSET Pages]
    /\ cache \in [ranges : SUBSET Pages, watch : SUBSET Pages, gen : Int]
    /\ job \in [todo : SUBSET Pages, room : BOOLEAN, blend : BOOLEAN, gen : Int,
                incB : BOOLEAN, incP : BOOLEAN, blended : SUBSET Pages]
    /\ ranges \subseteq Pages
    /\ BufferTyped(before) /\ BufferTyped(prev)
    /\ havePrev \in BOOLEAN /\ held \in BOOLEAN

\* What is known was walked under one generation, not later than now.
Known ==
    /\ stamps.gen <= vgen /\ job.gen <= vgen
    /\ cache.gen = stamps.gen /\ layout.gen = stamps.gen
    /\ layout.ranges = ranges
    /\ stamps.pages = cache.watch /\ cache.watch \subseteq cache.ranges
    /\ cache.ranges \subseteq ranges
    /\ stamps.gen = vgen => stamps.pages \subseteq watch

\* The side threads stand still from the hold to the release.
Holding ==
    /\ held => /\ rpc \in {"poll", "copy", "draw", "marked"}
               /\ op.page = NoPage
    /\ rpc \in {"draw", "marked"} => held
    /\ rpc \in {"poll", "copy"} /\ job.room => held
    /\ rpc \in {"gen", "walk", "hold", "poll"} => ~job.blend /\ job.blended = {}

\* The two buffers are older than the epoch, and one older than the other.
Filled == rpc \in {"draw", "marked", "kept"}
Older == IF Filled THEN prev ELSE before
Newer == IF Filled THEN before ELSE prev
Aged ==
    /\ before.epoch <= epoch /\ prev.epoch <= epoch
    /\ before.layout <= layout.n /\ prev.layout <= layout.n
    /\ Older.epoch <= Newer.epoch /\ Older.layout <= Newer.layout
    /\ \A b \in {before, prev} :
          b.epoch # 0 /\ b.layout = layout.n => b.ranges = ranges

\* The stamps still speak of the memory there is.
Speaks == stamps.gen = vgen

\* A page that the stamps call clean is in the buffer as it is in memory.
CleanIn(b) ==
    b.epoch # 0 /\ b.layout = layout.n /\ Speaks =>
        \A p \in stamps.pages :
            stamps.at[p] < b.epoch /\ p \notin wrote
                => b.data[At(ranges, p)] = mem[p]

\* While the snapshot copies: what it trusts, what it has copied.
Copying ==
    rpc = "copy" =>
        /\ job.todo \subseteq ranges
        /\ job.incB => before.epoch # 0 /\ before.layout = layout.n
        /\ job.incP => prev.epoch # 0 /\ prev.layout = layout.n
        /\ held => /\ job.incB \/ job.incP => Speaks
                   /\ job.todo \cap stamps.pages \cap wrote = {}
                   /\ \A p \in ranges \ job.todo :
                         before.data[At(ranges, p)] = truth[p]
        /\ Speaks => \A p \in stamps.pages \ job.todo :
                        p \notin wrote => before.data[At(ranges, p)] = mem[p]
        /\ job.blend =>
              job.blended = {p \in (ranges \ job.todo) \cap prev.ranges :
                                prev.data[At(prev.ranges, p)] # truth[p]}

\* Tick N is the tick before.
Neighbours ==
    /\ havePrev => prev.tick = IF rpc = "work" THEN tick ELSE tick - 1
    /\ Filled => before.tick = tick
    /\ job.blend => havePrev /\ job.room /\ rpc # "work"

\* The snapshot as the in-between draw is to find it again.
Taken ==
    /\ SnapshotExact /\ BlendExact /\ Restored
    /\ rpc \in {"draw", "marked"} => before.ranges = ranges /\ before.epoch # 0
                                     /\ before.epoch = epoch

RInv ==
    /\ Typed /\ Known /\ Holding /\ Aged /\ CleanIn(before) /\ CleanIn(prev)
    /\ Copying /\ Neighbours /\ Taken
-----------------------------------------------------------------------------
\* The place of a page in a buffer: how many pages of the buffer lie below it.
Below(S, p) == {q \in S : q < p}

\* A set of natural numbers has a least member.
LEMMA LeastNat ==
    ASSUME NEW S, S \subseteq Nat, S # {} PROVE \E x \in S : \A y \in S : x <= y
<1>1. \E x \in S : \A y \in S : ~(<<y, x>> \in OpToRel(<, Nat))
  BY NatLessThanWellFounded, WFMin
<1>2. PICK x \in S : \A y \in S : ~(<<y, x>> \in OpToRel(<, Nat))
  BY <1>1
<1>3. \A y \in S : ~(y < x)
  BY <1>2 DEF OpToRel
<1>4. QED BY <1>3

\* A part that lacks a member has fewer.
LEMMA FewerIn ==
    ASSUME NEW S, IsFiniteSet(S), NEW U, U \subseteq S, NEW x \in S, x \notin U
    PROVE  Cardinality(U) \in Nat /\ Cardinality(S) \in Nat
           /\ Cardinality(U) < Cardinality(S)
<1>1. /\ Cardinality(U) <= Cardinality(S)
      /\ Cardinality(S) = Cardinality(U) => S = U
      /\ Cardinality(U) \in Nat /\ Cardinality(S) \in Nat
  BY FS_Subset, FS_CardinalityType
<1>2. S # U
  OBVIOUS
<1> QED BY <1>1, <1>2

\* A finite set of natural numbers has a greatest member.
LEMMA Greatest ==
    ASSUME NEW S, IsFiniteSet(S), S \subseteq Nat, S # {}
    PROVE  \E m \in S : \A q \in S : q <= m
<1> DEFINE over(i) == {q \in S : q > i}
           C == {Cardinality(over(i)) : i \in S}
<1>1. \A i \in S : IsFiniteSet(over(i)) /\ Cardinality(over(i)) \in Nat
  BY FS_Subset, FS_CardinalityType
<1>2. C \subseteq Nat /\ C # {}
  BY <1>1
<1> HIDE DEF over
<1>3. PICK c \in C : \A d \in C : c <= d
  BY <1>2, LeastNat
<1>4. PICK m \in S : c = Cardinality(over(m))
  BY <1>3
<1>5. ASSUME NEW q \in S, q > m PROVE FALSE
  <2>1. q \in over(m) /\ q \notin over(q)
    BY <1>5 DEF over
  <2>2. over(q) \subseteq over(m)
    <3> SUFFICES ASSUME NEW r \in S, r > q PROVE r > m
      BY DEF over
    <3>1. r \in Nat /\ q \in Nat /\ m \in Nat
      OBVIOUS
    <3> QED BY <1>5, <3>1
  <2>3. Cardinality(over(q)) < Cardinality(over(m))
    BY <1>1, <2>1, <2>2, FewerIn
  <2>4. Cardinality(over(m)) <= Cardinality(over(q))
    BY <1>3, <1>4
  <2> QED BY <1>1, <2>3, <2>4
<1>6. \A q \in S : q <= m
  <2>1. \A q \in S : q \in Nat /\ m \in Nat
    OBVIOUS
  <2> QED BY <1>5, <2>1
<1> QED BY <1>6

\* Of two members the lesser has fewer below it.
LEMMA RankGrows ==
    ASSUME NEW S, IsFiniteSet(S), S \subseteq Nat, NEW p \in S, NEW q \in S, p < q
    PROVE  /\ Cardinality(Below(S, p)) \in Nat /\ Cardinality(Below(S, q)) \in Nat
           /\ Cardinality(Below(S, p)) < Cardinality(Below(S, q))
<1>1. IsFiniteSet(Below(S, q))
  BY FS_Subset DEF Below
<1>2. Below(S, p) \subseteq Below(S, q)
  <2> SUFFICES ASSUME NEW r \in S, r < p PROVE r < q
    BY DEF Below
  <2>1. r \in Nat /\ q \in Nat /\ p \in Nat
    OBVIOUS
  <2> QED BY <2>1
<1>3. p \in Below(S, q) /\ p \notin Below(S, p)
  BY DEF Below
<1> QED BY <1>1, <1>2, <1>3, FewerIn

\* Every rank below the size of the set is some member's.
LEMMA EveryRank ==
    ASSUME NEW S, IsFiniteSet(S), S \subseteq Nat,
           NEW k \in Nat, k < Cardinality(S)
    PROVE  \E i \in S : Cardinality(Below(S, i)) = k
<1> DEFINE C == {c \in Nat : c >= k /\ \E i \in S : Cardinality(Below(S, i)) = c}
<1>0. ASSUME NEW U, U \subseteq S, U # {}
      PROVE  \E m \in U : /\ Cardinality(U \ {m}) = Cardinality(U) - 1
                          /\ Cardinality(U) \in Nat /\ Cardinality(U) > 0
                          /\ \A q \in U : q <= m
  <2>1. IsFiniteSet(U) /\ U \subseteq Nat
    BY <1>0, FS_Subset
  <2>2. PICK m \in U : \A q \in U : q <= m
    BY <1>0, <2>1, Greatest
  <2>3. Cardinality(U \ {m}) = Cardinality(U) - 1
    BY <2>1, FS_RemoveElement
  <2>4. Cardinality(U) \in Nat /\ {} \subseteq U /\ m \notin {}
    BY <2>1, FS_CardinalityType
  <2>5. Cardinality({}) < Cardinality(U)
    BY <2>1, <2>4, FewerIn
  <2> QED BY <2>2, <2>3, <2>4, <2>5, FS_EmptySet
<1>1. Cardinality(S) \in Nat /\ S # {}
  BY FS_CardinalityType, FS_EmptySet
<1>2. C # {}
  <2>1. PICK m \in S : /\ Cardinality(S \ {m}) = Cardinality(S) - 1
                       /\ \A q \in S : q <= m
    BY <1>0, <1>1
  <2>2. Below(S, m) = S \ {m}
    <3>1. ASSUME NEW q \in S PROVE q < m <=> q # m
      <4>1. q \in Nat /\ m \in Nat /\ q <= m
        BY <2>1
      <4> QED BY <4>1
    <3> QED BY <3>1 DEF Below
  <2>3. Cardinality(Below(S, m)) >= k /\ Cardinality(Below(S, m)) \in Nat
    BY <1>1, <2>1, <2>2
  <2> QED BY <2>3
<1>3. PICK c \in C : \A d \in C : c <= d
  BY <1>2, LeastNat
<1>4. PICK i \in S : Cardinality(Below(S, i)) = c
  BY <1>3
<1>5. ASSUME c > k PROVE FALSE
  <2> DEFINE U == Below(S, i)
  <2>1. U \subseteq S /\ U # {}
    BY <1>4, <1>5, FS_EmptySet DEF Below
  <2>2. PICK j \in U : /\ Cardinality(U \ {j}) = Cardinality(U) - 1
                       /\ \A q \in U : q <= j
    BY <1>0, <2>1
  <2>3. Below(S, j) = U \ {j}
    <3>1. ASSUME NEW q \in S PROVE q < j <=> q < i /\ q # j
      <4>1. q \in Nat /\ j \in Nat /\ i \in Nat /\ j < i
        BY <2>1 DEF Below
      <4>2. q < i => q <= j
        BY <2>2 DEF Below
      <4> QED BY <4>1, <4>2
    <3> QED BY <3>1 DEF Below
  <2>4. Cardinality(Below(S, j)) = c - 1 /\ j \in S
    BY <1>4, <2>1, <2>2, <2>3
  <2>5. c \in Nat /\ c - 1 \in Nat /\ c - 1 >= k
    BY <1>5
  <2>6. c - 1 \in C
    BY <2>4, <2>5
  <2>7. c <= c - 1
    BY <1>3, <2>6
  <2> QED BY <2>5, <2>7
<1> QED BY <1>3, <1>4, <1>5

\* At finds a place for every page of a buffer, a place of its own.
LEMMA AtInjective ==
    ASSUME NEW R, R \subseteq Pages
    PROVE  /\ \A p \in R : At(R, p) \in Pages
           /\ \A p, q \in R : At(R, p) = At(R, q) => p = q
<1>0. /\ IsFiniteSet(Pages) /\ Pages \subseteq Nat
      /\ IsFiniteSet(R) /\ R \subseteq Nat
  BY ReplayAssumption, FS_Subset
<1>1. ASSUME NEW p \in R
      PROVE  /\ At(R, p) \in Pages
             /\ Cardinality(Below(Pages, At(R, p))) = Cardinality(Below(R, p))
  <2>1. Below(R, p) \subseteq R /\ p \notin Below(R, p)
    BY <1>0 DEF Below
  <2>2. Cardinality(Below(R, p)) \in Nat
        /\ Cardinality(Below(R, p)) < Cardinality(R)
    BY <1>0, <2>1, FewerIn
  <2>3. Cardinality(R) <= Cardinality(Pages)
        /\ Cardinality(R) \in Nat /\ Cardinality(Pages) \in Nat
    BY <1>0, FS_Subset, FS_CardinalityType
  <2>4. \E i \in Pages : Cardinality(Below(Pages, i)) = Cardinality(Below(R, p))
    <3> DEFINE k == Cardinality(Below(R, p))
               n == Cardinality(R)
               m == Cardinality(Pages)
    <3>1. k \in Nat /\ n \in Nat /\ m \in Nat /\ k < n /\ n <= m
      BY <2>2, <2>3
    <3> HIDE DEF k, n, m
    <3>2. k < m
      BY <3>1
    <3>3. k < Cardinality(Pages)
      BY <3>2 DEF m
    <3>4. \E i \in Pages : Cardinality(Below(Pages, i)) = k
      BY <1>0, <3>1, <3>3, EveryRank
    <3> QED BY <3>4 DEF k
  <2> QED BY <2>4 DEF At, Below
<1>2. ASSUME NEW p \in R, NEW q \in R, p < q PROVE At(R, p) # At(R, q)
  <2> DEFINE a == Cardinality(Below(R, p))
             b == Cardinality(Below(R, q))
  <2>1. a \in Nat /\ b \in Nat /\ a < b
    BY <1>0, <1>2, RankGrows
  <2>2. a = Cardinality(Below(Pages, At(R, p)))
        /\ b = Cardinality(Below(Pages, At(R, q)))
    BY <1>1
  <2> HIDE DEF a, b
  <2>3. a # b
    BY <2>1
  <2> QED BY <2>2, <2>3
<1>3. ASSUME NEW p \in R, NEW q \in R, p # q PROVE At(R, p) # At(R, q)
  <2>1. p < q \/ q < p
    BY <1>0, <1>3
  <2> QED BY <1>2, <2>1
<1> QED BY <1>1, <1>3

-----------------------------------------------------------------------------
\* The invariant one part at a time, where every part is in sight.
LEMMA Parts ==
    RInv => /\ Typed /\ Known /\ Holding /\ Aged /\ CleanIn(before)
            /\ CleanIn(prev) /\ Copying /\ Neighbours /\ Taken
  BY DEF RInv

\* The invariant holds when the snapshot's machinery stands still and what
\* changes in memory is watched, or the generation has moved.
LEMMA GameKeeps ==
    ASSUME RInv, Typed', UNCHANGED <<known, buffers, held, rpc, job, tick, truth>>,
           vgen' >= vgen,
           Speaks' => stamps.pages \subseteq watch',
           Speaks' => \A p \in stamps.pages :
                         p \notin wrote' => p \notin wrote /\ mem'[p] = mem[p],
           held => op'.page = NoPage,
           held /\ rpc = "copy" => vgen' = vgen /\ wrote' = wrote,
           rpc = "marked" => mem' = mem
    PROVE  RInv'
<1>0. UNCHANGED <<stamps, epoch, layout, ranges, cache, before, prev, havePrev,
                  held, rpc, job, tick, truth>>
  BY DEF known, buffers
<1>1. vgen \in Int /\ vgen' \in Int /\ stamps.gen \in Int /\ stamps.gen <= vgen
      /\ job.gen \in Int /\ job.gen <= vgen
  BY DEF RInv, Typed, Known
<1>2. Speaks' => Speaks
  BY <1>0, <1>1 DEF Speaks
<1>3. Known'
  BY <1>0, <1>1 DEF RInv, Known, Speaks
<1>4. Holding'
  BY <1>0 DEF RInv, Holding
<1>5. Aged'
  BY <1>0 DEF RInv, Aged, Older, Newer, Filled
<1>6. CleanIn(before)' /\ CleanIn(prev)'
  BY <1>0, <1>2 DEF RInv, CleanIn
<1>7. Copying'
  <2> SUFFICES ASSUME rpc = "copy" PROVE Copying'
    BY <1>0 DEF Copying
  <2>1. ASSUME Speaks'
        PROVE  \A p \in stamps.pages \ job.todo :
                  p \notin wrote' => before.data[At(ranges, p)] = mem'[p]
    BY <1>2, <2>1 DEF RInv, Copying
  <2>2. held => (Speaks' <=> Speaks)
    BY <1>0 DEF Speaks
  <2> QED BY <1>0, <2>1, <2>2 DEF RInv, Copying
<1>8. Neighbours'
  BY <1>0 DEF RInv, Neighbours, Filled
<1>9. Taken'
  BY <1>0 DEF RInv, Taken, SnapshotExact, BlendExact, Restored
<1> QED BY <1>3, <1>4, <1>5, <1>6, <1>7, <1>8, <1>9 DEF RInv

\* Where the machinery stands still its types do.
LEMMA GameTyped ==
    ASSUME Typed, UNCHANGED <<known, buffers, held, rpc, job, tick, truth>>,
           mem' \in [Pages -> Content], vgen' \in Nat,
           watch' \subseteq there' \cap Reserved, there' \subseteq Pages,
           op'.page \in Reserved \cup {NoPage}
    PROVE  Typed'
  BY DEF Typed, BufferTyped, known, buffers

\* A content that a page has from the start, or is written.
LEMMA Contents == /\ \A p \in Pages : Zeros[p] \in Content
                  /\ Values \subseteq Content /\ Half \in Content
  BY ReplayAssumption DEF Zeros, Content

\* A write is watched, or the page is none the stamps speak of.
LEMMA WriteStep ==
    ASSUME RInv, NEW p \in Pages, NEW v \in Values, Write(p, v)
    PROVE  RInv'
<1>1. /\ GameRuns /\ p \in there
      /\ mem' = [mem EXCEPT ![p] = v]
      /\ wrote' = wrote \cup ({p} \cap watch)
      /\ UNCHANGED <<there, watch, vgen, op>>
      /\ UNCHANGED <<known, buffers, held, rpc, job, tick, truth>>
  BY DEF Write
<1>2. UNCHANGED <<stamps, held, rpc, job>>
  BY <1>1 DEF known
<1>3. /\ Typed /\ vgen \in Nat /\ mem \in [Pages -> Content] /\ v \in Content
      /\ watch \subseteq there \cap Reserved /\ there \subseteq Pages
      /\ op.page \in Reserved \cup {NoPage}
  BY Contents DEF RInv, Typed
<1>4. Typed'
  <2>1. mem' \in [Pages -> Content]
    BY <1>1, <1>3
  <2> QED BY <1>1, <1>3, <2>1, GameTyped
<1>5. Speaks' => stamps.pages \subseteq watch'
  BY <1>1, <1>2 DEF RInv, Known, Speaks
<1>6. Speaks' => \A q \in stamps.pages :
                    q \notin wrote' => q \notin wrote /\ mem'[q] = mem[q]
  <2> SUFFICES ASSUME Speaks', NEW q \in stamps.pages, q \notin wrote'
               PROVE  q \notin wrote /\ mem'[q] = mem[q]
    OBVIOUS
  <2>1. q \in watch /\ q \in Pages
    BY <1>1, <1>3, <1>5
  <2>2. q # p
    BY <1>1, <2>1
  <2> QED BY <1>1, <1>3, <2>1, <2>2
<1>7. held => rpc \in {"work", "draw"}
  BY <1>1 DEF GameRuns
<1>8. held => op'.page = NoPage
  BY <1>1 DEF RInv, Holding
<1>9. rpc = "marked" => held
  BY DEF RInv, Holding
<1> QED BY <1>1, <1>3, <1>4, <1>5, <1>6, <1>7, <1>8, <1>9, GameKeeps

\* A change to the game's own reservations moves the generation past what is
\* known of them.
LEMMA MovedOn ==
    ASSUME RInv, UNCHANGED <<known, buffers, held, rpc, job, tick, truth>>,
           Typed', vgen' > vgen, held => op'.page = NoPage,
           rpc \notin {"copy", "marked"} \/ (~held /\ rpc # "marked")
    PROVE  RInv'
<1>1. vgen \in Int /\ vgen' \in Int /\ stamps.gen \in Int /\ stamps.gen <= vgen
  BY DEF RInv, Typed, Known
<1>2. stamps' = stamps
  BY DEF known
<1>3. ~Speaks'
  BY <1>1, <1>2 DEF Speaks
<1> QED BY <1>1, <1>3, GameKeeps

LEMMA AllocateStep ==
    ASSUME RInv, NEW p \in Reserved, Allocate(p) \/ Free(p)
    PROVE  RInv'
<1>1. /\ rpc \in {"work", "draw"} /\ vgen' = vgen + 2
      /\ op' = op
      /\ UNCHANGED <<known, buffers, held, rpc, job, tick, truth>>
  BY DEF Allocate, Free
<1>2. Reserve(p) \/ Release(p)
  BY DEF Allocate, Free
<1>3. /\ Typed /\ vgen \in Nat /\ mem \in [Pages -> Content]
      /\ watch \subseteq there \cap Reserved /\ there \subseteq Pages
      /\ op.page \in Reserved \cup {NoPage} /\ p \in Pages
  BY DEF RInv, Typed, Pages
<1>4. /\ watch' \subseteq there' \cap Reserved /\ there' \subseteq Pages
  BY <1>2, <1>3 DEF Reserve, Release
<1>5. mem' \in [Pages -> Content]
  <2>1. Zeros[p] \in Content
    BY <1>3, Contents
  <2> QED BY <1>2, <1>3, <2>1 DEF Reserve, Release
<1>6. Typed' /\ vgen' > vgen
  BY <1>1, <1>3, <1>4, <1>5, GameTyped
<1>7. held => op'.page = NoPage
  BY <1>1 DEF RInv, Holding
<1> QED BY <1>1, <1>6, <1>7, MovedOn

\* A heap that grows changes no content.
LEMMA GrowStep ==
    ASSUME RInv, NEW p \in Heap, Grow(p)
    PROVE  RInv'
<1>1. /\ there' = there \cup {p}
      /\ UNCHANGED <<mem, watch, wrote, vgen, op>>
      /\ UNCHANGED <<known, buffers, held, rpc, job, tick, truth>>
  BY DEF Grow
<1>2. stamps' = stamps
  BY <1>1 DEF known
<1>3. /\ Typed /\ vgen \in Nat /\ mem \in [Pages -> Content]
      /\ watch \subseteq there \cap Reserved /\ there \subseteq Pages
      /\ op.page \in Reserved \cup {NoPage} /\ p \in Pages
  BY DEF RInv, Typed, Pages
<1>4. Typed'
  <2>1. watch' \subseteq there' \cap Reserved /\ there' \subseteq Pages
    BY <1>1, <1>3
  <2> QED BY <1>1, <1>3, <2>1, GameTyped
<1>5. Speaks' => stamps.pages \subseteq watch'
  BY <1>1, <1>2 DEF RInv, Known, Speaks
<1>6. held => op'.page = NoPage
  BY <1>1 DEF RInv, Holding
<1> QED BY <1>1, <1>3, <1>4, <1>5, <1>6, GameKeeps

\* The side thread's call: the generation moves before and after it, and the
\* page it reserves is none the stamps speak of.
LEMMA SideStep ==
    ASSUME RInv, (\E p \in Reserved : SideBegins(p)) \/ SideChanges \/ SideEnds
    PROVE  RInv'
<1>1. UNCHANGED <<known, buffers, held, rpc, job, tick, truth>>
  BY DEF SideBegins, SideChanges, SideEnds
<1>2. stamps' = stamps
  BY <1>1 DEF known
<1>3. /\ Typed /\ vgen \in Nat /\ mem \in [Pages -> Content]
      /\ watch \subseteq there \cap Reserved /\ there \subseteq Pages
      /\ op.page \in Reserved \cup {NoPage} /\ Reserved \subseteq Pages
  BY DEF RInv, Typed, Pages
<1>4. ~held /\ rpc # "marked"
  <2>1. held => op.page = NoPage
    BY DEF RInv, Holding
  <2>2. ~held
    BY <2>1 DEF SideBegins, SideChanges, SideEnds
  <2> QED BY <2>2 DEF RInv, Holding
<1>5. CASE (\E p \in Reserved : SideBegins(p)) \/ SideEnds
  <2>1. /\ vgen' = vgen + 1 /\ op'.page \in Reserved \cup {NoPage}
        /\ UNCHANGED <<mem, there, watch>>
    BY <1>5 DEF SideBegins, SideEnds
  <2>2. Typed' /\ vgen' > vgen
    BY <1>1, <1>3, <2>1, GameTyped
  <2> QED BY <1>1, <1>4, <2>2, MovedOn
<1>6. CASE SideChanges
  <2>1. /\ op'.page = op.page /\ vgen' = vgen /\ op.page # NoPage
        /\ op.page \in Reserved /\ op.page \in Pages
    <3>1. op' = [op EXCEPT !.done = TRUE] /\ vgen' = vgen /\ op.page # NoPage
      BY <1>6 DEF SideChanges
    <3>2. op'.page = op.page
      BY <3>1
    <3> QED BY <1>3, <3>1, <3>2
  <2>2. CASE op.page \in there
    <3>1. UNCHANGED <<mem, there, watch, wrote>>
      BY <1>6, <2>2 DEF SideChanges
    <3>2. Typed'
      BY <1>1, <1>3, <2>1, <3>1, GameTyped
    <3>3. Speaks' => stamps.pages \subseteq watch'
      BY <1>2, <2>1, <3>1 DEF RInv, Known, Speaks
    <3> QED BY <1>1, <1>3, <1>4, <2>1, <3>1, <3>2, <3>3, GameKeeps
  <2>3. CASE op.page \notin there
    <3> DEFINE p == op.page
    <3>1. /\ there' = there \cup {p} /\ watch' \in {watch, watch \cup {p}}
          /\ mem' = [mem EXCEPT ![p] = Zeros[p]] /\ wrote' = wrote \ {p}
      BY <1>6, <2>3 DEF SideChanges, Reserve
    <3>2. p \notin watch /\ p \in Pages /\ p \in Reserved
      BY <1>3, <2>1, <2>3
    <3> HIDE DEF p
    <3>3. mem' \in [Pages -> Content]
      BY <1>3, <3>1, <3>2, Contents
    <3>4. watch' \subseteq there' \cap Reserved /\ there' \subseteq Pages
      BY <1>3, <3>1, <3>2
    <3>5. Typed'
      BY <1>1, <1>3, <2>1, <3>3, <3>4, GameTyped
    <3>6. Speaks' => stamps.pages \subseteq watch
      BY <1>2, <2>1 DEF RInv, Known, Speaks
    <3>7. Speaks' => stamps.pages \subseteq watch'
      BY <3>1, <3>6
    <3>8. Speaks' => \A q \in stamps.pages :
                        q \notin wrote' => q \notin wrote /\ mem'[q] = mem[q]
      <4> SUFFICES ASSUME Speaks', NEW q \in stamps.pages, q \notin wrote'
                   PROVE  q \notin wrote /\ mem'[q] = mem[q]
        OBVIOUS
      <4>1. q # p /\ q \in Pages
        BY <1>3, <3>2, <3>6
      <4> QED BY <1>3, <3>1, <4>1
    <3> QED BY <1>1, <1>3, <1>4, <2>1, <3>5, <3>7, <3>8, GameKeeps
  <2> QED BY <2>2, <2>3
<1> QED BY <1>5, <1>6

-----------------------------------------------------------------------------
\* The steps of a tick that leave memory alone.

\* A tick begins, and reads the generation.
LEMMA BeginStep == ASSUME RInv, TickBegins \/ ReadGen PROVE RInv'
<1>1. UNCHANGED <<mem, there, watch, wrote, vgen, op, stamps, epoch, layout,
                  ranges, cache, before, prev, havePrev, held, truth>>
  BY DEF TickBegins, ReadGen, system, known, buffers
<1>2. /\ rpc \in {"work", "gen"} /\ rpc' \in {"gen", "walk"}
      /\ rpc = "gen" => rpc' = "walk"
  BY DEF TickBegins, ReadGen
<1>3. /\ job' \in [todo : SUBSET Pages, room : BOOLEAN, blend : BOOLEAN, gen : Int,
                   incB : BOOLEAN, incP : BOOLEAN, blended : SUBSET Pages]
      /\ job'.gen <= vgen /\ ~job'.blend /\ job'.blended = {} /\ tick' \in Int
      /\ tick' = IF rpc = "work" THEN tick + 1 ELSE tick
  <2>1. CASE TickBegins
    <3>1. PICK room \in BOOLEAN : job' = [NoJob EXCEPT !.room = room /\ tick > 0]
      BY <2>1 DEF TickBegins
    <3> DEFINE r == room /\ tick > 0
    <3>2. r \in BOOLEAN
      OBVIOUS
    <3> HIDE DEF r
    <3>3. job' = [NoJob EXCEPT !.room = r]
      BY <3>1 DEF r
    <3>4. vgen \in Nat /\ tick \in Int
      BY DEF RInv, Typed
    <3>5. job'.gen = -1 /\ -1 <= vgen
      BY <3>3, <3>4 DEF NoJob, NoGen
    <3>6. rpc = "work" /\ tick' = tick + 1
      BY <2>1 DEF TickBegins
    <3>7. NoJob \in [todo : SUBSET Pages, room : BOOLEAN, blend : BOOLEAN,
                     gen : Int, incB : BOOLEAN, incP : BOOLEAN,
                     blended : SUBSET Pages] /\ ~NoJob.blend /\ NoJob.blended = {}
      BY DEF NoJob, NoGen
    <3>8. job' \in [todo : SUBSET Pages, room : BOOLEAN, blend : BOOLEAN,
                    gen : Int, incB : BOOLEAN, incP : BOOLEAN,
                    blended : SUBSET Pages] /\ ~job'.blend /\ job'.blended = {}
      BY <3>2, <3>3, <3>7
    <3> QED BY <3>4, <3>5, <3>6, <3>8
  <2>2. CASE ReadGen
    <3>1. /\ job' = [job EXCEPT !.gen = vgen] /\ tick' = tick /\ rpc = "gen"
          /\ vgen \in Int /\ tick \in Int
          /\ job \in [todo : SUBSET Pages, room : BOOLEAN, blend : BOOLEAN,
                      gen : Int, incB : BOOLEAN, incP : BOOLEAN,
                      blended : SUBSET Pages]
      BY <2>2 DEF ReadGen, RInv, Typed
    <3>2. ~job.blend /\ job.blended = {}
      BY <3>1 DEF RInv, Holding
    <3> QED BY <3>1, <3>2
  <2> QED BY <2>1, <2>2
<1>4. Typed'
  BY <1>1, <1>3 DEF RInv, Typed, BufferTyped
<1>5. Known'
  BY <1>1, <1>3 DEF RInv, Known
<1>6. Holding'
  BY <1>1, <1>2, <1>3 DEF RInv, Holding
<1>7. Aged' /\ Copying' /\ CleanIn(before)' /\ CleanIn(prev)'
  BY <1>1, <1>2 DEF RInv, Aged, Older, Newer, Filled, Copying, CleanIn, Speaks
<1>8. Neighbours'
  <2>1. tick \in Int
    BY DEF RInv, Typed
  <2> QED BY <1>1, <1>2, <1>3, <2>1 DEF RInv, Neighbours, Filled
<1>9. Taken'
  BY <1>2 DEF Taken, SnapshotExact, BlendExact, Restored
<1> QED BY <1>4, <1>5, <1>6, <1>7, <1>8, <1>9 DEF RInv

\* A walk that fails leaves no tick N behind.
LEMMA FailStep == ASSUME RInv, BuildFails PROVE RInv'
<1>1. /\ UNCHANGED <<mem, there, watch, wrote, vgen, op, stamps, epoch, layout,
                     ranges, cache, before, prev, held, truth, job, tick>>
      /\ rpc = "gen" /\ rpc' = "work" /\ havePrev' = FALSE
  BY DEF BuildFails, system, known
<1>2. Typed' /\ Known'
  BY <1>1 DEF RInv, Typed, BufferTyped, Known
<1>3. Holding' /\ ~job.blend
  BY <1>1 DEF RInv, Holding
<1>4. Aged' /\ Copying' /\ CleanIn(before)' /\ CleanIn(prev)'
  BY <1>1 DEF RInv, Aged, Older, Newer, Filled, Copying, CleanIn, Speaks
<1>5. Neighbours' /\ Taken'
  BY <1>1, <1>3 DEF Neighbours, Filled, Taken, SnapshotExact, BlendExact, Restored
<1> QED BY <1>2, <1>3, <1>4, <1>5 DEF RInv

\* The side threads are held, or let go.
LEMMA HoldStep == ASSUME RInv, Hold \/ Unhold PROVE RInv'
<1>1. /\ UNCHANGED <<mem, there, watch, wrote, vgen, op, stamps, epoch, layout,
                     ranges, cache, before, prev, havePrev, truth, job, tick>>
      /\ \/ rpc = "hold" /\ rpc' = "poll" /\ held' = TRUE /\ op.page = NoPage
         \/ rpc = "marked" /\ rpc' = "kept" /\ held' = FALSE
  BY DEF Hold, Unhold, system, known, buffers
<1>2. Typed' /\ Known'
  BY <1>1 DEF RInv, Typed, BufferTyped, Known
<1>3. Holding'
  BY <1>1 DEF RInv, Holding
<1>4. Aged' /\ Copying' /\ CleanIn(before)' /\ CleanIn(prev)'
  BY <1>1 DEF RInv, Aged, Older, Newer, Filled, Copying, CleanIn, Speaks
<1>5. Neighbours' /\ Taken'
  BY <1>1 DEF RInv, Neighbours, Filled, Taken, SnapshotExact, BlendExact, Restored
<1> QED BY <1>2, <1>3, <1>4, <1>5 DEF RInv

\* This tick's snapshot becomes tick N's, and the other buffer the next one's.
LEMMA KeepStep == ASSUME RInv, KeepPrev PROVE RInv'
<1>1. /\ UNCHANGED <<mem, there, watch, wrote, vgen, op, stamps, epoch, layout,
                     ranges, cache, held, tick>>
      /\ rpc = "kept" /\ rpc' = "work" /\ havePrev' = TRUE
      /\ job' = NoJob /\ truth' = Zeros /\ prev' = before /\ before' = prev
  BY DEF KeepPrev, system, known
<1>2. Zeros \in [Pages -> Content]
  BY Contents DEF Zeros
<1>3. NoJob \in [todo : SUBSET Pages, room : BOOLEAN, blend : BOOLEAN, gen : Int,
                 incB : BOOLEAN, incP : BOOLEAN, blended : SUBSET Pages]
      /\ NoJob.gen = -1 /\ ~NoJob.blend
  BY DEF NoJob, NoGen
<1>4. Typed'
  BY <1>1, <1>2, <1>3 DEF RInv, Typed, BufferTyped
<1>5. Known'
  <2>1. vgen \in Nat
    BY DEF RInv, Typed
  <2>2. job'.gen <= vgen
    BY <1>1, <1>3, <2>1
  <2> QED BY <1>1, <2>2 DEF RInv, Known
<1>6. Holding' /\ Copying' /\ CleanIn(before)' /\ CleanIn(prev)'
  BY <1>1 DEF RInv, Holding, Copying, CleanIn, Speaks
<1>7. Aged'
  <2>1. Filled /\ ~Filled'
    BY <1>1 DEF Filled
  <2>2. /\ before.epoch <= epoch /\ prev.epoch <= epoch
        /\ before.layout <= layout.n /\ prev.layout <= layout.n
        /\ prev.epoch <= before.epoch /\ prev.layout <= before.layout
        /\ \A b \in {before, prev} :
              b.epoch # 0 /\ b.layout = layout.n => b.ranges = ranges
    BY <2>1 DEF RInv, Aged, Older, Newer
  <2> QED BY <1>1, <2>1, <2>2 DEF Aged, Older, Newer
<1>8. Neighbours'
  BY <1>1, <1>3 DEF RInv, Neighbours, Filled
<1>9. Taken'
  BY <1>1 DEF Taken, SnapshotExact, BlendExact, Restored
<1> QED BY <1>4, <1>5, <1>6, <1>7, <1>8, <1>9 DEF RInv

\* The walk: what it learns is of the generation it has read, and where it is
\* not what was known before the layout has a new number.
LEMMA WalkStep == ASSUME RInv, Walk PROVE RInv'
<1>1. /\ UNCHANGED <<mem, there, watch, wrote, vgen, op, epoch, before, prev,
                     havePrev, held, job, tick, truth>>
      /\ cache' = Reservations
      /\ ranges' = Image \cup (Heap \cap there) \cup Reservations.ranges
      /\ stamps' = Rebuilt /\ layout' = Layout
      /\ rpc = "walk" /\ rpc' = IF job.room THEN "hold" ELSE "poll"
  BY DEF Walk, system, buffers
<1>t. /\ watch \subseteq there \cap Reserved /\ there \subseteq Pages
      /\ cache \in [ranges : SUBSET Pages, watch : SUBSET Pages, gen : Int]
      /\ stamps \in [pages : SUBSET Pages, at : [Pages -> Int], gen : Int]
      /\ layout \in [n : Nat, gen : Int, ranges : SUBSET Pages]
      /\ job.gen \in Int /\ vgen \in Nat
      /\ Reserved \subseteq Pages /\ Image \subseteq Pages
  BY DEF RInv, Typed, Pages
<1>k. /\ stamps.gen <= vgen /\ job.gen <= vgen
      /\ cache.gen = stamps.gen /\ layout.gen = stamps.gen
      /\ layout.ranges = ranges
      /\ stamps.pages = cache.watch /\ cache.watch \subseteq cache.ranges
      /\ cache.ranges \subseteq ranges
      /\ stamps.gen = vgen => stamps.pages \subseteq watch
  BY DEF RInv, Known
<1>2. CASE stamps.gen = job.gen
  <2>1. cache' = cache /\ stamps' = stamps
    BY <1>1, <1>k, <1>2 DEF Reservations, Rebuilt
  <2>2. /\ cache'.ranges \subseteq ranges' /\ ranges' \subseteq Pages
    BY <1>1, <1>t, <2>1
  <2>3. /\ layout' \in [n : Nat, gen : Int, ranges : SUBSET Pages]
        /\ layout'.gen = stamps.gen /\ layout'.ranges = ranges'
        /\ layout'.n >= layout.n
        /\ layout'.n = layout.n => ranges' = ranges
    <3>1. CASE layout.gen = job.gen /\ layout.ranges = ranges'
      BY <1>1, <1>t, <1>k, <3>1 DEF Layout
    <3>2. CASE ~(layout.gen = job.gen /\ layout.ranges = ranges')
      <4>1. layout' = [n |-> layout.n + 1, gen |-> job.gen, ranges |-> ranges']
        BY <1>1, <3>2 DEF Layout
      <4> QED BY <1>t, <1>2, <2>2, <4>1
    <3> QED BY <3>1, <3>2
  <2>4. Typed'
    BY <1>1, <2>1, <2>2, <2>3 DEF RInv, Typed, BufferTyped
  <2>5. Known'
    BY <1>1, <1>k, <2>1, <2>2, <2>3 DEF Known
  <2>6. /\ Aged' /\ CleanIn(before)' /\ CleanIn(prev)'
    <3>1. /\ before.layout \in Nat /\ prev.layout \in Nat /\ layout.n \in Nat
          /\ layout'.n \in Nat
      BY <2>3 DEF RInv, Typed, BufferTyped
    <3>2. /\ before.layout <= layout.n /\ prev.layout <= layout.n
      BY DEF RInv, Aged
    <3>3. \A b \in {before, prev} : /\ b.layout <= layout'.n
                                    /\ b.layout = layout'.n => layout'.n = layout.n
      BY <2>3, <3>1, <3>2
    <3>4. Aged'
      BY <1>1, <2>3, <3>3 DEF RInv, Aged, Older, Newer, Filled
    <3>5. CleanIn(before)' /\ CleanIn(prev)'
      BY <1>1, <2>1, <2>3, <3>3 DEF RInv, CleanIn, Speaks
    <3> QED BY <3>4, <3>5
  <2> QED BY <1>1, <2>4, <2>5, <2>6
          DEF RInv, Holding, Copying, Neighbours, Filled, Taken, SnapshotExact,
              BlendExact, Restored
<1>3. CASE stamps.gen # job.gen
  <2>1. /\ cache' = [ranges |-> there \cap Reserved, watch |-> watch,
                     gen |-> job.gen]
        /\ stamps' = [pages |-> watch, at |-> [p \in Pages |-> 0], gen |-> job.gen]
        /\ layout' = [n |-> layout.n + 1, gen |-> job.gen, ranges |-> ranges']
        /\ ranges' = Image \cup (Heap \cap there) \cup (there \cap Reserved)
    BY <1>1, <1>k, <1>3 DEF Reservations, Rebuilt, Layout
  <2>2. ranges' \subseteq Pages /\ watch \subseteq there \cap Reserved
    BY <1>t, <2>1
  <2>3. Typed'
    <3>1. /\ cache' \in [ranges : SUBSET Pages, watch : SUBSET Pages, gen : Int]
          /\ stamps' \in [pages : SUBSET Pages, at : [Pages -> Int], gen : Int]
          /\ layout' \in [n : Nat, gen : Int, ranges : SUBSET Pages]
      BY <1>t, <2>1, <2>2
    <3> QED BY <1>1, <2>2, <3>1 DEF RInv, Typed, BufferTyped
  <2>4. Known'
    BY <1>1, <1>k, <2>1, <2>2 DEF Known
  <2>5. /\ Aged' /\ CleanIn(before)' /\ CleanIn(prev)'
    <3>1. /\ before.layout \in Nat /\ prev.layout \in Nat /\ layout.n \in Nat
          /\ layout'.n = layout.n + 1
      BY <1>t, <2>1 DEF RInv, Typed, BufferTyped
    <3>2. /\ before.layout <= layout.n /\ prev.layout <= layout.n
      BY DEF RInv, Aged
    <3>3. \A b \in {before, prev} : b.layout <= layout'.n /\ b.layout # layout'.n
      BY <3>1, <3>2
    <3>4. Aged'
      BY <1>1, <3>3 DEF RInv, Aged, Older, Newer, Filled
    <3>5. CleanIn(before)' /\ CleanIn(prev)'
      BY <1>1, <3>3 DEF CleanIn
    <3> QED BY <3>4, <3>5
  <2> QED BY <1>1, <2>3, <2>4, <2>5
          DEF RInv, Holding, Copying, Neighbours, Filled, Taken, SnapshotExact,
              BlendExact, Restored
<1> QED BY <1>2, <1>3

-----------------------------------------------------------------------------
\* The snapshot.

\* Where the stamps speak, a poll marks every written page with the epoch, and
\* no buffer is younger than that.
LEMMA PollKeeps ==
    ASSUME RInv, stamps' = Polled, NEW p \in stamps.pages, Speaks, NEW e \in Int,
           e <= epoch, stamps'.at[p] < e
    PROVE  stamps.at[p] < e /\ p \notin wrote
<1>1. p \in watch /\ p \in Pages /\ epoch \in Int
  BY DEF RInv, Known, Typed, Speaks
<1>2. stamps \in [pages : SUBSET Pages, at : [Pages -> Int], gen : Int]
  BY DEF RInv, Typed
<1>3. stamps'.at = [q \in Pages |-> CASE q \in stamps.pages \ watch -> Top
                      [] q \in stamps.pages \cap watch \cap wrote -> epoch
                      [] OTHER -> stamps.at[q]]
  BY <1>2 DEF Polled
<1>4. stamps'.at[p] = CASE p \in stamps.pages \ watch -> Top
                      [] p \in stamps.pages \cap watch \cap wrote -> epoch
                      [] OTHER -> stamps.at[p]
  BY <1>1, <1>3
<1>5. p \notin wrote
  <2> SUFFICES ASSUME p \in wrote PROVE FALSE
    OBVIOUS
  <2>1. stamps'.at[p] = epoch
    BY <1>1, <1>4
  <2> QED BY <1>1, <2>1
<1>6. stamps'.at[p] = stamps.at[p]
  BY <1>1, <1>4, <1>5
<1> QED BY <1>5, <1>6

\* A poll changes stamps and nothing else that is known.
LEMMA PollTyped ==
    ASSUME Typed
    PROVE  /\ Polled \in [pages : SUBSET Pages, at : [Pages -> Int], gen : Int]
           /\ Polled.pages = stamps.pages /\ Polled.gen = stamps.gen
<1> DEFINE f == [q \in Pages |-> CASE q \in stamps.pages \ watch -> Top
                      [] q \in stamps.pages \cap watch \cap wrote -> epoch
                      [] OTHER -> stamps.at[q]]
<1>1. stamps \in [pages : SUBSET Pages, at : [Pages -> Int], gen : Int]
      /\ epoch \in Int
  BY DEF Typed
<1>2. Top \in Int
  BY ReplayAssumption DEF Top
<1>3. f \in [Pages -> Int]
  BY <1>1, <1>2
<1>4. Polled = [stamps EXCEPT !.at = f]
  BY DEF Polled
<1> HIDE DEF f
<1> QED BY <1>1, <1>3, <1>4

\* The snapshot begins with a poll.
LEMMA SnapBeginsStep == ASSUME RInv, SnapBegins PROVE RInv'
<1>1. /\ UNCHANGED <<mem, there, watch, vgen, op, epoch, layout, ranges, cache,
                     before, prev, havePrev, held, tick, truth>>
      /\ rpc = "poll" /\ rpc' = "copy"
      /\ stamps' = Polled /\ wrote' = Unpolled
      /\ job' = [job EXCEPT !.todo = ranges, !.blend = job.room /\ havePrev,
                            !.incB = Current(before), !.incP = Current(prev)]
  BY DEF SnapBegins, buffers
<1>t. /\ stamps' \in [pages : SUBSET Pages, at : [Pages -> Int], gen : Int]
      /\ stamps'.pages = stamps.pages /\ stamps'.gen = stamps.gen
      /\ stamps.pages \subseteq Pages
  BY <1>1, PollTyped DEF RInv, Typed
<1>j. /\ job' \in [todo : SUBSET Pages, room : BOOLEAN, blend : BOOLEAN, gen : Int,
                   incB : BOOLEAN, incP : BOOLEAN, blended : SUBSET Pages]
      /\ job'.todo = ranges /\ job'.room = job.room /\ job'.gen = job.gen
      /\ job'.blend = (job.room /\ havePrev)
      /\ job'.incB = Current(before) /\ job'.incP = Current(prev)
      /\ job'.blended = job.blended
  <2> DEFINE r == job.room /\ havePrev
             b == Current(before)
             c == Current(prev)
  <2>1. r \in BOOLEAN /\ b \in BOOLEAN /\ c \in BOOLEAN
    BY DEF Current
  <2>2. job' = [job EXCEPT !.todo = ranges, !.blend = r, !.incB = b, !.incP = c]
    BY <1>1
  <2>3. ranges \in SUBSET Pages
        /\ job \in [todo : SUBSET Pages, room : BOOLEAN, blend : BOOLEAN,
                    gen : Int, incB : BOOLEAN, incP : BOOLEAN,
                    blended : SUBSET Pages]
    BY DEF RInv, Typed
  <2> HIDE DEF r, b, c
  <2>4. /\ job' \in [todo : SUBSET Pages, room : BOOLEAN, blend : BOOLEAN,
                     gen : Int, incB : BOOLEAN, incP : BOOLEAN,
                     blended : SUBSET Pages]
        /\ job'.todo = ranges /\ job'.room = job.room /\ job'.gen = job.gen
        /\ job'.blend = r /\ job'.incB = b /\ job'.incP = c
        /\ job'.blended = job.blended
    BY <2>1, <2>2, <2>3
  <2> QED BY <2>4 DEF r, b, c
<1>2. Typed'
  BY <1>1, <1>t, <1>j DEF RInv, Typed, BufferTyped
<1>3. Known'
  BY <1>1, <1>t, <1>j DEF RInv, Known
<1>4. Holding'
  BY <1>1, <1>j DEF RInv, Holding
<1>5. Aged'
  BY <1>1 DEF RInv, Aged, Older, Newer, Filled
<1>6. ASSUME NEW b \in {before, prev}, CleanIn(b),
             b.epoch # 0, b.layout = layout.n, Speaks,
             NEW p \in stamps.pages, stamps'.at[p] < b.epoch
      PROVE  b.data[At(ranges, p)] = mem[p]
  <2>1. b.epoch \in Int /\ b.epoch <= epoch
    BY DEF RInv, Typed, BufferTyped, Aged
  <2>2. stamps.at[p] < b.epoch /\ p \notin wrote
    BY <1>1, <1>6, <2>1, PollKeeps
  <2> QED BY <1>6, <2>2 DEF CleanIn
<1>7. CleanIn(before)' /\ CleanIn(prev)'
  <2>1. Speaks' = Speaks
    BY <1>1, <1>t DEF Speaks
  <2>2. CleanIn(before) /\ CleanIn(prev)
    BY DEF RInv
  <2>3. CleanIn(before)'
    BY <1>1, <1>t, <1>6, <2>1, <2>2 DEF CleanIn
  <2>4. CleanIn(prev)'
    BY <1>1, <1>t, <1>6, <2>1, <2>2 DEF CleanIn
  <2> QED BY <2>3, <2>4
<1>8. Copying'
  <2>1. job'.todo = ranges' /\ ranges' \ job'.todo = {}
    BY <1>1, <1>j
  <2>2. /\ job'.incB => before.epoch # 0 /\ before.layout = layout.n /\ Speaks
        /\ job'.incP => prev.epoch # 0 /\ prev.layout = layout.n /\ Speaks
    BY <1>j DEF Current, Speaks
  <2>3. Speaks' = Speaks
    BY <1>1, <1>t DEF Speaks
  <2>4. stamps'.pages \cap wrote' = {}
    BY <1>1, <1>t DEF Unpolled
  <2>5. stamps'.pages \ job'.todo = {}
    BY <1>t, <1>j DEF RInv, Known
  <2>6. job'.blend => job'.blended = {}
    <3>1. job.blended = {}
      BY <1>1 DEF RInv, Holding
    <3> QED BY <1>j, <3>1
  <2>7. job'.blended = {} => job'.blended =
            {p \in (ranges' \ job'.todo) \cap prev'.ranges :
                prev'.data[At(prev'.ranges, p)] # truth'[p]}
    BY <2>1
  <2> QED BY <1>1, <2>1, <2>2, <2>3, <2>4, <2>5, <2>6, <2>7 DEF Copying
<1>9. Neighbours'
  BY <1>1, <1>j DEF RInv, Neighbours, Filled
<1>10. Taken'
  BY <1>1 DEF Taken, SnapshotExact, BlendExact, Restored
<1> QED BY <1>2, <1>3, <1>4, <1>5, <1>7, <1>8, <1>9, <1>10 DEF RInv

\* A page of the snapshot is copied unless it is clean, and blended where it
\* differs from tick N's; pages that are skipped would not have made a difference.
LEMMA CopyPageStep == ASSUME RInv, NEW p \in Pages, CopyPage(p) PROVE RInv'
<1> DEFINE a == At(ranges, p)
           S == Skips(p)
           B == Blends(p)
<1>1. /\ UNCHANGED <<there, watch, vgen, op, epoch, layout, ranges, cache, prev,
                     havePrev, held, rpc, tick, stamps>>
      /\ rpc = "copy" /\ p \in job.todo
      /\ before' = IF S THEN before ELSE [before EXCEPT !.data[a] = mem[p]]
      /\ mem' = IF B THEN [mem EXCEPT ![p] = Half] ELSE mem
      /\ wrote' = IF B THEN wrote \cup ({p} \cap watch) ELSE wrote
      /\ truth' = [truth EXCEPT ![p] = mem[p]]
      /\ job' = [job EXCEPT !.todo = job.todo \ {p},
                            !.blended = IF B THEN job.blended \cup {p}
                                        ELSE job.blended]
  BY DEF CopyPage
<1>s. S <=> job.incB /\ p \in stamps.pages /\ stamps.at[p] < before.epoch
  BY <1>1 DEF Skips, Clean
<1>b. B <=> /\ job.blend /\ ~S
            /\ ~(job.incP /\ p \in stamps.pages /\ stamps.at[p] < prev.epoch)
            /\ p \in prev.ranges /\ prev.data[At(prev.ranges, p)] # mem[p]
  BY <1>1 DEF Blends, Clean, Changed
<1> HIDE DEF S, B
<1>t. /\ mem \in [Pages -> Content] /\ truth \in [Pages -> Content]
      /\ before \in [data : [Pages -> Content], epoch : Nat, layout : Nat,
                     ranges : SUBSET Pages, tick : Int]
      /\ prev \in [data : [Pages -> Content], epoch : Nat, layout : Nat,
                   ranges : SUBSET Pages, tick : Int]
      /\ stamps \in [pages : SUBSET Pages, at : [Pages -> Int], gen : Int]
      /\ job \in [todo : SUBSET Pages, room : BOOLEAN, blend : BOOLEAN, gen : Int,
                  incB : BOOLEAN, incP : BOOLEAN, blended : SUBSET Pages]
      /\ ranges \subseteq Pages /\ layout.n \in Nat
  BY DEF RInv, Typed, BufferTyped
<1>c. /\ job.todo \subseteq ranges
      /\ job.incB => before.epoch # 0 /\ before.layout = layout.n
      /\ job.incP => prev.epoch # 0 /\ prev.layout = layout.n
      /\ held => /\ job.incB \/ job.incP => Speaks
                 /\ job.todo \cap stamps.pages \cap wrote = {}
                 /\ \A q \in ranges \ job.todo :
                       before.data[At(ranges, q)] = truth[q]
      /\ Speaks => \A q \in stamps.pages \ job.todo :
                      q \notin wrote => before.data[At(ranges, q)] = mem[q]
      /\ job.blend =>
            job.blended = {q \in (ranges \ job.todo) \cap prev.ranges :
                              prev.data[At(prev.ranges, q)] # truth[q]}
  BY <1>1 DEF RInv, Copying
<1>w. /\ stamps.pages \subseteq ranges
      /\ Speaks => stamps.pages \subseteq watch
      /\ Speaks' = Speaks
  BY <1>1 DEF RInv, Known, Speaks
<1>2. /\ \A q \in ranges : At(ranges, q) \in Pages
      /\ \A q \in ranges : q # p => At(ranges, q) # a
  BY <1>c, <1>t, <1>1, AtInjective
<1> HIDE DEF a
<1>a. a = At(ranges, p) /\ a \in Pages /\ p \in ranges
  BY <1>1, <1>2, <1>c DEF a
<1>3. /\ before' \in [data : [Pages -> Content], epoch : Nat, layout : Nat,
                      ranges : SUBSET Pages, tick : Int]
      /\ before'.epoch = before.epoch /\ before'.layout = before.layout
      /\ before'.ranges = before.ranges /\ before'.tick = before.tick
      /\ before'.data = IF S THEN before.data
                        ELSE [before.data EXCEPT ![a] = mem[p]]
  <2>1. CASE S
    BY <1>1, <1>t, <2>1
  <2>2. CASE ~S
    <3> DEFINE d == [before.data EXCEPT ![a] = mem[p]]
    <3>1. before' = [before EXCEPT !.data = d]
      BY <1>1, <1>t, <2>2
    <3>2. d \in [Pages -> Content]
      BY <1>t
    <3> HIDE DEF d
    <3>3. /\ before' \in [data : [Pages -> Content], epoch : Nat, layout : Nat,
                          ranges : SUBSET Pages, tick : Int]
          /\ before'.epoch = before.epoch /\ before'.layout = before.layout
          /\ before'.ranges = before.ranges /\ before'.tick = before.tick
          /\ before'.data = d
      BY <1>t, <3>1, <3>2
    <3> QED BY <2>2, <3>3 DEF d
  <2> QED BY <2>1, <2>2
<1>4. /\ \A q \in ranges : q # p => /\ before'.data[At(ranges, q)]
                                         = before.data[At(ranges, q)]
                                    /\ mem'[q] = mem[q] /\ truth'[q] = truth[q]
                                    /\ q \in wrote' <=> q \in wrote
      /\ before'.data[a] = IF S THEN before.data[a] ELSE mem[p]
      /\ truth'[p] = mem[p]
  <2>1. before.data \in [Pages -> Content]
    BY <1>t
  <2>2. ASSUME NEW q \in ranges, q # p
        PROVE  /\ before'.data[At(ranges, q)] = before.data[At(ranges, q)]
               /\ mem'[q] = mem[q] /\ truth'[q] = truth[q]
               /\ q \in wrote' <=> q \in wrote
    <3>1. At(ranges, q) # a /\ At(ranges, q) \in Pages /\ q \in Pages
      BY <1>2, <1>t, <2>2 DEF a
    <3>2. before'.data[At(ranges, q)] = before.data[At(ranges, q)]
      BY <1>3, <1>a, <2>1, <3>1
    <3>3. mem'[q] = mem[q] /\ truth'[q] = truth[q]
      BY <1>1, <1>t, <2>2, <3>1
    <3>4. q \in wrote' <=> q \in wrote
      BY <1>1, <2>2
    <3> QED BY <3>2, <3>3, <3>4
  <2>3. before'.data[a] = IF S THEN before.data[a] ELSE mem[p]
    BY <1>3, <1>a, <2>1
  <2>4. truth'[p] = mem[p]
    BY <1>1, <1>t
  <2> QED BY <2>2, <2>3, <2>4
<1>5. /\ job' \in [todo : SUBSET Pages, room : BOOLEAN, blend : BOOLEAN, gen : Int,
                   incB : BOOLEAN, incP : BOOLEAN, blended : SUBSET Pages]
      /\ job'.todo = job.todo \ {p} /\ job'.room = job.room /\ job'.gen = job.gen
      /\ job'.blend = job.blend /\ job'.incB = job.incB /\ job'.incP = job.incP
      /\ job'.blended = IF B THEN job.blended \cup {p} ELSE job.blended
  <2> DEFINE m == IF B THEN job.blended \cup {p} ELSE job.blended
             u == job.todo \ {p}
  <2>1. m \in SUBSET Pages /\ u \in SUBSET Pages
    BY <1>t
  <2>2. job' = [job EXCEPT !.todo = u, !.blended = m]
    BY <1>1
  <2> HIDE DEF m, u
  <2>3. /\ job' \in [todo : SUBSET Pages, room : BOOLEAN, blend : BOOLEAN,
                     gen : Int, incB : BOOLEAN, incP : BOOLEAN,
                     blended : SUBSET Pages]
        /\ job'.todo = u /\ job'.room = job.room /\ job'.gen = job.gen
        /\ job'.blend = job.blend /\ job'.incB = job.incB
        /\ job'.incP = job.incP /\ job'.blended = m
    BY <1>t, <2>1, <2>2
  <2> QED BY <2>3 DEF m, u
<1>6. Typed'
  <2>1. mem' \in [Pages -> Content]
    BY <1>1, <1>t, Contents
  <2>2. truth' \in [Pages -> Content]
    BY <1>1, <1>t
  <2> QED BY <1>1, <1>3, <1>5, <2>1, <2>2 DEF RInv, Typed, BufferTyped
<1>7. Known' /\ Holding'
  BY <1>1, <1>5 DEF RInv, Known, Holding
<1>8. Aged'
  BY <1>1, <1>3 DEF RInv, Aged, Older, Newer, Filled
<1>9. Speaks /\ p \in stamps.pages /\ p \notin wrote' => ~B /\ p \notin wrote
  BY <1>1, <1>w
<1>10. Speaks /\ S /\ p \notin wrote => before.data[a] = mem[p]
  BY <1>a, <1>c, <1>s DEF RInv, CleanIn
<1>11. ASSUME Speaks, p \in stamps.pages, p \notin wrote'
       PROVE  before'.data[a] = mem'[p]
  <2>1. mem'[p] = mem[p] /\ p \notin wrote
    BY <1>1, <1>9, <1>11
  <2> QED BY <1>4, <1>10, <1>11, <2>1
<1>12. CleanIn(before)'
  <2> SUFFICES ASSUME before.epoch # 0, before.layout = layout.n, Speaks,
                      NEW q \in stamps.pages,
                      stamps.at[q] < before.epoch, q \notin wrote'
               PROVE  before'.data[At(ranges, q)] = mem'[q]
    BY <1>1, <1>3, <1>w DEF CleanIn
  <2>1. CASE q = p
    BY <1>11, <1>a, <2>1
  <2>2. CASE q # p
    <3>1. q \in ranges
      BY <1>w
    <3>2. before.data[At(ranges, q)] = mem[q]
      BY <1>4, <2>2, <3>1 DEF RInv, CleanIn
    <3> QED BY <1>4, <2>2, <3>1, <3>2
  <2> QED BY <2>1, <2>2
<1>13. CleanIn(prev)'
  <2> SUFFICES ASSUME prev.epoch # 0, prev.layout = layout.n, Speaks,
                      NEW q \in stamps.pages,
                      stamps.at[q] < prev.epoch, q \notin wrote'
               PROVE  prev.data[At(ranges, q)] = mem'[q]
    BY <1>1, <1>w DEF CleanIn
  <2>1. mem'[q] = mem[q] /\ q \notin wrote
    BY <1>1, <1>4, <1>9, <1>w
  <2> QED BY <2>1 DEF RInv, CleanIn
<1>14. ASSUME job.blend
       PROVE  B <=> p \in prev.ranges /\ prev.data[At(prev.ranges, p)] # mem[p]
  <2>1. held
    BY <1>1, <1>14 DEF RInv, Holding, Neighbours
  <2>2. p \in stamps.pages => p \notin wrote
    BY <1>1, <1>c, <2>1
  <2>3. /\ before.epoch <= prev.epoch
        /\ before.layout <= prev.layout
        /\ prev.layout <= layout.n
        /\ prev.epoch # 0 /\ prev.layout = layout.n => prev.ranges = ranges
    BY <1>1 DEF RInv, Aged, Older, Newer, Filled
  <2>4. /\ before.epoch \in Nat /\ prev.epoch \in Nat /\ before.layout \in Nat
        /\ prev.layout \in Nat
        /\ p \in stamps.pages => stamps.at[p] \in Int
    BY <1>t
  <2>5. ASSUME prev.epoch # 0, prev.layout = layout.n, Speaks,
               p \in stamps.pages, stamps.at[p] < prev.epoch
        PROVE  prev.data[At(prev.ranges, p)] = mem[p]
    <3>1. prev.data[At(ranges, p)] = mem[p]
      BY <2>2, <2>5 DEF RInv, CleanIn
    <3>2. prev.ranges = ranges
      BY <2>3, <2>5
    <3> QED BY <3>1, <3>2
  <2>6. S => prev.data[At(prev.ranges, p)] = mem[p]
    <3> SUFFICES ASSUME S PROVE prev.data[At(prev.ranges, p)] = mem[p]
      OBVIOUS
    <3>1. job.incB /\ p \in stamps.pages /\ stamps.at[p] < before.epoch
          /\ before.epoch # 0 /\ before.layout = layout.n /\ Speaks
      BY <1>c, <1>s, <2>1
    <3>2. prev.epoch # 0 /\ prev.layout = layout.n /\ stamps.at[p] < prev.epoch
      <4> DEFINE e == before.epoch
                 f == prev.epoch
                 s == stamps.at[p]
                 l == layout.n
                 m == prev.layout
      <4>1. e \in Nat /\ f \in Nat /\ s \in Int /\ e <= f /\ e # 0 /\ s < e
        BY <2>3, <2>4, <3>1
      <4>2. l \in Nat /\ m \in Nat /\ l <= m /\ m <= l
        BY <1>t, <2>3, <2>4, <3>1
      <4> HIDE DEF e, f, s, l, m
      <4>3. f # 0 /\ s < f /\ m = l
        BY <4>1, <4>2
      <4> QED BY <4>3 DEF f, s, l, m
    <3> QED BY <2>5, <3>1, <3>2
  <2>7. job.incP /\ p \in stamps.pages /\ stamps.at[p] < prev.epoch
          => prev.data[At(prev.ranges, p)] = mem[p]
    BY <1>c, <2>1, <2>5
  <2> QED BY <1>14, <1>b, <2>6, <2>7
<1>15. Copying'
  <2>1. /\ job'.todo \subseteq ranges'
        /\ job'.incB => before'.epoch # 0 /\ before'.layout = layout'.n
        /\ job'.incP => prev'.epoch # 0 /\ prev'.layout = layout'.n
    BY <1>1, <1>3, <1>5, <1>c
  <2>2. ASSUME held
        PROVE  /\ job'.incB \/ job'.incP => Speaks'
               /\ job'.todo \cap stamps'.pages \cap wrote' = {}
               /\ \A q \in ranges' \ job'.todo :
                     before'.data[At(ranges', q)] = truth'[q]
    <3>1. job'.incB \/ job'.incP => Speaks'
      BY <1>5, <1>c, <1>w, <2>2
    <3>2. job'.todo \cap stamps'.pages \cap wrote' = {}
      BY <1>1, <1>5, <1>c, <2>2
    <3>3. ASSUME NEW q \in ranges \ job'.todo
          PROVE  before'.data[At(ranges, q)] = truth'[q]
      <4>1. CASE q = p
        <5>1. S => Speaks /\ p \notin wrote
          BY <1>1, <1>c, <1>s, <2>2
        <5>2. before'.data[a] = mem[p]
          BY <1>4, <1>10, <5>1
        <5> QED BY <1>4, <1>a, <4>1, <5>2
      <4>2. CASE q # p
        <5>1. q \in ranges \ job.todo
          BY <1>5, <3>3, <4>2
        <5>2. before.data[At(ranges, q)] = truth[q]
          BY <1>c, <2>2, <5>1
        <5> QED BY <1>4, <4>2, <5>1, <5>2
      <4> QED BY <4>1, <4>2
    <3> QED BY <1>1, <3>1, <3>2, <3>3
  <2>3. ASSUME Speaks, NEW q \in stamps.pages \ job'.todo, q \notin wrote'
        PROVE  before'.data[At(ranges, q)] = mem'[q]
    <3>1. CASE q = p
      BY <1>11, <1>a, <2>3, <3>1
    <3>2. CASE q # p
      <4>1. q \in ranges /\ q \in stamps.pages \ job.todo
        BY <1>5, <1>w, <2>3, <3>2
      <4>2. q \notin wrote
        BY <1>4, <2>3, <3>2, <4>1
      <4>3. before.data[At(ranges, q)] = mem[q]
        BY <1>c, <2>3, <4>1, <4>2
      <4> QED BY <1>4, <3>2, <4>1, <4>3
    <3> QED BY <3>1, <3>2
  <2>4. ASSUME job.blend
        PROVE  job'.blended = {q \in (ranges \ job'.todo) \cap prev.ranges :
                                  prev.data[At(prev.ranges, q)] # truth'[q]}
    <3> DEFINE old == {q \in (ranges \ job.todo) \cap prev.ranges :
                          prev.data[At(prev.ranges, q)] # truth[q]}
               new == {q \in (ranges \ job'.todo) \cap prev.ranges :
                          prev.data[At(prev.ranges, q)] # truth'[q]}
    <3>1. ASSUME NEW q \in ranges, q # p PROVE q \in new <=> q \in old
      <4>1. truth'[q] = truth[q] /\ (q \in job'.todo <=> q \in job.todo)
        BY <1>4, <1>5, <3>1
      <4> QED BY <4>1
    <3>2. p \in new <=> B
      <4>1. p \notin job'.todo /\ truth'[p] = mem[p] /\ p \in ranges
        BY <1>4, <1>5, <1>a
      <4> QED BY <1>14, <2>4, <4>1
    <3>3. p \notin old /\ old \subseteq ranges /\ new \subseteq ranges
      BY <1>1
    <3>4. job.blended = old
      BY <1>c, <2>4
    <3> HIDE DEF old, new
    <3>5. job'.blended = new
      BY <1>5, <1>a, <3>1, <3>2, <3>3, <3>4
    <3> QED BY <3>5 DEF new
  <2> QED BY <1>1, <1>5, <1>w, <2>1, <2>2, <2>3, <2>4 DEF Copying
<1>16. Neighbours'
  BY <1>1, <1>3, <1>5 DEF RInv, Neighbours, Filled
<1>17. Taken'
  BY <1>1 DEF Taken, SnapshotExact, BlendExact, Restored
<1> QED BY <1>6, <1>7, <1>8, <1>12, <1>13, <1>15, <1>16, <1>17 DEF RInv

\* The snapshot ends: it is the youngest, and all of its pages are as they were.
LEMMA SnapEndsStep == ASSUME RInv, SnapEnds PROVE RInv'
<1>1. /\ UNCHANGED <<mem, there, watch, wrote, vgen, op, stamps, layout, ranges,
                     cache, prev, havePrev, held, job, tick, truth>>
      /\ rpc = "copy" /\ job.todo = {} /\ epoch' = epoch + 1
      /\ before' = [before EXCEPT !.epoch = epoch', !.layout = layout.n,
                                  !.ranges = ranges, !.tick = tick]
      /\ rpc' = IF held THEN "draw" ELSE "kept"
  BY DEF SnapEnds, system
<1>t. /\ epoch \in Nat /\ layout.n \in Nat /\ ranges \in SUBSET Pages /\ tick \in Int
      /\ BufferTyped(before) /\ BufferTyped(prev) /\ held \in BOOLEAN
  BY DEF RInv, Typed
<1>2. /\ before' \in [data : [Pages -> Content], epoch : Nat, layout : Nat,
                      ranges : SUBSET Pages, tick : Int]
      /\ before'.data = before.data /\ before'.epoch = epoch + 1
      /\ before'.layout = layout.n /\ before'.ranges = ranges
      /\ before'.tick = tick /\ epoch' \in Nat
  <2>1. epoch' \in Nat
    BY <1>1, <1>t
  <2> QED BY <1>1, <1>t, <2>1 DEF BufferTyped
<1>3. Typed'
  BY <1>1, <1>2 DEF RInv, Typed, BufferTyped
<1>4. Known'
  BY <1>1 DEF RInv, Known
<1>5. Holding'
  BY <1>1 DEF RInv, Holding
<1>6. Aged'
  <2>1. prev.epoch <= epoch /\ prev.epoch \in Nat /\ prev.layout <= layout.n
        /\ (prev.epoch # 0 /\ prev.layout = layout.n => prev.ranges = ranges)
    BY <1>t DEF RInv, Aged, BufferTyped
  <2>2. /\ before'.epoch <= epoch' /\ prev.epoch <= epoch'
        /\ prev.epoch <= before'.epoch
        /\ before'.layout <= layout.n
    BY <1>1, <1>2, <1>t, <2>1
  <2>3. Filled'
    BY <1>1 DEF Filled
  <2> QED BY <1>1, <1>2, <2>1, <2>2, <2>3 DEF Aged, Older, Newer
<1>7. CleanIn(prev)'
  BY <1>1 DEF RInv, CleanIn, Speaks
<1>8. CleanIn(before)'
  <2>1. Speaks => \A p \in stamps.pages :
                     p \notin wrote => before.data[At(ranges, p)] = mem[p]
    BY <1>1 DEF RInv, Copying
  <2> QED BY <1>1, <1>2, <2>1 DEF CleanIn, Speaks
<1>9. Copying'
  BY <1>1 DEF Copying
<1>10. Neighbours'
  BY <1>1, <1>2 DEF RInv, Neighbours, Filled
<1>11. Taken'
  <2>1. CASE held
    <3>1. /\ \A p \in ranges : before.data[At(ranges, p)] = truth[p]
          /\ job.blend => job.blended = {p \in ranges \cap prev.ranges :
                              prev.data[At(prev.ranges, p)] # truth[p]}
      BY <1>1, <2>1 DEF RInv, Copying
    <3>2. before'.epoch # 0
      BY <1>2, <1>t
    <3> QED BY <1>1, <1>2, <2>1, <3>1, <3>2
            DEF Taken, SnapshotExact, BlendExact, Restored
  <2>2. CASE ~held
    BY <1>1, <2>2 DEF Taken, SnapshotExact, BlendExact, Restored
  <2> QED BY <2>1, <2>2
<1> QED BY <1>3, <1>4, <1>5, <1>6, <1>7, <1>8, <1>9, <1>10, <1>11 DEF RInv

\* The restore writes every page that is not as it was: those it skips are clean.
LEMMA RestoreStep == ASSUME RInv, Restore PROVE RInv'
<1> DEFINE inc == Current(before)
           D == Dirty(inc)
<1>1. /\ UNCHANGED <<there, watch, vgen, op, epoch, layout, ranges, cache, before,
                     prev, havePrev, held, job, tick, truth>>
      /\ rpc = "draw" /\ rpc' = "marked"
      /\ stamps' = IF inc THEN Polled ELSE stamps
      /\ mem' = [p \in Pages |-> IF p \in D THEN before.data[At(ranges, p)]
                                            ELSE mem[p]]
      /\ wrote' = (D \cap watch) \cup (IF inc THEN Unpolled ELSE wrote)
  BY DEF Restore, buffers
<1>d. D = {p \in ranges :
              /\ ~(inc /\ p \in stamps'.pages /\ stamps'.at[p] < before.epoch)
              /\ mem[p] # before.data[At(ranges, p)]}
  BY DEF Dirty, Clean
<1>i. inc => Speaks
  BY DEF Current, Speaks
<1> HIDE DEF inc, D
<1>t. /\ Typed /\ mem \in [Pages -> Content] /\ ranges \subseteq Pages
      /\ before.data \in [Pages -> Content] /\ before.epoch \in Int
      /\ prev.epoch \in Int
      /\ stamps.pages \subseteq ranges /\ stamps.pages \subseteq Pages
      /\ before.epoch <= epoch /\ prev.epoch <= epoch
      /\ Speaks => stamps.pages \subseteq watch
  BY DEF RInv, Typed, BufferTyped, Known, Aged, Speaks
<1>2. /\ stamps' \in [pages : SUBSET Pages, at : [Pages -> Int], gen : Int]
      /\ stamps'.pages = stamps.pages /\ stamps'.gen = stamps.gen
  <2>1. stamps \in [pages : SUBSET Pages, at : [Pages -> Int], gen : Int]
    BY DEF RInv, Typed
  <2> QED BY <1>1, <1>t, <2>1, PollTyped
<1>3. Speaks' = Speaks
  BY <1>1, <1>2 DEF Speaks
<1>4. ASSUME Speaks, NEW p \in stamps.pages, NEW e \in Int, e <= epoch,
             stamps'.at[p] < e, inc \/ p \notin wrote
      PROVE  stamps.at[p] < e /\ p \notin wrote
  <2>1. CASE inc
    <3>1. stamps' = Polled
      BY <1>1, <2>1
    <3> QED BY <1>4, <3>1, PollKeeps
  <2>2. CASE ~inc
    BY <1>1, <1>4, <2>2
  <2> QED BY <2>1, <2>2
<1>5. /\ rpc = "draw" /\ before.ranges = ranges /\ before.epoch # 0
      /\ before.epoch = epoch
      /\ \A p \in ranges : before.data[At(ranges, p)] = truth[p]
  BY <1>1 DEF RInv, Taken, SnapshotExact
<1>6. \A p \in ranges : mem'[p] = truth[p]
  <2> SUFFICES ASSUME NEW p \in ranges, p \notin D PROVE mem[p] = truth[p]
    BY <1>1, <1>5, <1>t
  <2>1. CASE mem[p] = before.data[At(ranges, p)]
    BY <1>5, <2>1
  <2>2. CASE mem[p] # before.data[At(ranges, p)]
    <3>1. inc /\ p \in stamps.pages /\ stamps'.at[p] < before.epoch
      BY <1>2, <1>d, <2>2
    <3>2. stamps.at[p] < before.epoch /\ p \notin wrote /\ Speaks
      BY <1>4, <1>i, <1>t, <3>1
    <3>3. before.layout = layout.n
      BY <3>1 DEF inc, Current
    <3> QED BY <1>5, <2>2, <3>1, <3>2, <3>3 DEF RInv, CleanIn
  <2> QED BY <2>1, <2>2
<1>7. ASSUME Speaks, NEW p \in stamps.pages, p \notin wrote'
      PROVE  mem'[p] = mem[p] /\ (inc \/ p \notin wrote)
  <2>1. p \in watch /\ p \in Pages
    BY <1>7, <1>t
  <2>2. p \notin D
    BY <1>1, <1>7, <2>1
  <2> QED BY <1>1, <1>7, <2>1, <2>2
<1>8. ASSUME NEW b \in {before, prev}, CleanIn(b),
             b.epoch # 0, b.layout = layout.n, Speaks,
             NEW p \in stamps.pages, stamps'.at[p] < b.epoch, p \notin wrote'
      PROVE  b.data[At(ranges, p)] = mem'[p]
  <2>1. b.epoch \in Int /\ b.epoch <= epoch
    BY <1>t
  <2>2. mem'[p] = mem[p] /\ (inc \/ p \notin wrote)
    BY <1>7, <1>8
  <2>3. stamps.at[p] < b.epoch /\ p \notin wrote
    BY <1>4, <1>8, <2>1, <2>2
  <2> QED BY <1>8, <2>2, <2>3 DEF CleanIn
<1>9. CleanIn(before)'
  <2>1. CleanIn(before)
    BY DEF RInv
  <2> QED BY <1>1, <1>2, <1>3, <1>8, <2>1 DEF CleanIn
<1>10. CleanIn(prev)'
  <2>1. CleanIn(prev)
    BY DEF RInv
  <2> QED BY <1>1, <1>2, <1>3, <1>8, <2>1 DEF CleanIn
<1>11. Typed'
  <2>1. mem' \in [Pages -> Content]
    <3>1. \A p \in D : At(ranges, p) \in Pages
      BY <1>d, <1>t, AtInjective
    <3> QED BY <1>1, <1>t, <3>1
  <2> QED BY <1>1, <1>2, <2>1 DEF RInv, Typed, BufferTyped
<1>12. Known' /\ Holding'
  BY <1>1, <1>2 DEF RInv, Known, Holding
<1>13. Aged' /\ Copying' /\ Neighbours'
  BY <1>1 DEF RInv, Aged, Older, Newer, Copying, Neighbours, Filled
<1>14. Taken'
  BY <1>1, <1>5, <1>6 DEF RInv, Taken, SnapshotExact, BlendExact, Restored
<1> QED BY <1>9, <1>10, <1>11, <1>12, <1>13, <1>14 DEF RInv

-----------------------------------------------------------------------------
\* Every step keeps the invariant.
LEMMA ReplayInductive == ASSUME RInv, [Next]_replayVars PROVE RInv'
<1>1. CASE Game
  BY <1>1, WriteStep, AllocateStep, GrowStep, SideStep DEF Game
<1>2. CASE TickBegins \/ ReadGen \/ BuildFails \/ Walk \/ Hold \/ SnapBegins
           \/ (\E p \in Pages : CopyPage(p)) \/ SnapEnds \/ Restore \/ Unhold
           \/ KeepPrev
  BY <1>2, BeginStep, FailStep, WalkStep, HoldStep, SnapBeginsStep, CopyPageStep,
     SnapEndsStep, RestoreStep, KeepStep
<1>3. CASE UNCHANGED replayVars
  <2>1. /\ UNCHANGED <<mem, there, watch, wrote, vgen, op>>
        /\ UNCHANGED <<known, buffers, held, rpc, job, tick, truth>>
    BY <1>3 DEF replayVars, system
  <2>2. /\ Typed /\ vgen \in Nat /\ mem \in [Pages -> Content]
        /\ watch \subseteq there \cap Reserved /\ there \subseteq Pages
        /\ op.page \in Reserved \cup {NoPage} /\ stamps' = stamps
    BY <2>1 DEF RInv, Typed, known
  <2>3. Typed'
    BY <2>1, <2>2, GameTyped
  <2>4. /\ Speaks' => stamps.pages \subseteq watch'
        /\ held => op'.page = NoPage
    BY <2>1, <2>2 DEF RInv, Known, Holding, Speaks
  <2> QED BY <2>1, <2>2, <2>3, <2>4, GameKeeps
<1> QED BY <1>1, <1>2, <1>3 DEF Next

\* Before the first tick nothing is known and no buffer is filled.
LEMMA InitReplay == ASSUME Init PROVE RInv
<1>1. /\ mem = Zeros /\ there = Image /\ watch = {} /\ wrote = {} /\ vgen = 0
      /\ op = [page |-> NoPage, done |-> FALSE]
      /\ stamps = [pages |-> {}, at |-> [p \in Pages |-> 0], gen |-> NoGen]
      /\ epoch = 1 /\ layout = [n |-> 1, gen |-> NoGen, ranges |-> {}]
      /\ ranges = {} /\ cache = [ranges |-> {}, watch |-> {}, gen |-> NoGen]
      /\ before = Empty /\ prev = Empty /\ havePrev = FALSE
      /\ held = FALSE /\ rpc = "work" /\ job = NoJob /\ tick = 0 /\ truth = Zeros
  BY DEF Init
<1>2. Zeros \in [Pages -> Content]
  BY Contents DEF Zeros
<1>3. Empty \in [data : [Pages -> Content], epoch : Nat, layout : Nat,
                 ranges : SUBSET Pages, tick : Int]
      /\ Empty.epoch = 0 /\ Empty.layout = 0
  BY <1>2 DEF Empty
<1>4. NoJob \in [todo : SUBSET Pages, room : BOOLEAN, blend : BOOLEAN, gen : Int,
                 incB : BOOLEAN, incP : BOOLEAN, blended : SUBSET Pages]
      /\ NoJob.gen = -1 /\ ~NoJob.blend /\ NoJob.blended = {}
  BY DEF NoJob, NoGen
<1>5. Typed
  <2>1. /\ stamps \in [pages : SUBSET Pages, at : [Pages -> Int], gen : Int]
        /\ layout \in [n : Nat, gen : Int, ranges : SUBSET Pages]
        /\ cache \in [ranges : SUBSET Pages, watch : SUBSET Pages, gen : Int]
    BY <1>1 DEF NoGen
  <2>2. there \subseteq Pages /\ op.page = NoPage
    BY <1>1 DEF Pages
  <2>3. /\ watch \subseteq there \cap Reserved
        /\ ranges \subseteq Pages /\ havePrev \in BOOLEAN /\ held \in BOOLEAN
    BY <1>1
  <2>5. op.page \in Reserved \cup {NoPage}
    BY <2>2
  <2>6. vgen \in Nat /\ epoch \in Nat /\ tick \in Int
    BY <1>1
  <2>4. BufferTyped(before) /\ BufferTyped(prev)
    BY <1>1, <1>3 DEF BufferTyped
  <2>7. mem \in [Pages -> Content] /\ truth \in [Pages -> Content]
    BY <1>1, <1>2
  <2> QED BY <1>1, <1>4, <2>1, <2>2, <2>3, <2>4, <2>5, <2>6, <2>7 DEF Typed
<1>6. Known
  BY <1>1, <1>4 DEF Known, NoGen
<1>7. Holding /\ Copying /\ Neighbours /\ Taken
  BY <1>1, <1>4 DEF Holding, Copying, Neighbours, Filled, Taken, SnapshotExact,
     BlendExact, Restored
<1>8. Aged /\ CleanIn(before) /\ CleanIn(prev)
  BY <1>1, <1>3 DEF Aged, Older, Newer, Filled, CleanIn
<1> QED BY <1>5, <1>6, <1>7, <1>8 DEF RInv

\* The invariant holds in every behaviour.
LEMMA ReplayAlways == Spec => []RInv
<1>1. Init => RInv
  BY InitReplay
<1>2. RInv /\ [Next]_replayVars => RInv'
  BY ReplayInductive
<1> QED BY <1>1, <1>2, PTL DEF Spec

\* snapshot skips a page only where the buffer holds it already: every page of
\* tick N is what it was when the snapshot passed it, through any reservations,
\* heap growth, skipped ticks and side threads between two fillings.
THEOREM SnapshotHolds == Spec => []SnapshotExact
<1>1. RInv => SnapshotExact
  BY DEF RInv, Taken
<1> QED BY <1>1, ReplayAlways, PTL

\* snapshot_and_blend blends exactly the pages that differ from tick N's, those
\* it does not even compare included, wherever the layout had them then.
THEOREM BlendHolds == Spec => []BlendExact
<1>1. RInv => BlendExact
  BY DEF RInv, Taken
<1> QED BY <1>1, ReplayAlways, PTL

\* restore_dirty gives the game its memory back: blends and the in-between
\* draw's writes are undone on every page of the snapshot.
THEOREM MemoryRestored == Spec => []Restored
<1>1. RInv => Restored
  BY DEF RInv, Taken
<1> QED BY <1>1, ReplayAlways, PTL

\* A blend is with the tick before: a tick whose ranges could not be built
\* leaves keep_prev's buffer unused.
THEOREM NeighboursBlend == Spec => []BlendsNeighbours
<1>1. RInv => BlendsNeighbours
  BY DEF RInv, Neighbours, BlendsNeighbours
<1> QED BY <1>1, ReplayAlways, PTL
=============================================================================
