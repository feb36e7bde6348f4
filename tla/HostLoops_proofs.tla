--------------------------- MODULE HostLoops_proofs --------------------------
(* The machines of the host whose steps run loops, for every value of      *)
(* their constants.  Offroad's voices: what the render thread reads is in  *)
(* memory, and a catch-up is as good as the mixing it stands for.  The     *)
(* ranges held out of the blend: the search finds what was written of      *)
(* late.                                                                   *)
(*                                                                         *)
(* The loops are recursive functions.  That a function which repeats a     *)
(* step until a test holds exists is shown here once, and what one         *)
(* computes by induction over a size, from the least counterexample.       *)
(* Finishing traversals commutes with going on (WithinPassAhead), so both  *)
(* a catch-up in chunks and a mix frame by frame come to Where.            *)
EXTENDS HostFiles_proofs, HostPlay_proofs, FiniteSetTheorems, SequenceTheorems

\* A step of the host is a step of the machine, or leaves it alone.
LEMMA OffroadSteps == ASSUME [HostNext]_hostVars PROVE [Or!Next]_offroad
BY DEF HostNext, hostVars, Saving, Excluding, Decoding, Placing, Sounding,
       Watching, Masking, Mixing, Serving, offroad

-----------------------------------------------------------------------------
(* Offroad's voices: one voice and its cursor. *)

\* A function that repeats a step until a test holds exists, whether the
\* repetition ends or not: the pairs of an argument and a result that follow
\* from the test.
Repeats(f, D, step, T, out) ==
    f = [d \in D |-> IF d \in T THEN out[d] ELSE f[step[d]]]
LEMMA RepeatExists ==
    ASSUME NEW D, NEW step \in [D -> D], NEW T, NEW out
    PROVE  \E f : Repeats(f, D, step, T, out)
<1> DEFINE O == {out[d] : d \in D}
           Closed(X) == /\ \A d \in D : d \in T => <<d, out[d]>> \in X
                        /\ \A d \in D, o \in O :
                              d \notin T /\ <<step[d], o>> \in X => <<d, o>> \in X
           R == {r \in D \X O : \A X \in SUBSET (D \X O) : Closed(X) => r \in X}
           Y == {r \in R : \/ r[1] \in T /\ r[2] = out[r[1]]
                           \/ r[1] \notin T /\ <<step[r[1]], r[2]>> \in R}
           Out(d) == {o \in O : <<d, o>> \in R}
           f == [d \in D |-> CHOOSE o : o \in Out(d)]
<1>1. Closed(R)
  <2>1. ASSUME NEW d \in D, d \in T PROVE <<d, out[d]>> \in R
    BY <2>1
  <2>2. ASSUME NEW d \in D, NEW o \in O, d \notin T, <<step[d], o>> \in R
        PROVE  <<d, o>> \in R
    <3>1. <<d, o>> \in D \X O
      OBVIOUS
    <3>2. ASSUME NEW X \in SUBSET (D \X O), Closed(X) PROVE <<d, o>> \in X
      <4>1. <<step[d], o>> \in X
        BY <2>2, <3>2
      <4> QED BY <2>2, <3>2, <4>1
    <3> QED BY <3>1, <3>2
  <2> QED BY <2>1, <2>2
<1>2. Y \subseteq R /\ R \subseteq D \X O
  OBVIOUS
<1> HIDE DEF R
<1>3. Closed(Y)
  <2>1. ASSUME NEW d \in D, d \in T PROVE <<d, out[d]>> \in Y
    <3>1. <<d, out[d]>> \in R
      BY <1>1, <2>1
    <3> QED BY <2>1, <3>1
  <2>2. ASSUME NEW d \in D, NEW o \in O, d \notin T, <<step[d], o>> \in Y
        PROVE  <<d, o>> \in Y
    <3>1. <<step[d], o>> \in R
      BY <2>2
    <3>2. <<d, o>> \in R
      BY <1>1, <2>2, <3>1
    <3> QED BY <2>2, <3>1, <3>2
  <2> QED BY <2>1, <2>2
<1>4. ASSUME NEW r \in R PROVE r \in Y
  <2>1. Y \in SUBSET (D \X O)
    BY <1>2
  <2> HIDE DEF Y, Closed
  <2>2. \A X \in SUBSET (D \X O) : Closed(X) => r \in X
    BY DEF R
  <2> QED BY <1>3, <2>1, <2>2
<1>5. ASSUME NEW d \in D, d \in T PROVE Out(d) = {out[d]}
  <2>1. <<d, out[d]>> \in R
    BY <1>1, <1>5
  <2>2. ASSUME NEW o \in Out(d) PROVE o = out[d]
    BY <1>4, <1>5
  <2> QED BY <2>1, <2>2, <1>2
<1>6. ASSUME NEW d \in D, d \notin T PROVE Out(d) = Out(step[d])
  <2>1. ASSUME NEW o \in O, <<d, o>> \in R PROVE <<step[d], o>> \in R
    BY <1>4, <1>6, <2>1
  <2>2. ASSUME NEW o \in O, <<step[d], o>> \in R PROVE <<d, o>> \in R
    BY <1>1, <1>6, <2>2
  <2> QED BY <2>1, <2>2
<1> HIDE DEF Out
<1>7. ASSUME NEW d \in D PROVE f[d] = IF d \in T THEN out[d] ELSE f[step[d]]
  <2>1. CASE d \in T
    BY <1>5, <2>1
  <2>2. CASE d \notin T
    <3>1. step[d] \in D /\ Out(d) = Out(step[d])
      BY <1>6, <2>2
    <3> QED BY <2>2, <3>1
  <2> QED BY <2>1, <2>2
<1>8. Repeats(f, D, step, T, out)
  BY <1>7 DEF Repeats
<1> QED BY <1>8

\* Induction on a size.
LEMMA SizeInduction ==
    ASSUME NEW G, NEW size \in [G -> Nat], NEW P,
           \A d \in G : (\A e \in G : size[e] < size[d] => e \in P) => d \in P
    PROVE  \A d \in G : d \in P
<1> SUFFICES ASSUME NEW d0 \in G, d0 \notin P PROVE FALSE
  OBVIOUS
<1> DEFINE S == {size[d] : d \in {e \in G : e \notin P}}
<1>1. S \subseteq Nat /\ S # {}
  OBVIOUS
<1>2. PICK n \in S : \A m \in S : ~(<<m, n>> \in OpToRel(<, Nat))
  BY <1>1, NatLessThanWellFounded, WFMin
<1>3. \A m \in S : ~(m < n)
  BY <1>1, <1>2 DEF OpToRel
<1>4. PICK d \in G : d \notin P /\ n = size[d]
  OBVIOUS
<1>5. ASSUME NEW e \in G, size[e] < size[d] PROVE e \in P
  BY <1>3, <1>4, <1>5
<1> QED BY <1>4, <1>5

LEMMA TimesNat == ASSUME NEW a \in Nat, NEW b \in Nat PROVE a * b \in Nat
OBVIOUS

\* Fewer whole frames are fewer parts, and the parts of less than n frames are
\* in the first n of them.
LEMMA TimesLess ==
    ASSUME NEW a \in Nat, NEW b \in Nat, NEW s \in Nat \ {0}, a < b
    PROVE  a * s < b * s /\ a * s \in Nat /\ b * s \in Nat
OBVIOUS
LEMMA FrameOf ==
    ASSUME NEW c \in Nat, NEW n \in Nat, NEW s \in Nat \ {0}
    PROVE  /\ c \div s \in Nat
           /\ c < n * s => c \div s < n
           /\ c <= n * s => c \div s <= n
<1> DEFINE q == c \div s
<1>1. q \in Nat /\ q * s <= c
  OBVIOUS
<1>2. ASSUME c < n * s, ~(q < n) PROVE FALSE
  <2>1. n * s <= q * s
    BY <1>1, <1>2
  <2> QED BY <1>1, <1>2, <2>1, TimesNat
<1>3. ASSUME c <= n * s, ~(q <= n) PROVE FALSE
  <2>1. n * s < q * s
    BY <1>1, <1>3, TimesLess
  <2> QED BY <1>1, <1>3, <2>1, TimesNat
<1> QED BY <1>1, <1>2, <1>3


\* The count of traversals after this one, and whether it is the last.
Passes(v) == IF v.done < MaxDone THEN v.done + 1 ELSE MaxDone
LastPass(v) == v.loops > 0 /\ Passes(v) >= v.loops

\* What no step of the cursor changes.
SameSound(u, w) ==
    /\ u.allocated = w.allocated /\ u.sample = w.sample /\ u.frames = w.frames
    /\ u.loops = w.loops /\ u.point = w.point /\ u.rate = w.rate

LEMMA SoundsAlike ==
    ASSUME NEW u, NEW v, NEW w
    PROVE  /\ SameSound(u, v) => SameSound(v, u)
           /\ SameSound(u, v) /\ SameSound(v, w) => SameSound(u, w)
BY DEF SameSound

\* A voice is its fields.
LEMMA VoiceFields ==
    ASSUME NEW u \in Or!Voice, NEW w \in Or!Voice, SameSound(u, w),
           u.done = w.done, u.cursor = w.cursor, u.position = w.position,
           u.playing = w.playing
    PROVE  u = w
BY DEF SameSound, Or!Voice

LEMMA EndNat ==
    ASSUME Or!OffroadAssumption, NEW v \in Or!Voice
    PROVE  /\ Or!End(v) \in Nat /\ Or!LoopPoint(v) \in Nat
           /\ Or!LoopPoint(v) * Sub \in Nat
           /\ v.frames # 0 => Or!LoopPoint(v) * Sub < Or!End(v)
<1>1. v.frames \in Nat /\ v.point \in Nat /\ Sub \in Nat \ {0}
  BY DEF Or!Voice, Or!OffroadAssumption
<1>2. Or!LoopPoint(v) \in Nat /\ (v.frames # 0 => Or!LoopPoint(v) < v.frames)
  BY <1>1 DEF Or!LoopPoint
<1> QED BY <1>1, <1>2, TimesNat, TimesLess DEF Or!End

LEMMA PassFields ==
    ASSUME Or!OffroadAssumption, NEW v \in Or!Voice, NEW w, w = Or!FinishPass(v)
    PROVE  /\ w \in Or!Voice /\ SameSound(w, v) /\ w.done = Passes(v)
           /\ LastPass(v) => /\ w.cursor = Or!End(v) /\ w.position = v.frames
                             /\ w.playing = FALSE
           /\ ~LastPass(v) =>
                 /\ w.position = v.position /\ w.playing = v.playing
                 /\ w.cursor = Or!LoopPoint(v) * Sub
                        + IF v.cursor >= Or!End(v) THEN v.cursor - Or!End(v) ELSE 0
<1> DEFINE o == IF v.cursor >= Or!End(v) THEN v.cursor - Or!End(v) ELSE 0
           n == Passes(v)
           e == Or!End(v)
           c == Or!LoopPoint(v) * Sub + o
<1>1. /\ v.cursor \in Nat /\ v.done \in 0 .. MaxDone /\ MaxDone \in Nat
      /\ v.frames \in Nat /\ e \in Nat /\ Or!LoopPoint(v) * Sub \in Nat
  <2>1. e \in Nat /\ Or!LoopPoint(v) * Sub \in Nat
    BY EndNat
  <2>2. v.cursor \in Nat /\ v.done \in 0 .. MaxDone /\ v.frames \in Nat
    BY DEF Or!Voice
  <2> QED BY <2>1, <2>2 DEF Or!OffroadAssumption
<1>2. o \in Nat /\ n \in 0 .. MaxDone
  BY <1>1 DEF Passes
<1>3. c \in Nat
  BY <1>1, <1>2
<1>4. w = IF LastPass(v)
          THEN [v EXCEPT !.done = n, !.cursor = e, !.position = v.frames,
                         !.playing = FALSE]
          ELSE [v EXCEPT !.done = n, !.cursor = c]
  BY DEF Or!FinishPass, LastPass, Passes
<1> HIDE DEF n, e, c, o
<1>5. CASE LastPass(v)
  <2>1. w = [v EXCEPT !.done = n, !.cursor = e, !.position = v.frames,
                      !.playing = FALSE]
    BY <1>4, <1>5
  <2>2. w \in Or!Voice /\ SameSound(w, v) /\ w.done = n /\ w.cursor = e
        /\ w.position = v.frames /\ w.playing = FALSE
    BY <1>1, <1>2, <2>1 DEF Or!Voice, SameSound
  <2> QED BY <1>5, <2>2 DEF n, e
<1>6. CASE ~LastPass(v)
  <2>1. w = [v EXCEPT !.done = n, !.cursor = c]
    BY <1>4, <1>6
  <2>2. w \in Or!Voice /\ SameSound(w, v) /\ w.done = n /\ w.cursor = c
        /\ w.position = v.position /\ w.playing = v.playing
    BY <1>2, <1>3, <2>1 DEF Or!Voice, SameSound
  <2> QED BY <1>6, <2>2 DEF n, c, o
<1> QED BY <1>5, <1>6

\* A voice so many parts further, within a traversal or past its end.
Ahead(v, d) == [v EXCEPT !.cursor = @ + d]

LEMMA AheadFields ==
    ASSUME NEW v \in Or!Voice, NEW d \in Nat
    PROVE  /\ Ahead(v, d) \in Or!Voice /\ SameSound(Ahead(v, d), v)
           /\ Ahead(v, d).cursor = v.cursor + d /\ Ahead(v, d).done = v.done
           /\ Ahead(v, d).position = v.position
           /\ Ahead(v, d).playing = v.playing
BY DEF Ahead, Or!Voice, SameSound

\* The loop that finishes traversals, one turn of it.
Ending(v) == v.playing /\ v.cursor >= Or!End(v)

LEMMA WithinPassTurn ==
    ASSUME Or!OffroadAssumption, NEW v \in Or!Voice
    PROVE  Or!WithinPass[v] = IF Ending(v) THEN Or!WithinPass[Or!FinishPass(v)] ELSE v
<1> DEFINE step == [u \in Or!Voice |-> Or!FinishPass(u)]
           T == {u \in Or!Voice : ~Ending(u)}
           out == [u \in Or!Voice |-> u]
<1>1. step \in [Or!Voice -> Or!Voice]
  BY PassFields
<1> HIDE DEF step, T, out
<1>2. \E g : Repeats(g, Or!Voice, step, T, out)
  BY <1>1, RepeatExists
<1>3. PICK f : Repeats(f, Or!Voice, step, T, out)
  BY <1>2
<1>4. f = [u \in Or!Voice |-> IF u.playing /\ u.cursor >= Or!End(u)
                              THEN f[Or!FinishPass(u)] ELSE u]
  <2>1. ASSUME NEW u \in Or!Voice
        PROVE  (IF u \in T THEN out[u] ELSE f[step[u]]) =
                  IF u.playing /\ u.cursor >= Or!End(u)
                  THEN f[Or!FinishPass(u)] ELSE u
    BY DEF step, T, out, Ending
  <2> QED BY <1>3, <2>1 DEF Repeats
<1>5. Or!WithinPass = [u \in Or!Voice |-> IF u.playing /\ u.cursor >= Or!End(u)
                              THEN Or!WithinPass[Or!FinishPass(u)] ELSE u]
  BY <1>4 DEF Or!WithinPass
<1> QED BY <1>5 DEF Ending

\* The turn is over unless it was not the last, and then the cursor is lower.
LEMMA PassLowers ==
    ASSUME Or!OffroadAssumption, NEW v \in Or!Voice, v.frames # 0, Ending(v)
    PROVE  LET w == Or!FinishPass(v)
           IN  /\ w \in Or!Voice /\ w.frames # 0 /\ SameSound(w, v)
               /\ LastPass(v) => ~w.playing /\ Or!WithinPass[w] = w
               /\ ~LastPass(v) => w.playing /\ w.cursor < v.cursor
<1> DEFINE w == Or!FinishPass(v)
<1>1. w \in Or!Voice /\ SameSound(w, v) /\ w.frames # 0
  BY PassFields DEF SameSound
<1>2. CASE LastPass(v)
  <2>1. ~w.playing
    BY <1>2, PassFields
  <2>2. Or!WithinPass[w] = w
    BY <1>1, <2>1, WithinPassTurn DEF Ending
  <2> QED BY <1>1, <1>2, <2>1, <2>2
<1>3. CASE ~LastPass(v)
  <2>1. /\ v.cursor >= Or!End(v) /\ v.playing /\ v.cursor \in Nat
        /\ Or!End(v) \in Nat /\ Or!LoopPoint(v) * Sub \in Nat
        /\ Or!LoopPoint(v) * Sub < Or!End(v)
    BY EndNat DEF Ending, Or!Voice
  <2>2. /\ w.playing
        /\ w.cursor = Or!LoopPoint(v) * Sub + (v.cursor - Or!End(v))
    BY <1>3, <2>1, PassFields
  <2>3. w.cursor < v.cursor
    BY <2>1, <2>2
  <2> QED BY <1>1, <1>3, <2>2, <2>3
<1> QED BY <1>2, <1>3

\* What a statement about every voice with a sample needs: that it holds where
\* nothing is to finish, after a last traversal, and before another one where
\* it holds after it.
LEMMA PassInduction ==
    ASSUME Or!OffroadAssumption, NEW P,
           \A v \in Or!Voice : v.frames # 0 /\ ~Ending(v) => v \in P,
           \A v \in Or!Voice : v.frames # 0 /\ Ending(v) /\ LastPass(v) => v \in P,
           \A v \in Or!Voice :
               v.frames # 0 /\ Ending(v) /\ ~LastPass(v)
               /\ Or!FinishPass(v) \in P => v \in P
    PROVE  \A v \in Or!Voice : v.frames # 0 => v \in P
<1> DEFINE G == {v \in Or!Voice : v.frames # 0}
           size == [v \in G |-> v.cursor]
<1>1. size \in [G -> Nat]
  BY DEF Or!Voice
<1>2. ASSUME NEW d \in G, \A e \in G : size[e] < size[d] => e \in P PROVE d \in P
  <2>1. CASE ~Ending(d)
    BY <2>1
  <2>2. CASE Ending(d) /\ LastPass(d)
    BY <2>2
  <2>3. CASE Ending(d) /\ ~LastPass(d)
    <3>1. Or!FinishPass(d) \in G /\ size[Or!FinishPass(d)] < size[d]
      BY <2>3, PassLowers
    <3> QED BY <1>2, <2>3, <3>1
  <2> QED BY <2>1, <2>2, <2>3
<1> HIDE DEF size
<1>3. \A d \in G : (\A e \in G : size[e] < size[d] => e \in P) => d \in P
  BY <1>2
<1>4. \A d \in G : d \in P
  BY <1>1, <1>3, SizeInduction
<1> QED BY <1>4

\* What is left when all the traversals that are over are finished.
LEMMA WithinPassFacts ==
    ASSUME Or!OffroadAssumption
    PROVE  \A v \in Or!Voice : v.frames # 0 =>
               LET w == Or!WithinPass[v]
               IN  /\ w \in Or!Voice /\ SameSound(w, v) /\ ~Ending(w)
                   /\ w.playing => v.playing
                   /\ v.playing /\ ~w.playing => w.position = w.frames
                   /\ v.position <= v.frames => w.position <= w.frames
<1> DEFINE Fact(v, w) == /\ w \in Or!Voice /\ SameSound(w, v) /\ ~Ending(w)
                         /\ w.playing => v.playing
                         /\ v.playing /\ ~w.playing => w.position = w.frames
                         /\ v.position <= v.frames => w.position <= w.frames
           P == {v \in Or!Voice : Fact(v, Or!WithinPass[v])}
<1>1. ASSUME NEW v \in Or!Voice, v.frames # 0, ~Ending(v) PROVE v \in P
  <2>1. Or!WithinPass[v] = v
    BY <1>1, WithinPassTurn
  <2> QED BY <1>1, <2>1 DEF SameSound
<1>2. ASSUME NEW v \in Or!Voice, v.frames # 0, Ending(v) PROVE
             /\ LastPass(v) => v \in P
             /\ ~LastPass(v) /\ Or!FinishPass(v) \in P => v \in P
  <2> DEFINE u == Or!FinishPass(v)
             w == Or!WithinPass[u]
  <2>1. Or!WithinPass[v] = w /\ v.playing
    BY <1>2, WithinPassTurn DEF Ending
  <2>2. u \in Or!Voice /\ SameSound(u, v) /\ v.frames \in Nat
    BY PassFields DEF Or!Voice
  <2>3. ASSUME LastPass(v) PROVE Fact(v, w)
    <3>1. ~u.playing /\ w = u
      BY <1>2, <2>3, PassLowers
    <3>2. u.position = v.frames
      BY <2>3, PassFields
    <3> QED BY <2>1, <2>2, <3>1, <3>2 DEF SameSound, Ending
  <2>4. ASSUME ~LastPass(v), Fact(u, w) PROVE Fact(v, w)
    <3>1. u.playing /\ u.position = v.position
      BY <2>1, <2>4, PassFields
    <3> QED BY <2>1, <2>2, <2>4, <3>1 DEF SameSound
  <2> QED BY <2>1, <2>3, <2>4
<1> HIDE DEF P
<1>3. \A v \in Or!Voice : v.frames # 0 => v \in P
  BY <1>1, <1>2, PassInduction
<1> QED BY <1>3 DEF P

\* A traversal ends in the same way however far the cursor has gone past it.
LEMMA AheadPass ==
    ASSUME Or!OffroadAssumption, NEW v \in Or!Voice, Ending(v), NEW b \in Nat
    PROVE  /\ Ending(Ahead(v, b)) /\ (LastPass(Ahead(v, b)) <=> LastPass(v))
           /\ LastPass(v) => Or!FinishPass(Ahead(v, b)) = Or!FinishPass(v)
           /\ ~LastPass(v) => Or!FinishPass(Ahead(v, b)) = Ahead(Or!FinishPass(v), b)
<1> DEFINE a == Ahead(v, b)
           w == Or!FinishPass(v)
           x == Or!FinishPass(a)
<1>1. /\ a \in Or!Voice /\ SameSound(a, v) /\ a.cursor = v.cursor + b
      /\ a.done = v.done /\ a.position = v.position /\ a.playing = v.playing
  BY AheadFields
<1>2. /\ Or!End(a) = Or!End(v) /\ Or!LoopPoint(a) = Or!LoopPoint(v)
      /\ Passes(a) = Passes(v) /\ (LastPass(a) <=> LastPass(v))
  BY <1>1 DEF SameSound, Or!End, Or!LoopPoint, Passes, LastPass
<1>3. /\ v.cursor \in Nat /\ Or!End(v) \in Nat /\ v.cursor >= Or!End(v)
      /\ Or!LoopPoint(v) * Sub \in Nat /\ v.playing
  BY EndNat DEF Or!Voice, Ending
<1>4. a.cursor >= Or!End(a) /\ a.cursor - Or!End(a) = (v.cursor - Or!End(v)) + b
  BY <1>1, <1>2, <1>3
<1>5. Ending(a)
  BY <1>1, <1>3, <1>4 DEF Ending
<1>6. /\ w \in Or!Voice /\ SameSound(w, v) /\ w.done = Passes(v)
      /\ x \in Or!Voice /\ SameSound(x, a) /\ x.done = Passes(a)
  BY <1>1, PassFields
<1>7. ASSUME LastPass(v) PROVE x = w
  <2>1. /\ w.cursor = Or!End(v) /\ w.position = v.frames /\ w.playing = FALSE
        /\ x.cursor = Or!End(a) /\ x.position = a.frames /\ x.playing = FALSE
    BY <1>1, <1>2, <1>7, PassFields
  <2>2. a.frames = v.frames /\ SameSound(x, w)
    BY <1>1, <1>6, SoundsAlike DEF SameSound
  <2> HIDE DEF a, x, w
  <2> QED BY <1>2, <1>6, <2>1, <2>2, VoiceFields
<1>8. ASSUME ~LastPass(v) PROVE x = Ahead(w, b)
  <2>1. /\ w.position = v.position /\ w.playing = v.playing
        /\ w.cursor = Or!LoopPoint(v) * Sub + (v.cursor - Or!End(v))
    BY <1>3, <1>8, PassFields
  <2>2. /\ x.position = a.position /\ x.playing = a.playing
        /\ x.cursor = Or!LoopPoint(a) * Sub + (a.cursor - Or!End(a))
    BY <1>1, <1>2, <1>4, <1>8, PassFields
  <2>3. x.cursor = w.cursor + b
    BY <1>2, <1>3, <1>4, <2>1, <2>2
  <2>4. /\ Ahead(w, b) \in Or!Voice /\ SameSound(Ahead(w, b), w)
        /\ Ahead(w, b).cursor = w.cursor + b /\ Ahead(w, b).done = w.done
        /\ Ahead(w, b).position = w.position /\ Ahead(w, b).playing = w.playing
    BY <1>6, AheadFields
  <2> HIDE DEF a, x, w
  <2>5. SameSound(x, Ahead(w, b))
    BY <1>1, <1>6, <2>4, SoundsAlike
  <2> QED BY <1>1, <1>2, <1>6, <2>1, <2>2, <2>3, <2>4, <2>5, VoiceFields
<1> QED BY <1>2, <1>5, <1>7, <1>8

\* Going on from where the finished traversals leave a voice leads to where
\* going on before finishing them leads to.
LEMMA WithinPassAhead ==
    ASSUME Or!OffroadAssumption, NEW b \in Nat
    PROVE  \A v \in Or!Voice : v.frames # 0 /\ v.playing =>
               Or!WithinPass[Ahead(v, b)] =
                   IF Or!WithinPass[v].playing
                   THEN Or!WithinPass[Ahead(Or!WithinPass[v], b)]
                   ELSE Or!WithinPass[v]
<1> DEFINE Goes(v) == Or!WithinPass[Ahead(v, b)] =
                          IF Or!WithinPass[v].playing
                          THEN Or!WithinPass[Ahead(Or!WithinPass[v], b)]
                          ELSE Or!WithinPass[v]
           P == {v \in Or!Voice : v.playing => Goes(v)}
<1>1. ASSUME NEW v \in Or!Voice, v.frames # 0, ~Ending(v) PROVE v \in P
  <2>1. Or!WithinPass[v] = v
    BY <1>1, WithinPassTurn
  <2> QED BY <2>1
<1>2. ASSUME NEW v \in Or!Voice, v.frames # 0, Ending(v)
      PROVE  /\ LastPass(v) => v \in P
             /\ ~LastPass(v) /\ Or!FinishPass(v) \in P => v \in P
  <2> DEFINE u == Or!FinishPass(v)
             a == Ahead(v, b)
  <2>1. a \in Or!Voice /\ Ending(a) /\ (LastPass(a) <=> LastPass(v))
    BY <1>2, AheadFields, AheadPass
  <2>2. /\ Or!WithinPass[v] = Or!WithinPass[u]
        /\ Or!WithinPass[a] = Or!WithinPass[Or!FinishPass(a)]
    BY <1>2, <2>1, WithinPassTurn
  <2>3. ASSUME LastPass(v) PROVE Goes(v)
    <3>1. Or!FinishPass(a) = u /\ ~u.playing /\ Or!WithinPass[u] = u
      BY <1>2, <2>3, AheadPass, PassLowers
    <3> HIDE DEF u
    <3> QED BY <2>2, <3>1
  <2>4. ASSUME ~LastPass(v), Goes(u) PROVE Goes(v)
    <3>1. Or!FinishPass(a) = Ahead(u, b)
      BY <1>2, <2>4, AheadPass
    <3> HIDE DEF u
    <3> QED BY <2>2, <2>4, <3>1
  <2>5. ~LastPass(v) => u.playing
    BY <1>2, PassLowers
  <2> QED BY <2>3, <2>4, <2>5
<1> HIDE DEF P
<1>3. \A v \in Or!Voice : v.frames # 0 => v \in P
  BY <1>1, <1>2, PassInduction
<1> QED BY <1>3 DEF P

\* The position a voice has published is where its cursor is, or its end.
PutAt(v, p) == [v EXCEPT !.position = p]

LEMMA PutAtFields ==
    ASSUME NEW v \in Or!Voice, NEW p \in Nat
    PROVE  /\ PutAt(v, p) \in Or!Voice /\ SameSound(PutAt(v, p), v)
           /\ PutAt(v, p).cursor = v.cursor /\ PutAt(v, p).done = v.done
           /\ PutAt(v, p).position = p /\ PutAt(v, p).playing = v.playing
BY DEF PutAt, Or!Voice, SameSound

LEMMA PositionedFields ==
    ASSUME Or!OffroadAssumption, NEW v \in Or!Voice
    PROVE  /\ Or!Positioned(v) \in Or!Voice /\ SameSound(Or!Positioned(v), v)
           /\ Or!Positioned(v).cursor = v.cursor /\ Or!Positioned(v).done = v.done
           /\ Or!Positioned(v).playing = v.playing
           /\ Or!Positioned(v).position =
                  IF v.playing THEN v.cursor \div Sub ELSE v.position
<1>1. v.cursor \in Nat /\ Sub \in Nat \ {0}
  BY DEF Or!Voice, Or!OffroadAssumption
<1>2. v.cursor \div Sub \in Nat
  BY <1>1, FrameOf
<1>3. Or!Positioned(v) = IF v.playing THEN PutAt(v, v.cursor \div Sub) ELSE v
  BY DEF Or!Positioned, PutAt
<1>4. CASE v.playing
  <2> DEFINE q == v.cursor \div Sub
  <2>1. q \in Nat /\ Or!Positioned(v) = PutAt(v, q)
    BY <1>2, <1>3, <1>4
  <2> HIDE DEF q
  <2>2. /\ Or!Positioned(v) \in Or!Voice /\ SameSound(Or!Positioned(v), v)
        /\ Or!Positioned(v).cursor = v.cursor /\ Or!Positioned(v).done = v.done
        /\ Or!Positioned(v).playing = v.playing /\ Or!Positioned(v).position = q
    BY <2>1, PutAtFields
  <2> QED BY <1>4, <2>2 DEF q
<1>5. CASE ~v.playing
  BY <1>3, <1>5 DEF SameSound
<1> QED BY <1>4, <1>5

LEMMA PositionForgotten ==
    ASSUME Or!OffroadAssumption, NEW p \in Nat
    PROVE  \A v \in Or!Voice : v.frames # 0 /\ v.playing =>
               Or!Positioned(Or!WithinPass[PutAt(v, p)]) =
                   Or!Positioned(Or!WithinPass[v])
<1> DEFINE Same(v) == Or!Positioned(Or!WithinPass[PutAt(v, p)]) =
                          Or!Positioned(Or!WithinPass[v])
           P == {v \in Or!Voice : v.playing => Same(v)}
<1>a. ASSUME NEW v \in Or!Voice
      PROVE  LET q == PutAt(v, p)
             IN  /\ q \in Or!Voice /\ SameSound(q, v) /\ q.cursor = v.cursor
                 /\ q.done = v.done /\ q.position = p /\ q.playing = v.playing
                 /\ Or!End(q) = Or!End(v) /\ Or!LoopPoint(q) = Or!LoopPoint(v)
                 /\ Passes(q) = Passes(v) /\ (LastPass(q) <=> LastPass(v))
                 /\ (Ending(q) <=> Ending(v))
  <2> DEFINE q == PutAt(v, p)
  <2>1. /\ q \in Or!Voice /\ SameSound(q, v) /\ q.cursor = v.cursor
        /\ q.done = v.done /\ q.position = p /\ q.playing = v.playing
    BY PutAtFields
  <2> HIDE DEF q
  <2>2. /\ Or!End(q) = Or!End(v) /\ Or!LoopPoint(q) = Or!LoopPoint(v)
        /\ Passes(q) = Passes(v) /\ (LastPass(q) <=> LastPass(v))
    BY <2>1 DEF SameSound, Or!End, Or!LoopPoint, Passes, LastPass
  <2>3. Ending(q) <=> Ending(v)
    BY <2>1, <2>2 DEF Ending
  <2> QED BY <2>1, <2>2, <2>3 DEF q
<1>1. ASSUME NEW v \in Or!Voice, v.frames # 0, ~Ending(v) PROVE v \in P
  <2> SUFFICES ASSUME v.playing PROVE Same(v)
    OBVIOUS
  <2> DEFINE q == PutAt(v, p)
  <2>1. q \in Or!Voice /\ ~Ending(q) /\ SameSound(q, v) /\ q.cursor = v.cursor
        /\ q.done = v.done /\ q.playing = v.playing
    BY <1>1, <1>a
  <2>2. Or!WithinPass[v] = v /\ Or!WithinPass[q] = q
    BY <1>1, <2>1, WithinPassTurn
  <2> HIDE DEF q
  <2>3. Or!Positioned(q) = Or!Positioned(v)
    <3> DEFINE m == Or!Positioned(q)
               n == Or!Positioned(v)
    <3>1. /\ m \in Or!Voice /\ SameSound(m, q) /\ m.cursor = q.cursor
          /\ m.done = q.done /\ m.playing = q.playing
          /\ m.position = IF q.playing THEN q.cursor \div Sub ELSE q.position
      BY <2>1, PositionedFields
    <3>2. /\ n \in Or!Voice /\ SameSound(n, v) /\ n.cursor = v.cursor
          /\ n.done = v.done /\ n.playing = v.playing
          /\ n.position = IF v.playing THEN v.cursor \div Sub ELSE v.position
      BY PositionedFields
    <3>3. m.position = n.position
      BY <2>1, <3>1, <3>2
    <3> HIDE DEF m, n
    <3>4. m = n
      <4>1. SameSound(m, n)
        BY <2>1, <3>1, <3>2, SoundsAlike
      <4> QED BY <2>1, <3>1, <3>2, <3>3, <4>1, VoiceFields
    <3> QED BY <3>4 DEF m, n
  <2> QED BY <2>2, <2>3 DEF q
<1>2. ASSUME NEW v \in Or!Voice, v.frames # 0, Ending(v)
      PROVE  /\ LastPass(v) => v \in P
             /\ ~LastPass(v) /\ Or!FinishPass(v) \in P => v \in P
  <2> DEFINE q == PutAt(v, p)
             u == Or!FinishPass(v)
             w == Or!FinishPass(q)
  <2>1. /\ q \in Or!Voice /\ SameSound(q, v) /\ q.cursor = v.cursor
        /\ q.done = v.done /\ q.position = p /\ q.playing = v.playing
        /\ Or!End(q) = Or!End(v) /\ Or!LoopPoint(q) = Or!LoopPoint(v)
        /\ Passes(q) = Passes(v) /\ (LastPass(q) <=> LastPass(v)) /\ Ending(q)
    BY <1>2, <1>a
  <2>2. /\ Or!WithinPass[v] = Or!WithinPass[u]
        /\ Or!WithinPass[q] = Or!WithinPass[w]
    BY <1>2, <2>1, WithinPassTurn
  <2>3. /\ u \in Or!Voice /\ SameSound(u, v) /\ u.done = Passes(v)
        /\ w \in Or!Voice /\ SameSound(w, q) /\ w.done = Passes(q)
    BY <2>1, PassFields
  <2>4. ASSUME LastPass(v) PROVE u = w
    <3>1. /\ u.cursor = Or!End(v) /\ u.position = v.frames /\ u.playing = FALSE
          /\ w.cursor = Or!End(q) /\ w.position = q.frames /\ w.playing = FALSE
      BY <2>1, <2>4, PassFields
    <3>2. q.frames = v.frames
      BY <2>1 DEF SameSound
    <3> HIDE DEF q, u, w
    <3>3. SameSound(u, w)
      BY <2>1, <2>3, SoundsAlike
    <3> QED BY <2>1, <2>3, <3>1, <3>2, <3>3, VoiceFields
  <2>5. ASSUME ~LastPass(v) PROVE w = PutAt(u, p) /\ u.playing
    <3>1. /\ u.playing = v.playing
          /\ u.cursor = Or!LoopPoint(v) * Sub
                + IF v.cursor >= Or!End(v) THEN v.cursor - Or!End(v) ELSE 0
          /\ w.position = p /\ w.playing = q.playing
          /\ w.cursor = Or!LoopPoint(q) * Sub
                + IF q.cursor >= Or!End(q) THEN q.cursor - Or!End(q) ELSE 0
      BY <2>1, <2>5, PassFields
    <3>2. u.cursor = w.cursor
      BY <2>1, <3>1
    <3>3. /\ PutAt(u, p) \in Or!Voice /\ SameSound(PutAt(u, p), u)
          /\ PutAt(u, p).cursor = u.cursor /\ PutAt(u, p).done = u.done
          /\ PutAt(u, p).position = p /\ PutAt(u, p).playing = u.playing
      BY <2>3, PutAtFields
    <3> HIDE DEF u, w
    <3>4. w = PutAt(u, p)
      <4> HIDE DEF q
      <4>1. SameSound(w, PutAt(u, p))
        BY <2>1, <2>3, <3>3, SoundsAlike
      <4> QED BY <2>1, <2>3, <3>1, <3>2, <3>3, <4>1, VoiceFields
    <3> QED BY <1>2, <3>1, <3>4 DEF Ending
  <2> HIDE DEF u, w
  <2>6. LastPass(v) => Same(v)
    BY <2>2, <2>4
  <2>7. ~LastPass(v) /\ Same(u) => Same(v)
    BY <2>2, <2>5
  <2> QED BY <2>5, <2>6, <2>7 DEF u
<1> HIDE DEF P
<1>3. \A v \in Or!Voice : v.frames # 0 => v \in P
  BY <1>1, <1>2, PassInduction
<1> QED BY <1>3 DEF P

\* What normalising a voice leaves: a voice that still plays can, and its
\* cursor is inside the sound.
LEMMA NormalFacts ==
    ASSUME Or!OffroadAssumption, NEW v \in Or!Voice
    PROVE  LET w == Or!NormalizeCursor(v)
           IN  /\ w \in Or!Voice /\ SameSound(w, v)
               /\ w.playing => /\ v.playing /\ Or!Playable(v)
                               /\ w.cursor < Or!End(w)
               /\ v.position <= v.frames => w.position <= w.frames
               /\ ~v.playing => w = v
               /\ v.playing /\ ~Or!Playable(v) => ~w.playing
<1> DEFINE w == Or!NormalizeCursor(v)
           u == Or!WithinPass[v]
<1>1. CASE ~v.playing
  <2>1. u = v
    BY <1>1, WithinPassTurn DEF Ending
  <2>2. w = v
    BY <1>1, <2>1 DEF Or!NormalizeCursor, Or!Positioned
  <2> QED BY <1>1, <2>2 DEF SameSound
<1>2. CASE v.playing /\ ~Or!Playable(v)
  <2>1. w = [v EXCEPT !.playing = FALSE]
    BY <1>2 DEF Or!NormalizeCursor
  <2> HIDE DEF w
  <2>2. w \in Or!Voice /\ SameSound(w, v) /\ ~w.playing /\ w.position = v.position
    BY <2>1 DEF Or!Voice, SameSound
  <2> QED BY <1>2, <2>2 DEF SameSound, w
<1>3. CASE v.playing /\ Or!Playable(v)
  <2>1. w = Or!Positioned(u) /\ v.frames # 0
    BY <1>3 DEF Or!NormalizeCursor, Or!Playable
  <2>2. /\ u \in Or!Voice /\ SameSound(u, v) /\ ~Ending(u)
        /\ ~u.playing => u.position = u.frames
    BY <1>3, <2>1, WithinPassFacts
  <2>3. /\ w \in Or!Voice /\ SameSound(w, u) /\ w.cursor = u.cursor
        /\ w.playing = u.playing
        /\ w.position = IF u.playing THEN u.cursor \div Sub ELSE u.position
    BY <2>1, <2>2, PositionedFields
  <2>4. /\ u.cursor \in Nat /\ Or!End(u) \in Nat /\ u.frames \in Nat
        /\ Sub \in Nat \ {0} /\ Or!End(u) = u.frames * Sub
    BY <2>2, EndNat DEF Or!Voice, Or!OffroadAssumption, Or!End
  <2>5. w.playing => u.cursor < Or!End(u)
    BY <2>2, <2>3, <2>4 DEF Ending
  <2>6. w.playing => w.position <= u.frames
    <3>1. u.cursor < u.frames * Sub => u.cursor \div Sub < u.frames
                                       /\ u.cursor \div Sub \in Nat
      BY <2>4, FrameOf
    <3> QED BY <2>3, <2>4, <2>5, <3>1
  <2>7. w.position <= w.frames
    BY <2>2, <2>3, <2>4, <2>6 DEF SameSound
  <2>8. Or!End(w) = Or!End(u) /\ SameSound(w, v)
    BY <2>2, <2>3 DEF Or!End, SameSound
  <2> HIDE DEF w, u
  <2>9. w \in Or!Voice /\ SameSound(w, v) /\ (w.playing => w.cursor < Or!End(w))
    BY <2>3, <2>5, <2>8
  <2> QED BY <1>3, <2>7, <2>9 DEF w
<1> QED BY <1>1, <1>2, <1>3

LEMMA PlayableSame ==
    ASSUME NEW u, NEW w, SameSound(u, w)
    PROVE  /\ Or!Playable(u) <=> Or!Playable(w)
           /\ Or!End(u) = Or!End(w)
BY DEF SameSound, Or!Playable, Or!End

\* Normalising on the way makes no difference to where a voice comes to.
LEMMA NormalAhead ==
    ASSUME Or!OffroadAssumption, NEW v \in Or!Voice, v.playing, Or!Playable(v),
           NEW b \in Nat
    PROVE  Or!NormalizeCursor(Ahead(v, b)) =
               IF Or!NormalizeCursor(v).playing
               THEN Or!NormalizeCursor(Ahead(Or!NormalizeCursor(v), b))
               ELSE Or!NormalizeCursor(v)
<1> DEFINE w == Or!WithinPass[v]
           n == Or!NormalizeCursor(v)
           a == Ahead(v, b)
           q == w.cursor \div Sub
<1>1. n = Or!Positioned(w) /\ v.frames # 0
  BY DEF Or!NormalizeCursor, Or!Playable
<1>2. /\ a \in Or!Voice /\ SameSound(a, v) /\ a.playing
  BY AheadFields
<1>3. Or!NormalizeCursor(a) = Or!Positioned(Or!WithinPass[a])
  BY <1>2, PlayableSame DEF Or!NormalizeCursor
<1>4. w \in Or!Voice /\ SameSound(w, v)
  BY <1>1, WithinPassFacts
<1>5. n.playing = w.playing /\ n \in Or!Voice
  BY <1>1, <1>4, PositionedFields
<1>6. Or!WithinPass[a] = IF w.playing THEN Or!WithinPass[Ahead(w, b)] ELSE w
  BY <1>1, WithinPassAhead
<1>7. CASE ~w.playing
  BY <1>1, <1>3, <1>5, <1>6, <1>7
<1>8. CASE w.playing
  <2> DEFINE x == Ahead(w, b)
             y == Ahead(n, b)
  <2>1. q \in Nat
    BY <1>4, FrameOf DEF Or!Voice, Or!OffroadAssumption
  <2>2. x \in Or!Voice /\ SameSound(x, w) /\ x.playing /\ x.frames # 0
    BY <1>1, <1>4, <1>8, AheadFields DEF SameSound
  <2>3. y = PutAt(x, q)
    <3>1. n = PutAt(w, q)
      BY <1>1, <1>8 DEF Or!Positioned, PutAt
    <3> HIDE DEF q, w, n
    <3>2. /\ n.cursor = w.cursor /\ n.done = w.done /\ n.position = q
          /\ n.playing = w.playing /\ SameSound(n, w) /\ n \in Or!Voice
      BY <1>4, <2>1, <3>1, PutAtFields
    <3>3. /\ y \in Or!Voice /\ SameSound(y, n) /\ y.cursor = n.cursor + b
          /\ y.done = n.done /\ y.position = n.position /\ y.playing = n.playing
      BY <3>2, AheadFields
    <3>4. /\ SameSound(x, w) /\ x.cursor = w.cursor + b /\ x.done = w.done
          /\ x.playing = w.playing
      BY <1>4, AheadFields
    <3>5. /\ PutAt(x, q) \in Or!Voice /\ SameSound(PutAt(x, q), x)
          /\ PutAt(x, q).cursor = x.cursor /\ PutAt(x, q).done = x.done
          /\ PutAt(x, q).position = q /\ PutAt(x, q).playing = x.playing
      BY <2>1, <2>2, PutAtFields
    <3> HIDE DEF x, y
    <3>6. SameSound(y, PutAt(x, q))
      BY <3>2, <3>3, <3>4, <3>5, SoundsAlike
    <3> QED BY <3>2, <3>3, <3>4, <3>5, <3>6, VoiceFields
  <2>4. Or!Playable(y) /\ y.playing
    <3>1. SameSound(y, n) /\ y.playing = n.playing
      BY <1>5, AheadFields
    <3>2. SameSound(n, w)
      BY <1>1, <1>4, PositionedFields
    <3> QED BY <1>4, <1>5, <1>8, <3>1, <3>2, PlayableSame
  <2>5. Or!NormalizeCursor(y) = Or!Positioned(Or!WithinPass[y])
    BY <2>4 DEF Or!NormalizeCursor
  <2>6. Or!Positioned(Or!WithinPass[PutAt(x, q)]) = Or!Positioned(Or!WithinPass[x])
    BY <2>1, <2>2, PositionForgotten
  <2> HIDE DEF n, a, x, y, q, w
  <2>7. Or!NormalizeCursor(a) = Or!NormalizeCursor(y)
    BY <1>3, <1>6, <1>8, <2>3, <2>5, <2>6 DEF x
  <2> QED BY <1>5, <1>8, <2>7 DEF n, a, y
<1> QED BY <1>7, <1>8

\* The voice at the end of its traversal, and the loop that moves it on.
AtEnd(v) == [v EXCEPT !.cursor = Or!End(v)]
Left(v) == Or!End(v) - v.cursor

LEMMA AtEndFields ==
    ASSUME Or!OffroadAssumption, NEW v \in Or!Voice
    PROVE  /\ AtEnd(v) \in Or!Voice /\ SameSound(AtEnd(v), v)
           /\ AtEnd(v).cursor = Or!End(v) /\ AtEnd(v).done = v.done
           /\ AtEnd(v).position = v.position /\ AtEnd(v).playing = v.playing
<1> DEFINE e == Or!End(v)
<1>1. e \in Nat /\ AtEnd(v) = [v EXCEPT !.cursor = e]
  BY EndNat DEF AtEnd
<1> HIDE DEF e
<1>2. /\ AtEnd(v) \in Or!Voice /\ SameSound(AtEnd(v), v)
      /\ AtEnd(v).cursor = e /\ AtEnd(v).done = v.done
      /\ AtEnd(v).position = v.position /\ AtEnd(v).playing = v.playing
  BY <1>1 DEF Or!Voice, SameSound
<1> QED BY <1>2 DEF e

LEMMA MoveTurn ==
    ASSUME Or!OffroadAssumption, NEW v \in Or!Voice, NEW d \in Nat
    PROVE  Or!Move[<<v, d>>] =
               IF d = 0 \/ ~v.playing THEN v
               ELSE IF d < Left(v) THEN Ahead(v, d)
               ELSE Or!Move[<<Or!FinishPass(AtEnd(v)), d - Left(v)>>]
<1> DEFINE D == Or!Voice \X Nat
           T == {m \in D : m[2] = 0 \/ ~m[1].playing \/ m[2] < Left(m[1])}
           out == [m \in D |-> IF m[2] = 0 \/ ~m[1].playing THEN m[1]
                               ELSE Ahead(m[1], m[2])]
           next(m) == <<Or!FinishPass(AtEnd(m[1])), m[2] - Left(m[1])>>
           step == [m \in D |-> IF m \in T THEN m ELSE next(m)]
<1>1. ASSUME NEW m \in D, m \notin T PROVE next(m) \in D
  <2>1. m[1] \in Or!Voice /\ m[2] \in Nat /\ ~(m[2] < Left(m[1]))
    BY <1>1
  <2>2. Or!FinishPass(AtEnd(m[1])) \in Or!Voice
    BY <2>1, AtEndFields, PassFields
  <2>3. Or!End(m[1]) \in Nat /\ m[1].cursor \in Nat
    BY <2>1, EndNat DEF Or!Voice
  <2>4. m[2] - Left(m[1]) \in Nat
    BY <2>1, <2>3 DEF Left
  <2> QED BY <2>2, <2>4
<1>2. step \in [D -> D]
  BY <1>1
<1> HIDE DEF step, T, out, next, D
<1>3. \E g : Repeats(g, D, step, T, out)
  BY <1>2, RepeatExists
<1>4. PICK f : Repeats(f, D, step, T, out)
  BY <1>3
<1>5. f = [m \in Or!Voice \X Nat |->
              LET u == m[1]
                  delta == m[2]
                  left == Or!End(u) - u.cursor
              IN  IF delta = 0 \/ ~u.playing
                  THEN u
                  ELSE IF delta < left
                  THEN [u EXCEPT !.cursor = @ + delta]
                  ELSE f[<<Or!FinishPass([u EXCEPT !.cursor = Or!End(u)]),
                           delta - left>>]]
  <2>1. f = [m \in D |-> IF m \in T THEN out[m] ELSE f[step[m]]]
    BY <1>4 DEF Repeats
  <2>2. ASSUME NEW m \in D
        PROVE  (IF m \in T THEN out[m] ELSE f[step[m]]) =
                  IF m[2] = 0 \/ ~m[1].playing THEN m[1]
                  ELSE IF m[2] < Left(m[1]) THEN Ahead(m[1], m[2])
                  ELSE f[next(m)]
    BY DEF step, T, out
  <2> QED BY <2>1, <2>2 DEF D, next, Left, AtEnd, Ahead
<1>6. Or!Move = [m \in Or!Voice \X Nat |->
              LET u == m[1]
                  delta == m[2]
                  left == Or!End(u) - u.cursor
              IN  IF delta = 0 \/ ~u.playing
                  THEN u
                  ELSE IF delta < left
                  THEN [u EXCEPT !.cursor = @ + delta]
                  ELSE Or!Move[<<Or!FinishPass([u EXCEPT !.cursor = Or!End(u)]),
                                 delta - left>>]]
  BY <1>5 DEF Or!Move
<1>7. \A m \in D : Or!Move[m] = IF m[2] = 0 \/ ~m[1].playing THEN m[1]
                                ELSE IF m[2] < Left(m[1]) THEN Ahead(m[1], m[2])
                                ELSE Or!Move[next(m)]
  BY <1>6 DEF D, next, Left, AtEnd, Ahead
<1>8. <<v, d>> \in D /\ <<v, d>>[1] = v /\ <<v, d>>[2] = d
  BY DEF D
<1>9. next(<<v, d>>) = <<Or!FinishPass(AtEnd(v)), d - Left(v)>>
  BY <1>8 DEF next
<1> QED BY <1>7, <1>8, <1>9

\* Moving a voice on traversal by traversal finishes what lies on the way.
LEMMA MoveWithin ==
    ASSUME Or!OffroadAssumption
    PROVE  \A v \in Or!Voice, d \in Nat :
               v.frames # 0 /\ v.playing /\ v.cursor < Or!End(v) =>
                   Or!Move[<<v, d>>] = Or!WithinPass[Ahead(v, d)]
<1> DEFINE Ready(v) == v.frames # 0 /\ v.playing /\ v.cursor < Or!End(v)
           G == {m \in Or!Voice \X Nat : Ready(m[1])}
           size == [m \in G |-> m[2]]
           P == {m \in G : Or!Move[m] = Or!WithinPass[Ahead(m[1], m[2])]}
<1>1. ASSUME NEW v \in Or!Voice, NEW d \in Nat, Ready(v),
             \A u \in Or!Voice, r \in Nat :
                 Ready(u) /\ r < d => Or!Move[<<u, r>>] = Or!WithinPass[Ahead(u, r)]
      PROVE  Or!Move[<<v, d>>] = Or!WithinPass[Ahead(v, d)]
  <2> DEFINE a == Ahead(v, d)
             e == AtEnd(v)
             u == Or!FinishPass(e)
             r == d - Left(v)
  <2>1. v.cursor \in Nat /\ Or!End(v) \in Nat /\ Left(v) \in Nat \ {0}
    BY <1>1, EndNat DEF Or!Voice, Left
  <2>2. /\ a \in Or!Voice /\ SameSound(a, v) /\ a.cursor = v.cursor + d
        /\ a.done = v.done /\ a.position = v.position /\ a.playing = v.playing
        /\ Or!End(a) = Or!End(v)
    BY AheadFields, PlayableSame
  <2>3. CASE d = 0
    <3>1. a = v
      BY <2>1, <2>2, <2>3, VoiceFields
    <3>2. Or!WithinPass[v] = v
      BY <1>1, <2>1, WithinPassTurn DEF Ending
    <3>3. Or!Move[<<v, d>>] = v
      BY <2>3, MoveTurn
    <3> QED BY <3>1, <3>2, <3>3
  <2>4. CASE d # 0 /\ d < Left(v)
    <3>1. ~Ending(a)
      BY <2>1, <2>2, <2>4 DEF Ending, Left
    <3>2. Or!Move[<<v, d>>] = a
      BY <1>1, <2>4, MoveTurn
    <3> QED BY <2>2, <3>1, <3>2, WithinPassTurn
  <2>5. CASE d # 0 /\ ~(d < Left(v))
    <3>1. r \in Nat /\ r < d
      BY <2>1, <2>5
    <3>2. /\ e \in Or!Voice /\ SameSound(e, v) /\ e.cursor = Or!End(v)
          /\ e.done = v.done /\ e.position = v.position /\ e.playing = v.playing
          /\ Or!End(e) = Or!End(v)
      BY AtEndFields, PlayableSame
    <3>3. Ending(e) /\ e.frames # 0
      BY <1>1, <2>1, <3>2 DEF Ending, SameSound
    <3>4. a = Ahead(e, r)
      <4>1. /\ Ahead(e, r) \in Or!Voice /\ SameSound(Ahead(e, r), e)
            /\ Ahead(e, r).cursor = e.cursor + r /\ Ahead(e, r).done = e.done
            /\ Ahead(e, r).position = e.position
            /\ Ahead(e, r).playing = e.playing
        BY <3>1, <3>2, AheadFields
      <4>2. e.cursor + r = a.cursor
        BY <2>1, <2>2, <3>2 DEF Left
      <4> HIDE DEF a, e, r
      <4>3. SameSound(a, Ahead(e, r))
        BY <2>2, <3>2, <4>1, SoundsAlike
      <4> QED BY <2>2, <3>2, <4>1, <4>2, <4>3, VoiceFields
    <3>5. Or!Move[<<v, d>>] = Or!Move[<<u, r>>]
      BY <1>1, <2>5, MoveTurn
    <3>6. u \in Or!Voice /\ SameSound(u, e) /\ u.frames # 0
      BY <3>2, <3>3, PassLowers
    <3>7. /\ Ending(a) /\ Or!WithinPass[a] = Or!WithinPass[Or!FinishPass(a)]
          /\ LastPass(e) => Or!FinishPass(a) = u
          /\ ~LastPass(e) => Or!FinishPass(a) = Ahead(u, r)
      <4>1. /\ Ending(Ahead(e, r))
            /\ LastPass(e) => Or!FinishPass(Ahead(e, r)) = u
            /\ ~LastPass(e) => Or!FinishPass(Ahead(e, r)) = Ahead(u, r)
        BY <3>1, <3>2, <3>3, AheadPass
      <4>2. /\ Ending(a)
            /\ LastPass(e) => Or!FinishPass(a) = u
            /\ ~LastPass(e) => Or!FinishPass(a) = Ahead(u, r)
        BY <3>4, <4>1
      <4> QED BY <2>2, <4>2, WithinPassTurn
    <3>8. CASE LastPass(e)
      <4>1. ~u.playing /\ Or!WithinPass[u] = u
        BY <3>2, <3>3, <3>8, PassLowers
      <4>2. Or!Move[<<u, r>>] = u
        BY <3>1, <3>6, <4>1, MoveTurn
      <4> QED BY <3>5, <3>7, <3>8, <4>1, <4>2
    <3>9. CASE ~LastPass(e)
      <4>1. u.playing /\ u.cursor < e.cursor
        BY <3>2, <3>3, <3>9, PassLowers
      <4>2. Or!End(u) = Or!End(e)
        BY <3>6, PlayableSame
      <4>3. Ready(u)
        BY <3>2, <3>6, <4>1, <4>2
      <4>4. Or!Move[<<u, r>>] = Or!WithinPass[Ahead(u, r)]
        BY <1>1, <3>1, <3>6, <4>3
      <4> QED BY <3>5, <3>7, <3>9, <4>4
    <3> QED BY <3>8, <3>9
  <2> QED BY <2>3, <2>4, <2>5
<1>2. size \in [G -> Nat]
  OBVIOUS
<1>3. ASSUME NEW m \in G, \A l \in G : size[l] < size[m] => l \in P PROVE m \in P
  <2> DEFINE v == m[1]
             d == m[2]
  <2>1. v \in Or!Voice /\ d \in Nat /\ Ready(v) /\ m = <<v, d>>
    OBVIOUS
  <2>2. ASSUME NEW u \in Or!Voice, NEW r \in Nat, Ready(u), r < d
        PROVE  Or!Move[<<u, r>>] = Or!WithinPass[Ahead(u, r)]
    <3>1. <<u, r>> \in G /\ size[<<u, r>>] = r /\ size[m] = d
      BY <2>2
    <3>2. <<u, r>> \in P
      BY <1>3, <2>2, <3>1
    <3> QED BY <3>2
  <2>3. Or!Move[<<v, d>>] = Or!WithinPass[Ahead(v, d)]
    BY <1>1, <2>1, <2>2
  <2> QED BY <2>1, <2>3
<1> HIDE DEF size, P
<1>4. \A m \in G : (\A l \in G : size[l] < size[m] => l \in P) => m \in P
  BY <1>3
<1>5. \A m \in G : m \in P
  BY <1>2, <1>4, SizeInduction
<1>6. ASSUME NEW v \in Or!Voice, NEW d \in Nat, Ready(v)
      PROVE  Or!Move[<<v, d>>] = Or!WithinPass[Ahead(v, d)]
  <2>1. <<v, d>> \in G
    BY <1>6
  <2>2. <<v, d>> \in P
    BY <1>5, <2>1
  <2> QED BY <2>2 DEF P
<1> QED BY <1>6

\* Moving a playing voice on is setting its cursor ahead and normalising.
LEMMA AdvanceDeltaIs ==
    ASSUME Or!OffroadAssumption, NEW v \in Or!Voice, NEW d \in Nat
    PROVE  Or!AdvanceDelta(v, d) = IF v.playing /\ Or!Playable(v)
                                   THEN Or!NormalizeCursor(Ahead(v, d))
                                   ELSE Or!NormalizeCursor(v)
<1> DEFINE n == Or!NormalizeCursor(v)
           x == Ahead(n, d)
<1>1. /\ n \in Or!Voice /\ SameSound(n, v)
      /\ n.playing => /\ v.playing /\ Or!Playable(v) /\ n.cursor < Or!End(n)
      /\ v.playing /\ ~Or!Playable(v) => ~n.playing
      /\ ~v.playing => n = v
  BY NormalFacts
<1>2. CASE ~n.playing
  <2>1. Or!AdvanceDelta(v, d) = n
    BY <1>2 DEF Or!AdvanceDelta
  <2>2. v.playing /\ Or!Playable(v) => Or!NormalizeCursor(Ahead(v, d)) = n
    BY <1>2, NormalAhead
  <2> QED BY <2>1, <2>2
<1>3. CASE n.playing
  <2>1. Or!AdvanceDelta(v, d) = Or!Positioned(Or!Move[<<n, d>>])
    BY <1>3 DEF Or!AdvanceDelta
  <2>2. Or!Playable(n) /\ n.frames # 0
    BY <1>1, <1>3, PlayableSame DEF Or!Playable
  <2>3. Or!Move[<<n, d>>] = Or!WithinPass[x]
    BY <1>1, <1>3, <2>2, MoveWithin
  <2>4. x.playing /\ Or!Playable(x)
    BY <1>1, <1>3, <2>2, AheadFields, PlayableSame
  <2>5. Or!NormalizeCursor(x) = Or!Positioned(Or!WithinPass[x])
    BY <2>4 DEF Or!NormalizeCursor
  <2>6. Or!NormalizeCursor(Ahead(v, d)) = Or!NormalizeCursor(x)
    BY <1>1, <1>3, NormalAhead
  <2> QED BY <1>1, <1>3, <2>1, <2>3, <2>5, <2>6
<1> QED BY <1>2, <1>3

LEMMA AdvanceDeltaType ==
    ASSUME Or!OffroadAssumption, NEW v \in Or!Voice, NEW d \in Nat
    PROVE  Or!AdvanceDelta(v, d) \in Or!Voice
BY AdvanceDeltaIs, AheadFields, NormalFacts

LEMMA RateNat ==
    ASSUME Or!OffroadAssumption, NEW v \in Or!Voice, NEW t \in Nat
    PROVE  v.rate * t \in Nat
BY TimesNat DEF Or!Voice

\* A chunk of a catch-up.
LEMMA AdvanceByTurn ==
    ASSUME Or!OffroadAssumption, NEW v \in Or!Voice, NEW t \in Nat
    PROVE  Or!AdvanceBy[<<v, t>>] =
               IF t = 0 \/ ~v.playing THEN v
               ELSE IF t < Second THEN Or!AdvanceDelta(v, v.rate * t)
               ELSE Or!AdvanceBy[<<Or!AdvanceDelta(v, v.rate * Second), t - Second>>]
<1> DEFINE D == Or!Voice \X Nat
           T == {m \in D : m[2] = 0 \/ ~m[1].playing \/ m[2] < Second}
           out == [m \in D |-> IF m[2] = 0 \/ ~m[1].playing THEN m[1]
                               ELSE Or!AdvanceDelta(m[1], m[1].rate * m[2])]
           next(m) == <<Or!AdvanceDelta(m[1], m[1].rate * Second), m[2] - Second>>
           step == [m \in D |-> IF m \in T THEN m ELSE next(m)]
<1>1. ASSUME NEW m \in D, m \notin T PROVE next(m) \in D
  <2>1. m[1] \in Or!Voice /\ m[2] \in Nat /\ ~(m[2] < Second) /\ Second \in Nat
    BY <1>1 DEF Or!OffroadAssumption
  <2>2. Or!AdvanceDelta(m[1], m[1].rate * Second) \in Or!Voice
    BY <2>1, RateNat, AdvanceDeltaType
  <2>3. m[2] - Second \in Nat
    BY <2>1
  <2> QED BY <2>2, <2>3
<1>2. step \in [D -> D]
  BY <1>1
<1> HIDE DEF step, T, out, next, D
<1>3. \E g : Repeats(g, D, step, T, out)
  BY <1>2, RepeatExists
<1>4. PICK f : Repeats(f, D, step, T, out)
  BY <1>3
<1>5. f = [a \in Or!Voice \X Nat |->
              LET u == a[1]
                  frames == a[2]
              IN  IF frames = 0 \/ ~u.playing
                  THEN u
                  ELSE IF frames < Second
                  THEN Or!AdvanceDelta(u, u.rate * frames)
                  ELSE f[<<Or!AdvanceDelta(u, u.rate * Second), frames - Second>>]]
  <2>1. f = [m \in D |-> IF m \in T THEN out[m] ELSE f[step[m]]]
    BY <1>4 DEF Repeats
  <2>2. ASSUME NEW m \in D
        PROVE  (IF m \in T THEN out[m] ELSE f[step[m]]) =
                  IF m[2] = 0 \/ ~m[1].playing THEN m[1]
                  ELSE IF m[2] < Second THEN Or!AdvanceDelta(m[1], m[1].rate * m[2])
                  ELSE f[next(m)]
    BY DEF step, T, out
  <2> QED BY <2>1, <2>2 DEF D, next
<1>6. Or!AdvanceBy = [a \in Or!Voice \X Nat |->
              LET u == a[1]
                  frames == a[2]
              IN  IF frames = 0 \/ ~u.playing
                  THEN u
                  ELSE IF frames < Second
                  THEN Or!AdvanceDelta(u, u.rate * frames)
                  ELSE Or!AdvanceBy[<<Or!AdvanceDelta(u, u.rate * Second),
                                      frames - Second>>]]
  BY <1>5 DEF Or!AdvanceBy
<1>7. \A m \in D : Or!AdvanceBy[m] =
          IF m[2] = 0 \/ ~m[1].playing THEN m[1]
          ELSE IF m[2] < Second THEN Or!AdvanceDelta(m[1], m[1].rate * m[2])
          ELSE Or!AdvanceBy[next(m)]
  BY <1>6 DEF D, next
<1>8. <<v, t>> \in D /\ <<v, t>>[1] = v /\ <<v, t>>[2] = t
  BY DEF D
<1>9. next(<<v, t>>) = <<Or!AdvanceDelta(v, v.rate * Second), t - Second>>
  BY <1>8 DEF next
<1> QED BY <1>7, <1>8, <1>9

\* A frame of the mix.
LEMMA MixedTurn ==
    ASSUME Or!OffroadAssumption, NEW v \in Or!Voice, NEW t \in Nat
    PROVE  LET n == Or!NormalizeCursor(v)
           IN  Or!Mixed[<<v, t>>] =
                   IF t = 0 \/ ~n.playing THEN n
                   ELSE Or!Mixed[<<Or!NormalizeCursor(Ahead(n, n.rate)), t - 1>>]
<1> DEFINE D == Or!Voice \X Nat
           N(m) == Or!NormalizeCursor(m[1])
           T == {m \in D : m[2] = 0 \/ ~N(m).playing}
           out == [m \in D |-> N(m)]
           next(m) == <<Or!NormalizeCursor(Ahead(N(m), N(m).rate)), m[2] - 1>>
           step == [m \in D |-> IF m \in T THEN m ELSE next(m)]
<1>1. ASSUME NEW m \in D, m \notin T PROVE next(m) \in D
  <2>1. m[1] \in Or!Voice /\ m[2] \in Nat \ {0}
    BY <1>1
  <2>2. N(m) \in Or!Voice
    BY <2>1, NormalFacts
  <2>3. N(m).rate \in Nat
    BY <2>2 DEF Or!Voice
  <2>4. Or!NormalizeCursor(Ahead(N(m), N(m).rate)) \in Or!Voice
    BY <2>2, <2>3, AheadFields, NormalFacts
  <2> QED BY <2>1, <2>4
<1>2. step \in [D -> D]
  BY <1>1
<1> HIDE DEF step, T, out, next, D, N
<1>3. \E g : Repeats(g, D, step, T, out)
  BY <1>2, RepeatExists
<1>4. PICK f : Repeats(f, D, step, T, out)
  BY <1>3
<1>5. f = [m \in Or!Voice \X Nat |->
              LET n == Or!NormalizeCursor(m[1])
              IN  IF m[2] = 0 \/ ~n.playing THEN n
                  ELSE f[<<Or!NormalizeCursor([n EXCEPT !.cursor = @ + n.rate]),
                           m[2] - 1>>]]
  <2>1. f = [m \in D |-> IF m \in T THEN out[m] ELSE f[step[m]]]
    BY <1>4 DEF Repeats
  <2>2. ASSUME NEW m \in D
        PROVE  (IF m \in T THEN out[m] ELSE f[step[m]]) =
                  IF m[2] = 0 \/ ~N(m).playing THEN N(m) ELSE f[next(m)]
    BY DEF step, T, out
  <2>3. f = [m \in D |-> IF m[2] = 0 \/ ~N(m).playing THEN N(m) ELSE f[next(m)]]
    <3> HIDE DEF N, next, step, T, out, D
    <3> QED BY <2>1, <2>2
  <2> HIDE DEF step, T, out
  <2> QED BY <2>3 DEF D, next, N, Ahead
<1>6. Or!Mixed = [m \in Or!Voice \X Nat |->
              LET n == Or!NormalizeCursor(m[1])
              IN  IF m[2] = 0 \/ ~n.playing THEN n
                  ELSE Or!Mixed[<<Or!NormalizeCursor([n EXCEPT !.cursor = @ + n.rate]),
                                  m[2] - 1>>]]
  <2> DEFINE G(h) ==
          [m \in Or!Voice \X Nat |->
              LET n == Or!NormalizeCursor(m[1])
              IN  IF m[2] = 0 \/ ~n.playing THEN n
                  ELSE h[<<Or!NormalizeCursor([n EXCEPT !.cursor = @ + n.rate]),
                           m[2] - 1>>]]
  <2>1. Or!Mixed = CHOOSE h : h = G(h)
    BY DEF Or!Mixed
  <2>2. f = G(f)
    BY <1>5
  <2>3. Or!Mixed = G(Or!Mixed)
    <3> HIDE DEF G
    <3> QED BY <2>1, <2>2
  <2> QED BY <2>3
<1>7. \A m \in D : Or!Mixed[m] =
          IF m[2] = 0 \/ ~N(m).playing THEN N(m) ELSE Or!Mixed[next(m)]
  BY <1>6 DEF D, next, N, Ahead
<1>8. <<v, t>> \in D /\ <<v, t>>[1] = v /\ <<v, t>>[2] = t
  BY DEF D
<1>9. next(<<v, t>>) = <<Or!NormalizeCursor(Ahead(N(<<v, t>>), N(<<v, t>>).rate)), t - 1>>
      /\ N(<<v, t>>) = Or!NormalizeCursor(v)
  BY <1>8 DEF next, N
<1> QED BY <1>7, <1>8, <1>9

\* Where a playing voice is so many output frames later.
Where(v, t) == IF Or!Playable(v) THEN Or!NormalizeCursor(Ahead(v, v.rate * t))
               ELSE Or!NormalizeCursor(v)

LEMMA WhereFacts ==
    ASSUME Or!OffroadAssumption, NEW v \in Or!Voice, NEW t \in Nat
    PROVE  /\ Where(v, t) \in Or!Voice /\ SameSound(Where(v, t), v)
           /\ Where(v, t).playing => Or!Playable(v)
           /\ v.position <= v.frames =>
                  Where(v, t).position <= Where(v, t).frames
<1> DEFINE d == v.rate * t
<1>1. d \in Nat
  BY RateNat
<1> HIDE DEF d
<1>2. /\ Ahead(v, d) \in Or!Voice /\ SameSound(Ahead(v, d), v)
      /\ Ahead(v, d).position = v.position
  BY <1>1, AheadFields
<1>3. CASE Or!Playable(v)
  <2>1. Where(v, t) = Or!NormalizeCursor(Ahead(v, d))
    BY <1>3 DEF Where, d
  <2>2. /\ Where(v, t) \in Or!Voice /\ SameSound(Where(v, t), Ahead(v, d))
        /\ Ahead(v, d).position <= Ahead(v, d).frames =>
               Where(v, t).position <= Where(v, t).frames
    BY <1>2, <2>1, NormalFacts
  <2> QED BY <1>2, <1>3, <2>2 DEF SameSound
<1>4. CASE ~Or!Playable(v)
  <2>1. Where(v, t) = Or!NormalizeCursor(v)
    BY <1>4 DEF Where
  <2> QED BY <2>1, NormalFacts
<1> QED BY <1>3, <1>4

\* Some time and then some more is all of it at once.
LEMMA WhereAdds ==
    ASSUME Or!OffroadAssumption, NEW v \in Or!Voice, v.playing,
           NEW b \in Nat, NEW t \in Nat
    PROVE  Where(v, b + t) = IF Where(v, b).playing THEN Where(Where(v, b), t)
                             ELSE Where(v, b)
<1> DEFINE u == Where(v, b)
           x == Ahead(v, v.rate * b)
           y == Ahead(x, v.rate * t)
           z == Ahead(v, v.rate * (b + t))
<1>1. u \in Or!Voice /\ SameSound(u, v)
  BY WhereFacts
<1>2. /\ v.rate * b \in Nat /\ v.rate * t \in Nat /\ v.rate * (b + t) \in Nat
      /\ v.rate * (b + t) = v.rate * b + v.rate * t
      /\ v.cursor \in Nat
  <2>1. v.rate \in Nat /\ v.cursor \in Nat /\ b + t \in Nat
    BY DEF Or!Voice
  <2> QED BY <2>1, TimesNat
<1>3. CASE ~Or!Playable(v)
  <2>1. u = Or!NormalizeCursor(v) /\ Where(v, b + t) = u
    BY <1>3 DEF Where
  <2>2. ~u.playing
    BY <1>3, <2>1, NormalFacts
  <2> QED BY <2>1, <2>2
<1>4. CASE Or!Playable(v)
  <2>1. /\ x \in Or!Voice /\ SameSound(x, v) /\ x.cursor = v.cursor + v.rate * b
        /\ x.done = v.done /\ x.position = v.position /\ x.playing = v.playing
    BY <1>2, AheadFields
  <2>2. /\ y \in Or!Voice /\ SameSound(y, x) /\ y.cursor = x.cursor + v.rate * t
        /\ y.done = x.done /\ y.position = x.position /\ y.playing = x.playing
    BY <1>2, <2>1, AheadFields
  <2>3. /\ z \in Or!Voice /\ SameSound(z, v)
        /\ z.cursor = v.cursor + v.rate * (b + t)
        /\ z.done = v.done /\ z.position = v.position /\ z.playing = v.playing
    BY <1>2, AheadFields
  <2>4. y.cursor = z.cursor
    BY <1>2, <2>1, <2>2, <2>3
  <2>5. Or!Playable(x)
    BY <1>4, <2>1, PlayableSame
  <2>6. u = Or!NormalizeCursor(x) /\ Where(v, b + t) = Or!NormalizeCursor(z)
    BY <1>4 DEF Where
  <2>7. u.playing => Where(u, t) = Or!NormalizeCursor(Ahead(u, v.rate * t))
    <3>1. Or!Playable(u) /\ u.rate = v.rate
      BY <1>1, <1>4, PlayableSame DEF SameSound
    <3> HIDE DEF u
    <3> QED BY <3>1 DEF Where
  <2>8. Or!NormalizeCursor(y) = IF u.playing
                                THEN Or!NormalizeCursor(Ahead(u, v.rate * t))
                                ELSE u
    BY <1>2, <2>1, <2>5, <2>6, NormalAhead
  <2> HIDE DEF x, y, z, u
  <2>9. y = z
    <3>1. SameSound(y, z)
      BY <2>1, <2>2, <2>3, SoundsAlike
    <3> QED BY <2>1, <2>2, <2>3, <2>4, <3>1, VoiceFields
  <2> QED BY <2>6, <2>7, <2>8, <2>9 DEF u
<1> QED BY <1>3, <1>4

LEMMA WhereNow ==
    ASSUME Or!OffroadAssumption, NEW v \in Or!Voice
    PROVE  Where(v, 0) = Or!NormalizeCursor(v)
<1>1. v.rate * 0 = 0 /\ v.cursor \in Nat
  BY DEF Or!Voice
<1>2. /\ Ahead(v, 0) \in Or!Voice /\ SameSound(Ahead(v, 0), v)
      /\ Ahead(v, 0).cursor = v.cursor + 0 /\ Ahead(v, 0).done = v.done
      /\ Ahead(v, 0).position = v.position /\ Ahead(v, 0).playing = v.playing
  BY AheadFields
<1>3. Ahead(v, 0) = v
  BY <1>1, <1>2, VoiceFields
<1> QED BY <1>1, <1>3 DEF Where

\* A catch-up comes to where the voice is so much later, whatever its chunks.
LEMMA CaughtUpWhere ==
    ASSUME Or!OffroadAssumption
    PROVE  \A v \in Or!Voice, t \in Nat :
               v.playing /\ t # 0 => Or!AdvanceBy[<<v, t>>] = Where(v, t)
<1> DEFINE G == {m \in Or!Voice \X Nat : m[1].playing /\ m[2] # 0}
           size == [m \in G |-> m[2]]
           P == {m \in G : Or!AdvanceBy[m] = Where(m[1], m[2])}
<1>1. ASSUME NEW v \in Or!Voice, NEW t \in Nat \ {0}, v.playing,
             \A u \in Or!Voice, r \in Nat \ {0} :
                 u.playing /\ r < t => Or!AdvanceBy[<<u, r>>] = Where(u, r)
      PROVE  Or!AdvanceBy[<<v, t>>] = Where(v, t)
  <2> DEFINE u == Where(v, Second)
             r == t - Second
  <2>0. Second \in Nat \ {0}
    BY DEF Or!OffroadAssumption
  <2>1. \A j \in Nat : Or!AdvanceDelta(v, v.rate * j) = Where(v, j)
    BY <1>1, AdvanceDeltaIs, RateNat DEF Where
  <2>2. CASE t < Second
    BY <1>1, <2>1, <2>2, AdvanceByTurn
  <2>3. CASE ~(t < Second)
    <3>1. r \in Nat /\ r < t /\ Second + r = t
      BY <2>0, <2>3
    <3>2. u \in Or!Voice
      BY <2>0, WhereFacts
    <3>3. Or!AdvanceBy[<<v, t>>] = Or!AdvanceBy[<<u, r>>]
      BY <1>1, <2>0, <2>1, <2>3, AdvanceByTurn
    <3>4. Where(v, t) = IF u.playing THEN Where(u, r) ELSE u
      <4>1. Where(v, Second + r) = IF Where(v, Second).playing
                THEN Where(Where(v, Second), r) ELSE Where(v, Second)
        BY <1>1, <2>0, <3>1, WhereAdds
      <4>2. Second + r = t
        BY <3>1
      <4> HIDE DEF r
      <4> QED BY <4>1, <4>2
    <3> HIDE DEF u, r
    <3>5. CASE r = 0
      <4>1. Or!AdvanceBy[<<u, r>>] = u
        BY <3>1, <3>2, <3>5, AdvanceByTurn
      <4>2. Where(v, t) = u
        BY <2>0, <3>1, <3>5 DEF u
      <4> QED BY <3>3, <4>1, <4>2
    <3>6. CASE r # 0 /\ u.playing
      BY <1>1, <3>1, <3>2, <3>3, <3>4, <3>6
    <3>7. CASE ~u.playing
      BY <3>1, <3>2, <3>3, <3>4, <3>7, AdvanceByTurn
    <3> QED BY <3>5, <3>6, <3>7
  <2> QED BY <2>2, <2>3
<1>2. size \in [G -> Nat]
  OBVIOUS
<1>3. ASSUME NEW m \in G, \A l \in G : size[l] < size[m] => l \in P PROVE m \in P
  <2> DEFINE v == m[1]
             t == m[2]
  <2>1. v \in Or!Voice /\ t \in Nat \ {0} /\ v.playing /\ m = <<v, t>>
    OBVIOUS
  <2>2. ASSUME NEW u \in Or!Voice, NEW r \in Nat \ {0}, u.playing, r < t
        PROVE  Or!AdvanceBy[<<u, r>>] = Where(u, r)
    <3>1. <<u, r>> \in G /\ size[<<u, r>>] = r /\ size[m] = t
      BY <2>2
    <3>2. <<u, r>> \in P
      BY <1>3, <2>2, <3>1
    <3> QED BY <3>2
  <2>3. Or!AdvanceBy[<<v, t>>] = Where(v, t)
    BY <1>1, <2>1, <2>2
  <2> QED BY <2>1, <2>3
<1> HIDE DEF size, P
<1>4. \A m \in G : (\A l \in G : size[l] < size[m] => l \in P) => m \in P
  BY <1>3
<1>5. \A m \in G : m \in P
  BY <1>2, <1>4, SizeInduction
<1>6. ASSUME NEW v \in Or!Voice, NEW t \in Nat, v.playing, t # 0
      PROVE  Or!AdvanceBy[<<v, t>>] = Where(v, t)
  <2>1. <<v, t>> \in P
    BY <1>5, <1>6
  <2> QED BY <2>1 DEF P
<1> QED BY <1>6

\* Mixing comes there frame by frame.
LEMMA MixedWhere ==
    ASSUME Or!OffroadAssumption
    PROVE  \A v \in Or!Voice, t \in Nat :
               v.playing => Or!Mixed[<<v, t>>] = Where(v, t)
<1> DEFINE G == {m \in Or!Voice \X Nat : m[1].playing}
           size == [m \in G |-> m[2]]
           P == {m \in G : Or!Mixed[m] = Where(m[1], m[2])}
<1>1. ASSUME NEW v \in Or!Voice, NEW t \in Nat, v.playing,
             \A u \in Or!Voice, r \in Nat :
                 u.playing /\ r < t => Or!Mixed[<<u, r>>] = Where(u, r)
      PROVE  Or!Mixed[<<v, t>>] = Where(v, t)
  <2> DEFINE n == Or!NormalizeCursor(v)
             u == Or!NormalizeCursor(Ahead(n, n.rate))
  <2>1. /\ n \in Or!Voice /\ SameSound(n, v) /\ n.rate \in Nat
        /\ n.playing => Or!Playable(v)
    BY NormalFacts DEF Or!Voice
  <2>2. n = Where(v, 0)
    BY WhereNow
  <2>3. Or!Mixed[<<v, t>>] = IF t = 0 \/ ~n.playing THEN n
                             ELSE Or!Mixed[<<u, t - 1>>]
    BY MixedTurn
  <2>4. \A j \in Nat : Where(v, j) = IF n.playing THEN Where(n, j) ELSE n
    BY <1>1, <2>2, WhereAdds
  <2>5. CASE t = 0
    BY <2>2, <2>3, <2>5
  <2>6. CASE ~n.playing
    BY <2>3, <2>4, <2>6
  <2>7. CASE t # 0 /\ n.playing
    <3>1. u = Where(v, 1)
      <4>1. Or!Playable(n) /\ n.rate * 1 = n.rate
        BY <2>1, <2>7, PlayableSame
      <4>2. u = Where(n, 1)
        BY <4>1 DEF Where
      <4> HIDE DEF u, n
      <4> QED BY <2>4, <2>7, <4>2
    <3>2. u \in Or!Voice
      BY <3>1, WhereFacts
    <3>3. t - 1 \in Nat /\ t - 1 < t /\ 1 + (t - 1) = t
      BY <2>7
    <3>4. Where(v, t) = IF u.playing THEN Where(u, t - 1) ELSE u
      <4> DEFINE r == t - 1
      <4>1. Where(v, 1 + r) = IF Where(v, 1).playing
                THEN Where(Where(v, 1), r) ELSE Where(v, 1)
        <5>1. r \in Nat
          BY <3>3
        <5> HIDE DEF r, u, n
        <5> QED BY <1>1, <5>1, WhereAdds
      <4>2. 1 + r = t
        BY <3>3
      <4>3. Where(v, t) = IF Where(v, 1).playing
                THEN Where(Where(v, 1), r) ELSE Where(v, 1)
        <5> HIDE DEF r
        <5> QED BY <4>1, <4>2
      <4> HIDE DEF u
      <4> QED BY <3>1, <4>3
    <3> HIDE DEF u
    <3>5. CASE u.playing
      BY <1>1, <2>3, <2>7, <3>2, <3>3, <3>4, <3>5
    <3>6. CASE ~u.playing
      <4>1. Or!NormalizeCursor(u) = u
        BY <3>2, <3>6, NormalFacts
      <4>2. Or!Mixed[<<u, t - 1>>] = u
        BY <3>2, <3>3, <3>6, <4>1, MixedTurn
      <4> QED BY <2>3, <2>7, <3>4, <3>6, <4>2
    <3> QED BY <3>5, <3>6
  <2> QED BY <2>5, <2>6, <2>7
<1>2. size \in [G -> Nat]
  OBVIOUS
<1>3. ASSUME NEW m \in G, \A l \in G : size[l] < size[m] => l \in P PROVE m \in P
  <2> DEFINE v == m[1]
             t == m[2]
  <2>1. v \in Or!Voice /\ t \in Nat /\ v.playing /\ m = <<v, t>>
    OBVIOUS
  <2>2. ASSUME NEW u \in Or!Voice, NEW r \in Nat, u.playing, r < t
        PROVE  Or!Mixed[<<u, r>>] = Where(u, r)
    <3>1. <<u, r>> \in G /\ size[<<u, r>>] = r /\ size[m] = t
      BY <2>2
    <3>2. <<u, r>> \in P
      BY <1>3, <2>2, <3>1
    <3> QED BY <3>2
  <2>3. Or!Mixed[<<v, t>>] = Where(v, t)
    BY <1>1, <2>1, <2>2
  <2> QED BY <2>1, <2>3
<1> HIDE DEF size, P
<1>4. \A m \in G : (\A l \in G : size[l] < size[m] => l \in P) => m \in P
  BY <1>3
<1>5. \A m \in G : m \in P
  BY <1>2, <1>4, SizeInduction
<1>6. ASSUME NEW v \in Or!Voice, NEW t \in Nat, v.playing
      PROVE  Or!Mixed[<<v, t>>] = Where(v, t)
  <2>1. <<v, t>> \in P
    BY <1>5, <1>6
  <2> QED BY <2>1 DEF P
<1> QED BY <1>6

-----------------------------------------------------------------------------
(* The machine around the cursors. *)

\* A voice that is still one of the same sample, and no further past its end.
SameSample(u, w) ==
    /\ u.allocated = w.allocated /\ u.sample = w.sample /\ u.frames = w.frames
Stays(u, w) ==
    /\ u \in Or!Voice /\ SameSample(u, w)
    /\ w.position <= w.frames => u.position <= u.frames

\* Every allocated voice has the whole of a sample that is in memory.
SoundsWhole ==
    /\ sound \in [Or!Slots -> Or!Voice]
    /\ \A s \in Or!Slots :
          /\ sound[s].position <= sound[s].frames
          /\ sound[s].allocated =>
                sound[s].sample \in loaded
                /\ sound[s].frames = LengthOf[sound[s].sample]
Taken == {s \in Or!Slots : sound[s].allocated}
SoundsCounted == allocated = Cardinality(Taken)

\* What the render thread reads now is of the voice it is at.
ReadsOwn ==
    \A r \in reading :
        /\ mixer.holds /\ mixer.slot \in Or!Slots
        /\ sound[mixer.slot].allocated /\ r[1] = sound[mixer.slot].sample
        /\ r[2] < LengthOf[r[1]]

OthersTyped ==
    /\ idle \in 0 .. ElapsedMax
    /\ mixer \in [holds : BOOLEAN, slot : 1 .. OrVoices + 1, left : 0 .. Block]
    /\ loaded \subseteq Samples /\ calls \in 0 .. MaxCalls

OrInv == SoundsWhole /\ SoundsCounted /\ ReadsOwn /\ OthersTyped

\* The count of the module and the one the facts are about.
LEMMA SameCount == ASSUME NEW S PROVE Or!Cardinality(S) = Cardinality(S)
BY DEF Or!Cardinality, Cardinality

LEMMA OrInvSays ==
    ASSUME OrInv
    PROVE  Or!OffroadTypeOK /\ Or!ReadsInside
<1>1. Or!OffroadTypeOK
  <2>1. \A s \in Or!Slots : /\ sound[s] \in Or!Voice
                            /\ sound[s].position <= sound[s].frames
    BY DEF OrInv, SoundsWhole
  <2>2. allocated = Or!Cardinality({s \in Or!Slots : sound[s].allocated})
    BY SameCount DEF OrInv, SoundsCounted, Taken
  <2> QED BY <2>1, <2>2 DEF OrInv, OthersTyped, Or!OffroadTypeOK
<1>2. Or!ReadsInside
  BY DEF OrInv, SoundsWhole, ReadsOwn, Or!ReadsInside
<1> QED BY <1>1, <1>2

LEMMA FreeType ==
    ASSUME Or!OffroadAssumption
    PROVE  /\ Or!FreeVoice \in Or!Voice /\ ~Or!FreeVoice.allocated
           /\ Or!FreeVoice.position <= Or!FreeVoice.frames
BY DEF Or!OffroadAssumption, Or!FreeVoice, Or!Voice

LEMMA TakenFinite ==
    ASSUME Or!OffroadAssumption
    PROVE  IsFiniteSet(Taken)
<1>1. IsFiniteSet(1 .. OrVoices)
  BY FS_Interval DEF Or!OffroadAssumption
<1>2. Taken \subseteq 1 .. OrVoices
  BY DEF Taken, Or!Slots
<1> QED BY <1>1, <1>2, FS_Subset

LEMMA AllFree ==
    ASSUME Or!OffroadAssumption, sound' = [s \in Or!Slots |-> Or!FreeVoice],
           allocated' = 0
    PROVE  SoundsWhole' /\ SoundsCounted'
<1>1. SoundsWhole'
  BY FreeType DEF SoundsWhole
<1>2. Taken' = {}
  BY FreeType DEF Taken
<1> QED BY <1>1, <1>2, FS_EmptySet DEF SoundsCounted

LEMMA OrStart == ASSUME Or!OffroadAssumption, Or!Init PROVE OrInv
<1>1. SoundsWhole
  BY FreeType DEF SoundsWhole, Or!Init
<1>2. Taken = {}
  BY FreeType DEF Taken, Or!Init
<1>3. SoundsCounted
  BY <1>2, FS_EmptySet DEF SoundsCounted, Or!Init
<1>4. ReadsOwn
  BY DEF ReadsOwn, Or!Init
<1>5. OthersTyped
  <2>1. OrVoices \in Nat \ {0} /\ Block \in Nat /\ MaxCalls \in Nat
        /\ ElapsedMax \in Nat
    BY DEF Or!OffroadAssumption
  <2>2. Or!Idle \in [holds : BOOLEAN, slot : 1 .. OrVoices + 1, left : 0 .. Block]
    BY <2>1 DEF Or!Idle
  <2> QED BY <2>1, <2>2 DEF OthersTyped, Or!Init
<1> QED BY <1>1, <1>3, <1>4, <1>5 DEF OrInv

\* Voices that stay what they are.
LEMMA VoicesStay ==
    ASSUME SoundsWhole, SoundsCounted, sound' \in [Or!Slots -> Or!Voice],
           \A s \in Or!Slots : Stays(sound'[s], sound[s]),
           UNCHANGED <<allocated, loaded>>
    PROVE  SoundsWhole' /\ SoundsCounted' /\ Taken' = Taken
<1>1. SoundsWhole'
  BY DEF SoundsWhole, Stays, SameSample
<1>2. Taken' = Taken
  BY DEF Taken, Stays, SameSample
<1> QED BY <1>1, <1>2 DEF SoundsCounted

LEMMA WholeStays ==
    ASSUME SoundsWhole, NEW s \in Or!Slots
    PROVE  Stays(sound[s], sound[s])
BY DEF SoundsWhole, Stays, SameSample

LEMMA StaysOn ==
    ASSUME NEW u, NEW v, NEW w, Stays(u, v), Stays(v, w)
    PROVE  Stays(u, w)
BY DEF Stays, SameSample

LEMMA NormalStays ==
    ASSUME Or!OffroadAssumption, NEW v \in Or!Voice
    PROVE  Stays(Or!NormalizeCursor(v), v)
BY NormalFacts DEF Stays, SameSample, SameSound

\* A catch-up.
LEMMA CatchUpStays ==
    ASSUME Or!OffroadAssumption, SoundsWhole, idle \in 0 .. ElapsedMax,
           NEW s \in Or!Slots
    PROVE  Stays(Or!CaughtUp[s], sound[s])
<1> DEFINE v == sound[s]
<1>1. v \in Or!Voice /\ Stays(v, v)
  BY WholeStays DEF SoundsWhole
<1>2. idle \in Nat /\ Stall \in Nat \ {0} /\ ElapsedMax \in Nat
  BY DEF Or!OffroadAssumption
<1>3. Or!CaughtUp[s] = IF Or!Stalled /\ v.rate # 0
                       THEN Or!AdvanceBy[<<v, idle>>] ELSE v
  BY DEF Or!CaughtUp
<1> HIDE DEF v
<1>4. CASE ~v.playing
  <2>1. Or!AdvanceBy[<<v, idle>>] = v
    BY <1>1, <1>2, <1>4, AdvanceByTurn
  <2> QED BY <1>1, <1>3, <2>1 DEF v
<1>5. CASE v.playing /\ Or!Stalled
  <2>1. idle # 0
    BY <1>2, <1>5 DEF Or!Stalled
  <2>2. Or!AdvanceBy[<<v, idle>>] = Where(v, idle)
    BY <1>1, <1>2, <1>5, <2>1, CaughtUpWhere
  <2>3. Stays(Where(v, idle), v)
    BY <1>1, <1>2, WhereFacts DEF Stays, SameSample, SameSound
  <2> QED BY <1>1, <1>3, <2>2, <2>3 DEF v
<1>6. CASE ~Or!Stalled
  BY <1>1, <1>3, <1>6 DEF v
<1> QED BY <1>4, <1>5, <1>6

\* What the game sets of a voice.
LEMMA SetStays ==
    ASSUME Or!OffroadAssumption, NEW v \in Or!Voice, NEW c \in Changes
    PROVE  Stays(Or!SetTo(v, c), v)
<1> DEFINE has(f) == f \in c.mask
           at == IF c.position > v.frames THEN v.frames ELSE c.position
           rate == IF has("rate") THEN c.rate ELSE v.rate
           loops == IF has("loops") THEN c.loops ELSE v.loops
           point == IF has("point") THEN c.point ELSE v.point
           position == IF has("position") THEN at ELSE v.position
           cursor == IF has("position") THEN at * Sub ELSE v.cursor
           set == [v EXCEPT !.rate = rate, !.loops = loops, !.point = point,
                            !.position = position, !.cursor = cursor]
           done == IF v.playing THEN set.done ELSE 0
           able == Or!Playable(set)
           going == [set EXCEPT !.done = done, !.playing = able]
<1>1. /\ v.rate \in Nat /\ v.loops \in Nat /\ v.point \in Nat
      /\ v.position \in Nat /\ v.cursor \in Nat /\ v.frames \in Nat
  BY DEF Or!Voice
<1>2. Sub \in Nat /\ MaxDone \in Nat
  BY DEF Or!OffroadAssumption
<1>3. has("position") => /\ at \in Nat /\ at <= v.frames
  <2>1. has("position") => c.position \in Nat
    BY DEF Or!OffroadAssumption
  <2> QED BY <1>1, <2>1
<1>4. /\ position \in Nat /\ cursor \in Nat
      /\ v.position <= v.frames => position <= v.frames
  <2>1. has("position") => at * Sub \in Nat
    BY <1>2, <1>3, TimesNat
  <2> QED BY <1>1, <1>3, <2>1
<1>5. rate \in Nat /\ loops \in Nat /\ point \in Nat
  BY <1>1 DEF Or!OffroadAssumption
<1>6. Or!SetTo(v, c) = IF ~has("playing") THEN set
                       ELSE IF ~c.playing THEN [set EXCEPT !.playing = FALSE]
                       ELSE Or!NormalizeCursor(going)
  BY DEF Or!SetTo
<1> HIDE DEF has, at, rate, loops, point, position, cursor
<1>7. Stays(set, v)
  BY <1>4, <1>5 DEF Stays, SameSample, Or!Voice
<1> HIDE DEF set
<1>8. set \in Or!Voice
  BY <1>7 DEF Stays
<1>9. Stays([set EXCEPT !.playing = FALSE], set)
  BY <1>8 DEF Stays, SameSample, Or!Voice
<1>10. Stays(Or!NormalizeCursor(going), set)
  <2>1. done \in 0 .. MaxDone /\ able \in BOOLEAN
    BY <1>2, <1>8 DEF Or!Playable, Or!Voice
  <2> HIDE DEF done, able
  <2>2. Stays(going, set)
    BY <1>8, <2>1 DEF Stays, SameSample, Or!Voice
  <2> HIDE DEF going
  <2>3. Stays(Or!NormalizeCursor(going), going)
    BY <2>2, NormalStays DEF Stays
  <2> QED BY <2>2, <2>3, StaysOn
<1> QED BY <1>6, <1>7, <1>9, <1>10, StaysOn

\* The game's calls, none of which falls into a mix.
LEMMA CalledReadsNothing ==
    ASSUME ReadsOwn, Or!Called PROVE reading = {}
BY DEF ReadsOwn, Or!Called

LEMMA CountingType ==
    ASSUME Or!OffroadAssumption, calls \in 0 .. MaxCalls, Or!Counting
    PROVE  calls' \in 0 .. MaxCalls
BY DEF Or!OffroadAssumption, Or!Counting

LEMMA ClearsKeep ==
    ASSUME Or!OffroadAssumption, OrInv, Or!OrInit \/ Or!OrUnInit
    PROVE  OrInv'
<1>1. SoundsWhole' /\ SoundsCounted'
  BY AllFree DEF Or!OrInit, Or!OrUnInit
<1>2. ReadsOwn'
  <2>1. reading = {} /\ reading' = reading
    BY CalledReadsNothing DEF OrInv, Or!OrInit, Or!OrUnInit
  <2> QED BY <2>1 DEF ReadsOwn
<1>3. OthersTyped'
  <2>1. calls' \in 0 .. MaxCalls
    BY CountingType DEF OrInv, OthersTyped, Or!OrInit, Or!OrUnInit
  <2>2. ElapsedMax \in Nat
    BY DEF Or!OffroadAssumption
  <2>3. idle' \in 0 .. ElapsedMax /\ UNCHANGED <<mixer, loaded>>
    BY <2>2 DEF OrInv, OthersTyped, Or!OrInit, Or!OrUnInit
  <2> QED BY <2>1, <2>3 DEF OrInv, OthersTyped
<1> QED BY <1>1, <1>2, <1>3 DEF OrInv

LEMMA AllocateKeeps ==
    ASSUME Or!OffroadAssumption, OrInv, NEW a \in Attrs, Or!Allocate(a)
    PROVE  OrInv'
<1> DEFINE new == [Or!FreeVoice EXCEPT !.allocated = TRUE, !.sample = a.sample,
                      !.frames = LengthOf[a.sample], !.loops = a.loops,
                      !.point = a.point, !.rate = a.rate]
<1>1. PICK s \in Or!Slots : ~sound[s].allocated /\ sound' = [sound EXCEPT ![s] = new]
  BY DEF Or!Allocate
<1>2. /\ a.sample \in loaded /\ Or!Called /\ Or!Counting
      /\ allocated' = allocated + 1
      /\ UNCHANGED <<idle, mixer, reading, loaded>>
  BY DEF Or!Allocate
<1>3. /\ new \in Or!Voice /\ new.position <= new.frames /\ new.allocated
      /\ new.sample = a.sample /\ new.frames = LengthOf[a.sample]
  <2>1. /\ a \in [sample : Samples, loops : Nat, point : Nat, rate : Nat \ {0}]
        /\ LengthOf \in [Samples -> Nat \ {0}]
    BY DEF Or!OffroadAssumption
  <2>2. a.sample \in Samples /\ a.loops \in Nat /\ a.point \in Nat /\ a.rate \in Nat
        /\ LengthOf[a.sample] \in Nat
    BY <2>1
  <2>3. new.position = 0 /\ new.allocated /\ new.sample = a.sample
        /\ new.frames = LengthOf[a.sample]
    BY DEF Or!FreeVoice
  <2>4. new \in Or!Voice
    BY <2>2, FreeType DEF Or!Voice
  <2> HIDE DEF new
  <2> QED BY <2>2, <2>3, <2>4
<1> HIDE DEF new
<1>4. SoundsWhole'
  BY <1>1, <1>2, <1>3 DEF OrInv, SoundsWhole
<1>5. SoundsCounted'
  <2>1. Taken' = Taken \cup {s} /\ s \notin Taken
    BY <1>1, <1>3 DEF OrInv, SoundsWhole, Taken
  <2>2. Cardinality(Taken \cup {s}) = Cardinality(Taken) + 1
    BY <2>1, TakenFinite, FS_AddElement
  <2> QED BY <1>2, <2>1, <2>2 DEF OrInv, SoundsCounted
<1>6. ReadsOwn'
  BY <1>2, CalledReadsNothing DEF OrInv, ReadsOwn
<1>7. OthersTyped'
  BY <1>2, CountingType DEF OrInv, OthersTyped
<1> QED BY <1>4, <1>5, <1>6, <1>7 DEF OrInv

LEMMA DeallocateKeeps ==
    ASSUME Or!OffroadAssumption, OrInv, NEW s \in Or!Slots, Or!Deallocate(s)
    PROVE  OrInv'
<1>1. /\ Or!Called /\ Or!Counting /\ sound[s].allocated
      /\ sound' = [sound EXCEPT ![s] = Or!FreeVoice]
      /\ allocated' = allocated - 1
      /\ UNCHANGED <<idle, mixer, reading, loaded>>
  BY DEF Or!Deallocate
<1>2. SoundsWhole'
  BY <1>1, FreeType DEF OrInv, SoundsWhole
<1>3. SoundsCounted'
  <2>1. Taken' = Taken \ {s} /\ s \in Taken
    BY <1>1, FreeType DEF OrInv, SoundsWhole, Taken
  <2>2. Cardinality(Taken \ {s}) = Cardinality(Taken) - 1
    BY <2>1, TakenFinite, FS_RemoveElement
  <2> QED BY <1>1, <2>1, <2>2 DEF OrInv, SoundsCounted
<1>4. ReadsOwn'
  BY <1>1, CalledReadsNothing DEF OrInv, ReadsOwn
<1>5. OthersTyped'
  BY <1>1, CountingType DEF OrInv, OthersTyped
<1> QED BY <1>2, <1>3, <1>4, <1>5 DEF OrInv

LEMMA CatchUpClockType ==
    ASSUME Or!OffroadAssumption, idle \in 0 .. ElapsedMax, Or!CatchUpClock
    PROVE  idle' \in 0 .. ElapsedMax
<1>1. ElapsedMax \in Nat
  BY DEF Or!OffroadAssumption
<1> QED BY <1>1 DEF Or!CatchUpClock

LEMMA GetAttrKeeps ==
    ASSUME Or!OffroadAssumption, OrInv, Or!GetAttr
    PROVE  OrInv'
<1>1. /\ Or!Called /\ sound' = Or!CaughtUp /\ Or!CatchUpClock
      /\ UNCHANGED <<allocated, mixer, reading, loaded, calls>>
  BY DEF Or!GetAttr
<1>2. \A s \in Or!Slots : Stays(sound'[s], sound[s])
  BY <1>1, CatchUpStays DEF OrInv, OthersTyped
<1>3. sound' \in [Or!Slots -> Or!Voice]
  <2>1. sound' = [s \in Or!Slots |-> sound'[s]]
    BY <1>1 DEF Or!CaughtUp
  <2> QED BY <1>2, <2>1 DEF Stays
<1>4. SoundsWhole' /\ SoundsCounted'
  BY <1>1, <1>2, <1>3, VoicesStay DEF OrInv
<1>5. ReadsOwn'
  BY <1>1, CalledReadsNothing DEF OrInv, ReadsOwn
<1>6. OthersTyped'
  BY <1>1, CatchUpClockType DEF OrInv, OthersTyped
<1> QED BY <1>4, <1>5, <1>6 DEF OrInv

LEMMA SetAttrKeeps ==
    ASSUME Or!OffroadAssumption, OrInv, NEW s \in Or!Slots, NEW c \in Changes,
           Or!SetAttr(s, c)
    PROVE  OrInv'
<1>1. /\ Or!Called /\ Or!Counting /\ Or!CatchUpClock
      /\ sound' = [Or!CaughtUp EXCEPT ![s] = Or!SetTo(Or!CaughtUp[s], c)]
      /\ UNCHANGED <<allocated, mixer, reading, loaded>>
  BY DEF Or!SetAttr
<1>2. \A q \in Or!Slots : Stays(Or!CaughtUp[q], sound[q])
  BY CatchUpStays DEF OrInv, OthersTyped
<1>3. Stays(Or!SetTo(Or!CaughtUp[s], c), sound[s])
  <2> DEFINE u == Or!CaughtUp[s]
  <2>1. Stays(u, sound[s]) /\ u \in Or!Voice
    BY <1>2 DEF Stays
  <2> HIDE DEF u
  <2>2. Stays(Or!SetTo(u, c), u)
    BY <2>1, SetStays
  <2>3. Stays(Or!SetTo(u, c), sound[s])
    BY <2>1, <2>2, StaysOn
  <2> QED BY <2>3 DEF u
<1>4. /\ sound' = [q \in Or!Slots |-> sound'[q]]
      /\ \A q \in Or!Slots : sound'[q] = IF q = s THEN Or!SetTo(Or!CaughtUp[s], c)
                                         ELSE Or!CaughtUp[q]
  BY <1>1 DEF Or!CaughtUp
<1>5. \A q \in Or!Slots : Stays(sound'[q], sound[q])
  BY <1>2, <1>3, <1>4
<1>6. sound' \in [Or!Slots -> Or!Voice]
  BY <1>4, <1>5 DEF Stays
<1>7. SoundsWhole' /\ SoundsCounted'
  BY <1>1, <1>5, <1>6, VoicesStay DEF OrInv
<1>8. ReadsOwn'
  BY <1>1, CalledReadsNothing DEF OrInv, ReadsOwn
<1>9. OthersTyped'
  BY <1>1, CountingType, CatchUpClockType DEF OrInv, OthersTyped
<1> QED BY <1>7, <1>8, <1>9 DEF OrInv

\* The samples in memory, time, and the beginning and the end of a mix.
LEMMA MemoryKeeps ==
    ASSUME Or!OffroadAssumption, OrInv, NEW b \in Samples,
           Or!Unload(b) \/ Or!Load(b)
    PROVE  OrInv'
<1>1. /\ UNCHANGED <<sound, allocated, idle, mixer, reading>>
      /\ loaded' \subseteq Samples
      /\ calls' \in 0 .. MaxCalls
      /\ \A s \in Or!Slots : sound[s].sample \in loaded => sound[s].sample \in loaded'
  BY CountingType DEF OrInv, OthersTyped, Or!Unload, Or!Load
<1>2. SoundsWhole'
  BY <1>1 DEF OrInv, SoundsWhole
<1>3. SoundsCounted' /\ ReadsOwn'
  BY <1>1 DEF OrInv, SoundsCounted, Taken, ReadsOwn
<1>4. OthersTyped'
  BY <1>1 DEF OrInv, OthersTyped
<1> QED BY <1>2, <1>3, <1>4 DEF OrInv

LEMMA RestKeeps ==
    ASSUME Or!OffroadAssumption, OrInv,
           Or!MixStart \/ Or!MixEnd \/ Or!Elapse
    PROVE  OrInv'
<1>1. UNCHANGED <<sound, allocated, reading, loaded, calls>>
  BY DEF Or!MixStart, Or!MixEnd, Or!Elapse
<1>2. SoundsWhole' /\ SoundsCounted'
  BY <1>1 DEF OrInv, SoundsWhole, SoundsCounted, Taken
<1>3. ReadsOwn'
  <2>1. Or!MixStart \/ Or!MixEnd => reading = {}
    BY DEF OrInv, ReadsOwn, Or!MixStart, Or!MixEnd
  <2>2. Or!Elapse => UNCHANGED mixer
    BY DEF Or!Elapse
  <2> QED BY <1>1, <2>1, <2>2 DEF OrInv, ReadsOwn
<1>4. OthersTyped'
  <2>1. /\ ElapsedMax \in Nat /\ Block \in Nat /\ OrVoices \in Nat \ {0}
    BY DEF Or!OffroadAssumption
  <2>2. CASE Or!MixStart
    BY <1>1, <2>2 DEF OrInv, OthersTyped, Or!MixStart
  <2>3. CASE Or!MixEnd
    BY <1>1, <2>1, <2>3 DEF OrInv, OthersTyped, Or!MixEnd, Or!Idle
  <2>4. CASE Or!Elapse
    BY <1>1, <2>1, <2>4 DEF OrInv, OthersTyped, Or!Elapse
  <2> QED BY <2>2, <2>3, <2>4
<1> QED BY <1>2, <1>3, <1>4 DEF OrInv

\* The frame a playing voice is in and the one after it are in its sample.
LEMMA FramesInside ==
    ASSUME Or!OffroadAssumption, NEW v \in Or!Voice, v.frames # 0,
           v.cursor < Or!End(v)
    PROVE  LET at == v.cursor \div Sub
           IN  \A i \in {at, Or!FrameAfter(v, at)} : i < v.frames
<1> DEFINE at == v.cursor \div Sub
<1>1. v.cursor \in Nat /\ v.frames \in Nat /\ v.point \in Nat /\ Sub \in Nat \ {0}
  BY DEF Or!Voice, Or!OffroadAssumption
<1>2. v.cursor < v.frames * Sub
  BY DEF Or!End
<1>3. at \in Nat /\ at < v.frames
  BY <1>1, <1>2, FrameOf
<1> HIDE DEF at
<1>4. Or!LoopPoint(v) < v.frames
  BY <1>1 DEF Or!LoopPoint
<1>5. Or!FrameAfter(v, at) < v.frames
  BY <1>1, <1>3, <1>4 DEF Or!FrameAfter
<1> QED BY <1>3, <1>5 DEF at

LEMMA MixFrameKeeps ==
    ASSUME Or!OffroadAssumption, OrInv, Or!MixFrame
    PROVE  OrInv'
<1> DEFINE s == mixer.slot
           v == Or!NormalizeCursor(sound[s])
           at == v.cursor \div Sub
           u == Or!NormalizeCursor(Ahead(v, v.rate))
<1>1. /\ mixer.holds /\ s \in Or!Slots /\ mixer.left > 0 /\ v.playing
      /\ reading' = {<<v.sample, i>> : i \in {at, Or!FrameAfter(v, at)}}
      /\ sound' = [sound EXCEPT ![s] = u]
      /\ mixer' = [mixer EXCEPT !.left = @ - 1]
      /\ UNCHANGED <<allocated, idle, loaded, calls>>
  BY DEF Or!MixFrame, Ahead
<1>2. /\ sound \in [Or!Slots -> Or!Voice] /\ sound[s] \in Or!Voice
      /\ sound[s].position <= sound[s].frames
      /\ sound[s].allocated => sound[s].sample \in loaded
                               /\ sound[s].frames = LengthOf[sound[s].sample]
  BY <1>1 DEF OrInv, SoundsWhole
<1>3. /\ v \in Or!Voice /\ SameSound(v, sound[s]) /\ Stays(v, sound[s])
      /\ Or!Playable(sound[s]) /\ v.cursor < Or!End(v)
  BY <1>1, <1>2, NormalFacts, NormalStays
<1>4. Stays(u, sound[s])
  <2> HIDE DEF v
  <2>1. v.rate \in Nat
    BY <1>3 DEF Or!Voice
  <2>2. /\ Ahead(v, v.rate) \in Or!Voice /\ SameSound(Ahead(v, v.rate), v)
        /\ Ahead(v, v.rate).position = v.position
    BY <1>3, <2>1, AheadFields
  <2>3. Stays(Ahead(v, v.rate), v)
    BY <2>2 DEF Stays, SameSample, SameSound
  <2>4. Stays(u, Ahead(v, v.rate))
    BY <2>2, NormalStays
  <2> QED BY <1>3, <2>3, <2>4, StaysOn
<1>5. /\ v.frames # 0 /\ v.allocated /\ v.sample = sound[s].sample
      /\ v.frames = LengthOf[v.sample]
  BY <1>2, <1>3 DEF SameSound, Or!Playable
<1>6. \A i \in {at, Or!FrameAfter(v, at)} : i < LengthOf[v.sample]
  BY <1>3, <1>5, FramesInside
<1> HIDE DEF v, at, u
<1>7. /\ \A q \in Or!Slots : Stays(sound'[q], sound[q])
      /\ sound' \in [Or!Slots -> Or!Voice]
  <2>1. u \in Or!Voice
    BY <1>4 DEF Stays
  <2> QED BY <1>1, <1>2, <1>4, <2>1, WholeStays DEF OrInv
<1>8. SoundsWhole' /\ SoundsCounted'
  BY <1>1, <1>7, VoicesStay DEF OrInv
<1>9. ReadsOwn'
  <2>1. mixer'.holds /\ mixer'.slot = s
    BY <1>1 DEF OrInv, OthersTyped
  <2>2. sound'[s].allocated /\ sound'[s].sample = v.sample
    BY <1>1, <1>3, <1>5, <1>7 DEF Stays, SameSample, SameSound
  <2>3. ASSUME NEW r \in reading' PROVE r[1] = v.sample /\ r[2] < LengthOf[r[1]]
    BY <1>1, <1>6
  <2> HIDE DEF s
  <2> QED BY <1>1, <2>1, <2>2, <2>3 DEF ReadsOwn
<1>10. OthersTyped'
  <2>1. mixer' \in [holds : BOOLEAN, slot : 1 .. OrVoices + 1, left : 0 .. Block]
    <3>1. mixer.left - 1 \in 0 .. Block
      BY <1>1 DEF OrInv, OthersTyped, Or!OffroadAssumption
    <3> QED BY <1>1, <3>1 DEF OrInv, OthersTyped
  <2> QED BY <1>1, <2>1 DEF OrInv, OthersTyped
<1> QED BY <1>8, <1>9, <1>10 DEF OrInv

LEMMA MixNextKeeps ==
    ASSUME Or!OffroadAssumption, OrInv, Or!MixNext
    PROVE  OrInv'
<1> DEFINE s == mixer.slot
           u == Or!NormalizeCursor(sound[s])
<1>1. /\ s \in Or!Slots /\ reading' = {}
      /\ sound' = [sound EXCEPT ![s] = u]
      /\ mixer' = [mixer EXCEPT !.slot = s + 1, !.left = Block]
      /\ UNCHANGED <<allocated, idle, loaded, calls>>
  BY DEF Or!MixNext
<1>2. sound \in [Or!Slots -> Or!Voice] /\ Stays(u, sound[s])
  BY <1>1, NormalStays DEF OrInv, SoundsWhole
<1> HIDE DEF u
<1>3. /\ \A q \in Or!Slots : Stays(sound'[q], sound[q])
      /\ sound' \in [Or!Slots -> Or!Voice]
  <2>1. u \in Or!Voice
    BY <1>2 DEF Stays
  <2> QED BY <1>1, <1>2, <2>1, WholeStays DEF OrInv
<1>4. SoundsWhole' /\ SoundsCounted'
  BY <1>1, <1>3, VoicesStay DEF OrInv
<1>5. ReadsOwn'
  BY <1>1 DEF ReadsOwn
<1>6. OthersTyped'
  <2>1. s + 1 \in 1 .. OrVoices + 1 /\ Block \in 0 .. Block
    BY <1>1 DEF Or!Slots, Or!OffroadAssumption
  <2> QED BY <1>1, <2>1 DEF OrInv, OthersTyped
<1> QED BY <1>4, <1>5, <1>6 DEF OrInv

LEMMA OrStep == ASSUME Or!OffroadAssumption, OrInv, [Or!Next]_offroad PROVE OrInv'
<1>1. CASE UNCHANGED offroad
  BY <1>1 DEF offroad, OrInv, SoundsWhole, SoundsCounted, Taken, ReadsOwn,
              OthersTyped
<1>2. CASE Or!Next
  BY <1>2, ClearsKeep, AllocateKeeps, DeallocateKeeps, GetAttrKeeps,
     SetAttrKeeps, MemoryKeeps, RestKeeps, MixFrameKeeps, MixNextKeeps
     DEF Or!Next, Or!MixStep
<1> QED BY <1>1, <1>2

LEMMA OrPace == ASSUME Or!OffroadAssumption, OrInv PROVE Or!SamePace
<1> SUFFICES ASSUME NEW s \in Or!Slots, sound[s].playing,
                    NEW frames \in 1 .. ElapsedMax
             PROVE  Or!AdvanceBy[<<sound[s], frames>>] = Or!Mixed[<<sound[s], frames>>]
  BY DEF Or!SamePace
<1>1. sound[s] \in Or!Voice
  BY DEF OrInv, SoundsWhole
<1>2. frames \in Nat /\ frames # 0
  BY DEF Or!OffroadAssumption
<1> QED BY <1>1, <1>2, CaughtUpWhere, MixedWhere

\* However the game's calls, its changes of a voice under way and the comings
\* and goings of its samples fall between the frames of a mix, the render
\* thread reads only frames of a sample that is in memory (mix_voice,
\* or_Deallocate), and the voices' fields and their count are in order.
THEOREM OffroadReads == HostSpec => [](ReadsInside /\ Or!OffroadTypeOK)
<1>1. HostInit => OrInv
  BY HostAssumption, OrStart DEF HostInit
<1>2. OrInv /\ [HostNext]_hostVars => OrInv'
  BY HostAssumption, OffroadSteps, OrStep
<1>3. OrInv => ReadsInside /\ Or!OffroadTypeOK
  BY OrInvSays DEF ReadsInside
<1>4. QED BY <1>1, <1>2, <1>3, PTL DEF HostSpec

\* A voice the game catches up with its polls comes exactly to where the same
\* time of mixing takes it, whatever its loops, its rate, the traversals in
\* between and the chunks of the catch-up (advance_delta, mix_voice).
THEOREM OffroadPace == HostSpec => []SamePace
<1>1. HostInit => OrInv
  BY HostAssumption, OrStart DEF HostInit
<1>2. OrInv /\ [HostNext]_hostVars => OrInv'
  BY HostAssumption, OffroadSteps, OrStep
<1>3. OrInv => SamePace
  BY HostAssumption, OrPace DEF SamePace
<1>4. QED BY <1>1, <1>2, <1>3, PTL DEF HostSpec

-----------------------------------------------------------------------------
(* The ranges held out of the blend. *)

\* A set of natural numbers has a least member.
LEMMA LeastNat ==
    ASSUME NEW S, S \subseteq Nat, S # {} PROVE \E x \in S : \A y \in S : x <= y
<1>1. \E x \in S : \A y \in S : ~(<<y, x>> \in OpToRel(<, Nat))
  BY NatLessThanWellFounded, WFMin
<1>2. PICK x \in S : \A y \in S : ~(<<y, x>> \in OpToRel(<, Nat))
  BY <1>1
<1>3. \A y \in S : ~(y < x)
  BY <1>2 DEF OpToRel
<1>4. QED BY <1>3

\* Places of which every lower one is another are the first so many.
LEMMA FirstPlaces ==
    ASSUME NEW n \in Nat, NEW S, S \subseteq 1 .. n,
           \A j \in S, i \in 1 .. n : i < j => i \in S
    PROVE  \E m \in 0 .. n : S = 1 .. m
<1> DEFINE Out == {i \in 1 .. (n + 1) : i \notin S}
<1>1. n + 1 \in Out /\ Out \subseteq Nat
  OBVIOUS
<1>2. PICK x \in Out : \A y \in Out : x <= y
  BY <1>1, LeastNat
<1>3. x - 1 \in 0 .. n
  BY <1>2
<1>4. ASSUME NEW i \in S PROVE i \in 1 .. (x - 1)
  <2>1. i \in 1 .. n /\ x \in 1 .. (n + 1) /\ x \notin S
    BY <1>2, <1>4
  <2>2. ~(x < i)
    BY <1>4, <2>1
  <2>3. i # x
    BY <1>4, <2>1
  <2> QED BY <2>1, <2>2, <2>3
<1>5. ASSUME NEW i \in 1 .. (x - 1) PROVE i \in S
  <2>1. i \in 1 .. (n + 1) /\ ~(x <= i)
    BY <1>2, <1>5
  <2> QED BY <1>2, <2>1
<1>6. S = 1 .. (x - 1)
  BY <1>4, <1>5
<1> QED BY <1>3, <1>6

Stretch == Ex!ExRange
Ascending(s) == \A i, j \in 1 .. Len(s) : i < j => s[i].hi < s[j].lo

LEMMA StretchFields ==
    ASSUME Ex!ExcludeAssumption, NEW r \in Stretch
    PROVE  r.lo \in Nat /\ r.hi \in Nat /\ r.seen \in Nat
BY DEF Ex!ExcludeAssumption, Stretch, Ex!ExRange, Ex!Address

\* A sequence with a part of it replaced by one range, and with one taken out.
Splice(s, i, e, q) == SubSeq(s, 1, i) \o <<e>> \o SubSeq(s, q, Len(s))
Cut(s, q) == SubSeq(s, 1, q - 1) \o SubSeq(s, q + 1, Len(s))

LEMMA SplicePlaces ==
    ASSUME NEW s \in Seq(Stretch), NEW e \in Stretch, NEW i \in 0 .. Len(s),
           NEW q \in (i + 1) .. (Len(s) + 1)
    PROVE  LET w == Splice(s, i, e, q)
           IN  /\ w \in Seq(Stretch) /\ Len(w) = i + 1 + (Len(s) + 1 - q)
               /\ \A j \in 1 .. Len(w) :
                     w[j] = IF j <= i THEN s[j] ELSE IF j = i + 1 THEN e
                            ELSE s[q + (j - i - 2)]
<1> DEFINE n == Len(s)
           a == SubSeq(s, 1, i)
           b == SubSeq(s, q, n)
           c == a \o <<e>>
           w == Splice(s, i, e, q)
<1>1. n \in Nat /\ \A j \in 1 .. n : s[j] \in Stretch
  BY LenProperties, ElementOfSeq
<1>2. i \in Nat /\ q \in Nat /\ q >= 1 /\ i <= n /\ q <= n + 1 /\ i < q
  BY <1>1
<1> HIDE DEF n
<1>3. a \in Seq(Stretch) /\ Len(a) = i /\ \A j \in 1 .. i : a[j] = s[j]
  <2>1. \A j \in 1 .. i : s[j] \in Stretch
    BY <1>1, <1>2
  <2>2. /\ a \in Seq(Stretch) /\ Len(a) = IF 1 <= i THEN i - 1 + 1 ELSE 0
        /\ \A j \in 1 .. i - 1 + 1 : a[j] = s[1 + j - 1]
    BY <1>2, <2>1, SubSeqProperties
  <2> HIDE DEF a
  <2> QED BY <1>2, <2>2
<1>4. b \in Seq(Stretch) /\ Len(b) = n + 1 - q
      /\ \A j \in 1 .. (n + 1 - q) : b[j] = s[q + j - 1]
  <2>1. \A j \in q .. n : s[j] \in Stretch
    BY <1>1, <1>2
  <2>2. /\ b \in Seq(Stretch) /\ Len(b) = IF q <= n THEN n - q + 1 ELSE 0
        /\ \A j \in 1 .. n - q + 1 : b[j] = s[q + j - 1]
    BY <1>1, <1>2, <2>1, SubSeqProperties
  <2> HIDE DEF b
  <2> QED BY <1>1, <1>2, <2>2
<1>5. <<e>> \in Seq(Stretch) /\ Len(<<e>>) = 1 /\ <<e>>[1] = e
  OBVIOUS
<1>6. /\ c \in Seq(Stretch) /\ Len(c) = i + 1
      /\ \A j \in 1 .. (i + 1) : c[j] = IF j <= i THEN s[j] ELSE e
  <2>1. /\ c \in Seq(Stretch) /\ Len(c) = Len(a) + Len(<<e>>)
        /\ \A j \in 1 .. (Len(a) + Len(<<e>>)) :
              c[j] = IF j <= Len(a) THEN a[j] ELSE <<e>>[j - Len(a)]
    BY <1>3, <1>5, ConcatProperties
  <2> HIDE DEF a, c
  <2>2. ASSUME NEW j \in 1 .. (i + 1) PROVE c[j] = IF j <= i THEN s[j] ELSE e
    <3>1. CASE j <= i
      BY <1>2, <1>3, <1>5, <2>1, <3>1
    <3>2. CASE j = i + 1
      <4>1. c[j] = <<e>>[j - i] /\ j - i = 1
        BY <1>2, <1>3, <1>5, <2>1, <3>2
      <4> QED BY <1>2, <1>5, <3>2, <4>1
    <3> QED BY <1>2, <3>1, <3>2
  <2> QED BY <1>3, <1>5, <2>1, <2>2
<1>7. w = c \o b
  BY DEF Splice, n
<1>8. /\ w \in Seq(Stretch) /\ Len(w) = (i + 1) + (n + 1 - q)
      /\ \A j \in 1 .. ((i + 1) + (n + 1 - q)) :
            w[j] = IF j <= i + 1 THEN c[j] ELSE b[j - (i + 1)]
  <2> HIDE DEF c, b, w
  <2>1. /\ c \o b \in Seq(Stretch) /\ Len(c \o b) = Len(c) + Len(b)
        /\ \A j \in 1 .. (Len(c) + Len(b)) :
              (c \o b)[j] = IF j <= Len(c) THEN c[j] ELSE b[j - Len(c)]
    BY <1>4, <1>6, ConcatProperties
  <2> QED BY <1>4, <1>6, <1>7, <2>1
<1>9. ASSUME NEW j \in 1 .. ((i + 1) + (n + 1 - q))
      PROVE  w[j] = IF j <= i THEN s[j] ELSE IF j = i + 1 THEN e
                    ELSE s[q + (j - i - 2)]
  <2> HIDE DEF w, b, c
  <2>1. CASE j <= i + 1
    BY <1>2, <1>6, <1>8, <2>1
  <2>2. CASE j > i + 1
    <3> DEFINE l == j - (i + 1)
    <3>1. l \in 1 .. (n + 1 - q) /\ q + l - 1 = q + (j - i - 2)
      BY <1>1, <1>2, <2>2
    <3>2. w[j] = b[l]
      BY <1>2, <1>8, <2>2
    <3>3. b[l] = s[q + l - 1]
      BY <1>4, <3>1
    <3> HIDE DEF l
    <3>4. w[j] = s[q + (j - i - 2)]
      BY <3>1, <3>2, <3>3
    <3> QED BY <1>2, <2>2, <3>4
  <2> QED BY <1>2, <2>1, <2>2
<1> HIDE DEF w, a, b, c
<1>10. Len(w) = i + 1 + (n + 1 - q)
  BY <1>1, <1>2, <1>8
<1> QED BY <1>8, <1>9, <1>10 DEF w, n

LEMMA CutPlaces ==
    ASSUME NEW s \in Seq(Stretch), NEW q \in 1 .. Len(s)
    PROVE  LET w == Cut(s, q)
           IN  /\ w \in Seq(Stretch) /\ Len(w) = Len(s) - 1
               /\ \A j \in 1 .. Len(w) : w[j] = IF j < q THEN s[j] ELSE s[j + 1]
<1> DEFINE n == Len(s)
           a == SubSeq(s, 1, q - 1)
           b == SubSeq(s, q + 1, n)
           w == Cut(s, q)
<1>1. n \in Nat /\ \A j \in 1 .. n : s[j] \in Stretch
  BY LenProperties, ElementOfSeq
<1>2. q \in Nat /\ 1 <= q /\ q <= n
  BY <1>1
<1> HIDE DEF n
<1>3. a \in Seq(Stretch) /\ Len(a) = q - 1 /\ \A j \in 1 .. (q - 1) : a[j] = s[j]
  <2>1. \A j \in 1 .. (q - 1) : s[j] \in Stretch
    BY <1>1, <1>2
  <2>2. /\ a \in Seq(Stretch) /\ Len(a) = IF 1 <= q - 1 THEN (q - 1) - 1 + 1 ELSE 0
        /\ \A j \in 1 .. (q - 1) - 1 + 1 : a[j] = s[1 + j - 1]
    BY <1>2, <2>1, SubSeqProperties
  <2> HIDE DEF a
  <2> QED BY <1>2, <2>2
<1>4. b \in Seq(Stretch) /\ Len(b) = n - q
      /\ \A j \in 1 .. (n - q) : b[j] = s[q + j]
  <2>1. \A j \in (q + 1) .. n : s[j] \in Stretch
    BY <1>1, <1>2
  <2>2. /\ b \in Seq(Stretch) /\ Len(b) = IF q + 1 <= n THEN n - (q + 1) + 1 ELSE 0
        /\ \A j \in 1 .. n - (q + 1) + 1 : b[j] = s[(q + 1) + j - 1]
    BY <1>1, <1>2, <2>1, SubSeqProperties
  <2> HIDE DEF b
  <2>3. ASSUME NEW j \in 1 .. (n - q) PROVE b[j] = s[q + j]
    <3>1. (q + 1) + j - 1 = q + j /\ j \in 1 .. n - (q + 1) + 1
      BY <1>1, <1>2
    <3>2. b[j] = s[(q + 1) + j - 1]
      BY <2>2, <3>1
    <3> QED BY <3>1, <3>2
  <2> QED BY <1>1, <1>2, <2>2, <2>3
<1>5. w = a \o b
  BY DEF Cut, n
<1> HIDE DEF a, b, w
<1>6. /\ w \in Seq(Stretch) /\ Len(w) = n - 1
      /\ \A j \in 1 .. (n - 1) :
            w[j] = IF j <= q - 1 THEN a[j] ELSE b[j - (q - 1)]
  <2>1. /\ a \o b \in Seq(Stretch) /\ Len(a \o b) = Len(a) + Len(b)
        /\ \A j \in 1 .. (Len(a) + Len(b)) :
              (a \o b)[j] = IF j <= Len(a) THEN a[j] ELSE b[j - Len(a)]
    BY <1>3, <1>4, ConcatProperties
  <2>2. Len(a) + Len(b) = n - 1
    BY <1>1, <1>2, <1>3, <1>4
  <2> QED BY <1>3, <1>5, <2>1, <2>2
<1>7. ASSUME NEW j \in 1 .. (n - 1) PROVE w[j] = IF j < q THEN s[j] ELSE s[j + 1]
  <2>1. CASE j < q
    BY <1>2, <1>3, <1>6, <2>1
  <2>2. CASE ~(j < q)
    <3>1. j - (q - 1) \in 1 .. (n - q) /\ q + (j - (q - 1)) = j + 1
      BY <1>1, <1>2, <2>2
    <3>2. w[j] = b[j - (q - 1)]
      BY <1>2, <1>6, <2>2
    <3>3. b[j - (q - 1)] = s[q + (j - (q - 1))]
      BY <1>4, <3>1
    <3> QED BY <2>2, <3>1, <3>2, <3>3
  <2> QED BY <2>1, <2>2
<1> QED BY <1>6, <1>7 DEF w, n

LEMMA SpliceAscends ==
    ASSUME NEW s \in Seq(Stretch), NEW e \in Stretch, NEW i \in 0 .. Len(s),
           NEW q \in (i + 1) .. (Len(s) + 1), Ascending(s),
           \A j \in 1 .. i : s[j].hi < e.lo,
           \A j \in q .. Len(s) : e.hi < s[j].lo
    PROVE  Ascending(Splice(s, i, e, q))
<1> DEFINE w == Splice(s, i, e, q)
           n == Len(s)
           at(j) == q + (j - i - 2)
<1>1. n \in Nat
  BY LenProperties
<1> HIDE DEF n
<1>2. i \in 0 .. n /\ q \in (i + 1) .. (n + 1) /\ i \in Nat /\ q \in Nat
  BY <1>1 DEF n
<1>3. /\ Len(w) = i + 1 + (n + 1 - q)
      /\ \A j \in 1 .. Len(w) :
            w[j] = IF j <= i THEN s[j] ELSE IF j = i + 1 THEN e ELSE s[at(j)]
  BY SplicePlaces DEF n
<1> HIDE DEF w
<1>4. \A j \in 1 .. Len(w) : j > i + 1 => at(j) \in q .. n
  BY <1>1, <1>2, <1>3
<1>5. \A j, l \in 1 .. Len(w) : i + 1 < j /\ j < l => at(j) < at(l)
  BY <1>1, <1>2, <1>3
<1>6. \A j \in q .. n : j \in 1 .. n /\ i < j
  BY <1>1, <1>2
<1> HIDE DEF at
<1>7. SUFFICES ASSUME NEW j \in 1 .. Len(w), NEW l \in 1 .. Len(w), j < l
               PROVE  w[j].hi < w[l].lo
  BY DEF Ascending, w
<1>8. CASE l <= i
  <2>1. w[j] = s[j] /\ w[l] = s[l] /\ j \in 1 .. n /\ l \in 1 .. n
    BY <1>1, <1>2, <1>3, <1>7, <1>8
  <2> QED BY <1>7, <2>1 DEF Ascending, n
<1>9. CASE j <= i /\ l = i + 1
  BY <1>2, <1>3, <1>9
<1>10. CASE j <= i /\ l > i + 1
  <2>1. w[j] = s[j] /\ w[l] = s[at(l)] /\ at(l) \in q .. n
    BY <1>2, <1>3, <1>4, <1>10
  <2>2. j \in 1 .. n /\ at(l) \in 1 .. n /\ j < at(l)
    BY <1>1, <1>2, <1>6, <1>10, <2>1
  <2> QED BY <2>1, <2>2 DEF Ascending, n
<1>11. CASE j = i + 1 /\ l > i + 1
  <2>1. w[j] = e /\ w[l] = s[at(l)] /\ at(l) \in q .. n
    BY <1>2, <1>3, <1>4, <1>11
  <2> QED BY <2>1 DEF n
<1>12. CASE j > i + 1
  <2>1. l > i + 1
    BY <1>2, <1>7, <1>12
  <2>2. /\ w[j] = s[at(j)] /\ w[l] = s[at(l)]
        /\ at(j) \in q .. n /\ at(l) \in q .. n
    BY <1>2, <1>3, <1>4, <1>12, <2>1
  <2>3. at(j) \in 1 .. n /\ at(l) \in 1 .. n /\ at(j) < at(l)
    BY <1>5, <1>6, <1>7, <1>12, <2>2
  <2> QED BY <2>2, <2>3 DEF Ascending, n
<1> QED BY <1>2, <1>7, <1>8, <1>9, <1>10, <1>11, <1>12

\* w has e and the ranges of s that are not between i and q, and no others.
Spliced(w, s, i, e, q) ==
    /\ \A j \in 1 .. Len(w) :
          w[j] = e \/ \E l \in 1 .. Len(s) : (l <= i \/ l >= q) /\ w[j] = s[l]
    /\ \E j \in 1 .. Len(w) : w[j] = e
    /\ \A l \in 1 .. Len(s) :
          l <= i \/ l >= q => \E j \in 1 .. Len(w) : w[j] = s[l]

LEMMA SpliceHas ==
    ASSUME NEW s \in Seq(Stretch), NEW e \in Stretch, NEW i \in 0 .. Len(s),
           NEW q \in (i + 1) .. (Len(s) + 1)
    PROVE  Spliced(Splice(s, i, e, q), s, i, e, q)
<1> DEFINE n == Len(s)
           w == Splice(s, i, e, q)
           at(j) == q + (j - i - 2)
<1>1. n \in Nat
  BY LenProperties
<1> HIDE DEF n
<1>2. i \in 0 .. n /\ q \in (i + 1) .. (n + 1) /\ i \in Nat /\ q \in Nat
  BY <1>1 DEF n
<1>3. /\ Len(w) = i + 1 + (n + 1 - q)
      /\ \A j \in 1 .. Len(w) :
            w[j] = IF j <= i THEN s[j] ELSE IF j = i + 1 THEN e ELSE s[at(j)]
  BY SplicePlaces DEF n
<1> HIDE DEF w
<1>4. ASSUME NEW j \in 1 .. Len(w)
      PROVE  w[j] = e \/ \E l \in 1 .. n : (l <= i \/ l >= q) /\ w[j] = s[l]
  <2>1. j <= i => j \in 1 .. n
    BY <1>1, <1>2, <1>3
  <2>2. j > i + 1 => at(j) \in 1 .. n /\ at(j) >= q
    BY <1>1, <1>2, <1>3
  <2> HIDE DEF at
  <2>3. j <= i \/ j = i + 1 \/ j > i + 1
    BY <1>2
  <2> QED BY <1>2, <1>3, <2>1, <2>2, <2>3
<1>5. i + 1 \in 1 .. Len(w) /\ w[i + 1] = e
  <2>1. i + 1 \in 1 .. Len(w) /\ ~(i + 1 <= i)
    BY <1>1, <1>2, <1>3
  <2> QED BY <1>3, <2>1
<1>6. ASSUME NEW l \in 1 .. n, l <= i \/ l >= q
      PROVE  \E j \in 1 .. Len(w) : w[j] = s[l]
  <2>1. CASE l <= i
    <3>1. l \in 1 .. Len(w)
      BY <1>1, <1>2, <1>3, <2>1
    <3> QED BY <1>3, <2>1, <3>1
  <2>2. CASE l >= q
    <3> DEFINE j == l - q + i + 2
    <3>1. j \in 1 .. Len(w) /\ ~(j <= i) /\ j # i + 1 /\ at(j) = l
      BY <1>1, <1>2, <1>3, <2>2
    <3> HIDE DEF j, at
    <3> QED BY <1>3, <3>1
  <2> QED BY <1>6, <2>1, <2>2
<1> QED BY <1>4, <1>5, <1>6 DEF Spliced, w, n

LEMMA CutKeeps ==
    ASSUME NEW s \in Seq(Stretch), NEW q \in 1 .. Len(s), Ascending(s)
    PROVE  LET w == Cut(s, q)
           IN  /\ Ascending(w)
               /\ \A j \in 1 .. Len(w) : \E l \in 1 .. Len(s) : l # q /\ w[j] = s[l]
               /\ \A l \in 1 .. Len(s) :
                     l # q => \E j \in 1 .. Len(w) : w[j] = s[l]
<1> DEFINE w == Cut(s, q)
           n == Len(s)
           at(j) == IF j < q THEN j ELSE j + 1
<1>1. n \in Nat
  BY LenProperties
<1> HIDE DEF n
<1>2. q \in 1 .. n /\ q \in Nat
  BY <1>1 DEF n
<1>3. Len(w) = n - 1 /\ \A j \in 1 .. Len(w) : w[j] = s[at(j)]
  BY CutPlaces DEF n
<1> HIDE DEF w
<1>4. \A j \in 1 .. Len(w) : at(j) \in 1 .. n /\ at(j) # q
  BY <1>1, <1>2, <1>3
<1>5. \A j, l \in 1 .. Len(w) : j < l => at(j) < at(l)
  BY <1>1, <1>2, <1>3
<1>6. ASSUME NEW l \in 1 .. n, l # q PROVE \E j \in 1 .. Len(w) : w[j] = s[l]
  <2> DEFINE j == IF l < q THEN l ELSE l - 1
  <2>1. j \in 1 .. Len(w) /\ at(j) = l
    BY <1>1, <1>2, <1>3, <1>6
  <2> HIDE DEF j, at
  <2> QED BY <1>3, <2>1
<1> HIDE DEF at
<1>7. Ascending(w)
  BY <1>3, <1>4, <1>5 DEF Ascending, n
<1>8. \A j \in 1 .. Len(w) : \E l \in 1 .. n : l # q /\ w[j] = s[l]
  BY <1>3, <1>4
<1> QED BY <1>6, <1>7, <1>8 DEF w, n

\* A turn of the search, and of the loop that forgets.
LEMMA SearchTurn ==
    ASSUME Ex!ExcludeAssumption, NEW a \in Ex!Address, NEW l \in 0 .. ExMax,
           NEW h \in 0 .. ExMax
    PROVE  LET m == (l + h) \div 2
           IN  Ex!SearchFrom[<<a, l, h>>] =
                   IF l >= h THEN FALSE
                   ELSE IF a < ex[m + 1].lo THEN Ex!SearchFrom[<<a, l, m>>]
                   ELSE IF a >= ex[m + 1].hi THEN Ex!SearchFrom[<<a, m + 1, h>>]
                   ELSE TRUE
<1> DEFINE D == Ex!Address \X (0 .. ExMax) \X (0 .. ExMax)
           mid(c) == (c[2] + c[3]) \div 2
           low(c) == c[1] < ex[mid(c) + 1].lo
           high(c) == c[1] >= ex[mid(c) + 1].hi
           T == {c \in D : c[2] >= c[3] \/ ~(low(c) \/ high(c))}
           out == [c \in D |-> IF c[2] >= c[3] THEN FALSE ELSE TRUE]
           next(c) == IF low(c) THEN <<c[1], c[2], mid(c)>>
                      ELSE <<c[1], mid(c) + 1, c[3]>>
           step == [c \in D |-> IF c \in T THEN c ELSE next(c)]
           G(g) == [c \in Ex!Address \X (0 .. ExMax) \X (0 .. ExMax) |->
                       LET b == c[1]
                           lo == c[2]
                           hi == c[3]
                           m == (lo + hi) \div 2
                       IN  IF lo >= hi THEN FALSE
                           ELSE IF b < ex[m + 1].lo THEN g[<<b, lo, m>>]
                           ELSE IF b >= ex[m + 1].hi THEN g[<<b, m + 1, hi>>]
                           ELSE TRUE]
<1>1. ASSUME NEW c \in D, c \notin T PROVE next(c) \in D
  <2>1. /\ c[1] \in Ex!Address /\ c[2] \in 0 .. ExMax /\ c[3] \in 0 .. ExMax
        /\ ~(c[2] >= c[3])
    <3> HIDE DEF low, high, next, mid
    <3> QED BY <1>1
  <2>2. ExMax \in Nat
    BY DEF Ex!ExcludeAssumption
  <2>3. mid(c) \in 0 .. ExMax /\ mid(c) + 1 \in 0 .. ExMax
    BY <2>1, <2>2
  <2> HIDE DEF mid, low
  <2> QED BY <2>1, <2>3
<1>2. step \in [D -> D]
  BY <1>1
<1> HIDE DEF step, T, out, next, low, high, mid, D, G
<1>3. \E g : Repeats(g, D, step, T, out)
  BY <1>2, RepeatExists
<1>4. PICK f : Repeats(f, D, step, T, out)
  BY <1>3
<1>5. ASSUME NEW g
      PROVE  G(g) = [c \in D |-> IF c[2] >= c[3] THEN FALSE
                                 ELSE IF low(c) THEN g[<<c[1], c[2], mid(c)>>]
                                 ELSE IF high(c) THEN g[<<c[1], mid(c) + 1, c[3]>>]
                                 ELSE TRUE]
  BY DEF G, D, low, high, mid
<1>6. f = G(f)
  <2>1. f = [c \in D |-> IF c \in T THEN out[c] ELSE f[step[c]]]
    BY <1>4 DEF Repeats
  <2>2. ASSUME NEW c \in D
        PROVE  (IF c \in T THEN out[c] ELSE f[step[c]]) =
                   IF c[2] >= c[3] THEN FALSE
                   ELSE IF low(c) THEN f[<<c[1], c[2], mid(c)>>]
                   ELSE IF high(c) THEN f[<<c[1], mid(c) + 1, c[3]>>]
                   ELSE TRUE
    <3>1. CASE c[2] >= c[3]
      <4>1. c \in T /\ out[c] = FALSE
        BY <3>1 DEF T, out
      <4> QED BY <3>1, <4>1
    <3>2. CASE ~(c[2] >= c[3]) /\ (low(c) \/ high(c))
      <4>1. c \notin T /\ step[c] = next(c)
        BY <3>2 DEF T, step
      <4>2. next(c) = IF low(c) THEN <<c[1], c[2], mid(c)>>
                      ELSE <<c[1], mid(c) + 1, c[3]>>
        BY DEF next
      <4> QED BY <3>2, <4>1, <4>2
    <3>3. CASE ~(c[2] >= c[3]) /\ ~low(c) /\ ~high(c)
      <4>1. c \in T /\ out[c] = TRUE
        BY <3>3 DEF T, out
      <4> QED BY <3>3, <4>1
    <3> QED BY <3>1, <3>2, <3>3
  <2> QED BY <1>5, <2>1, <2>2
<1>7. Ex!SearchFrom = CHOOSE g : g = G(g)
  BY DEF Ex!SearchFrom, G
<1>8. Ex!SearchFrom = G(Ex!SearchFrom)
  BY <1>6, <1>7
<1> DEFINE c == <<a, l, h>>
<1>9. c \in D /\ c[1] = a /\ c[2] = l /\ c[3] = h
  BY DEF D
<1>10. Ex!SearchFrom[c] = IF c[2] >= c[3] THEN FALSE
                          ELSE IF low(c) THEN Ex!SearchFrom[<<c[1], c[2], mid(c)>>]
                          ELSE IF high(c) THEN Ex!SearchFrom[<<c[1], mid(c) + 1, c[3]>>]
                          ELSE TRUE
  <2> HIDE DEF c
  <2> QED BY <1>5, <1>8, <1>9
<1> HIDE DEF c
<1>11. /\ mid(c) = (l + h) \div 2
       /\ low(c) = (a < ex[(l + h) \div 2 + 1].lo)
       /\ high(c) = (a >= ex[(l + h) \div 2 + 1].hi)
  BY <1>9 DEF mid, low, high
<1> QED BY <1>9, <1>10, <1>11 DEF c

Lasts(r) == exNow + 1 - r.seen <= ExTtl
LEMMA KeptTurn ==
    ASSUME Ex!ExcludeAssumption, ex \in Seq(Stretch), Len(ex) <= ExMax,
           NEW i \in 1 .. (ExMax + 1), NEW s \in Seq(Stretch)
    PROVE  Ex!KeptFrom[<<i, s>>] =
               IF i > Len(ex) THEN s
               ELSE IF Lasts(ex[i]) THEN Ex!KeptFrom[<<i + 1, Append(s, ex[i])>>]
               ELSE Ex!KeptFrom[<<i + 1, s>>]
<1> DEFINE D == (1 .. ExMax + 1) \X Seq(Ex!ExRange)
           T == {c \in D : c[1] > Len(ex)}
           out == [c \in D |-> c[2]]
           next(c) == <<c[1] + 1, IF Lasts(ex[c[1]]) THEN Append(c[2], ex[c[1]])
                                  ELSE c[2]>>
           step == [c \in D |-> IF c \in T THEN c ELSE next(c)]
           G(g) == [c \in (1 .. ExMax + 1) \X Seq(Ex!ExRange) |->
                       LET at == c[1]
                           kept == c[2]
                       IN  IF at > Len(ex) THEN kept
                           ELSE IF exNow + 1 - ex[at].seen <= ExTtl
                           THEN g[<<at + 1, Append(kept, ex[at])>>]
                           ELSE g[<<at + 1, kept>>]]
<1>1. ASSUME NEW c \in D, c \notin T PROVE next(c) \in D
  <2>1. c[1] \in 1 .. ExMax + 1 /\ c[2] \in Seq(Ex!ExRange) /\ ~(c[1] > Len(ex))
    BY <1>1
  <2>2. ExMax \in Nat /\ Len(ex) \in Nat
    BY LenProperties DEF Ex!ExcludeAssumption
  <2>3. c[1] \in 1 .. Len(ex) /\ c[1] + 1 \in 1 .. ExMax + 1
    BY <2>1, <2>2
  <2>4. ex[c[1]] \in Ex!ExRange
    BY <2>3, ElementOfSeq DEF Stretch
  <2>5. Append(c[2], ex[c[1]]) \in Seq(Ex!ExRange)
    BY <2>1, <2>4, AppendProperties
  <2> QED BY <2>1, <2>3, <2>5
<1>2. step \in [D -> D]
  BY <1>1
<1> HIDE DEF step, T, out, next, D, G
<1>3. \E g : Repeats(g, D, step, T, out)
  BY <1>2, RepeatExists
<1>4. PICK f : Repeats(f, D, step, T, out)
  BY <1>3
<1>5. ASSUME NEW g
      PROVE  G(g) = [c \in D |-> IF c[1] > Len(ex) THEN c[2]
                                 ELSE IF Lasts(ex[c[1]])
                                 THEN g[<<c[1] + 1, Append(c[2], ex[c[1]])>>]
                                 ELSE g[<<c[1] + 1, c[2]>>]]
  BY DEF G, D, Lasts
<1>6. f = G(f)
  <2>1. f = [c \in D |-> IF c \in T THEN out[c] ELSE f[step[c]]]
    BY <1>4 DEF Repeats
  <2>2. ASSUME NEW c \in D
        PROVE  (IF c \in T THEN out[c] ELSE f[step[c]]) =
                   IF c[1] > Len(ex) THEN c[2]
                   ELSE IF Lasts(ex[c[1]])
                   THEN f[<<c[1] + 1, Append(c[2], ex[c[1]])>>]
                   ELSE f[<<c[1] + 1, c[2]>>]
    BY DEF step, T, out, next
  <2> QED BY <1>5, <2>1, <2>2
<1>7. Ex!KeptFrom = CHOOSE g : g = G(g)
  BY DEF Ex!KeptFrom, G
<1>8. Ex!KeptFrom = G(Ex!KeptFrom)
  BY <1>6, <1>7
<1> DEFINE c == <<i, s>>
<1>9. c \in D /\ c[1] = i /\ c[2] = s
  BY DEF D, Stretch
<1> HIDE DEF c
<1>10. Ex!KeptFrom[c] = IF c[1] > Len(ex) THEN c[2]
                        ELSE IF Lasts(ex[c[1]])
                        THEN Ex!KeptFrom[<<c[1] + 1, Append(c[2], ex[c[1]])>>]
                        ELSE Ex!KeptFrom[<<c[1] + 1, c[2]>>]
  BY <1>5, <1>8, <1>9
<1> QED BY <1>9, <1>10 DEF c

\* The ranges are apart and in order; what was stepped of late is in one that
\* was written since, and what is in one was stepped.
RangesApart ==
    /\ ex \in Seq(Stretch) /\ Len(ex) <= ExMax /\ Ascending(ex)
    /\ \A j \in 1 .. Len(ex) : ex[j].lo < ex[j].hi /\ ex[j].seen <= exNow
RangesTell ==
    /\ \A a \in Ex!Address :
          stepped[a] # -1 /\ exNow - stepped[a] <= ExTtl =>
              \E j \in 1 .. Len(ex) : a \in Ex!Spans(ex[j]) /\ ex[j].seen >= stepped[a]
    /\ \A j \in 1 .. Len(ex) : \A a \in Ex!Spans(ex[j]) : stepped[a] # -1
RangesTyped ==
    /\ exNow \in 0 .. LastExpiry
    /\ stepped \in [Ex!Address -> -1 .. LastExpiry]
    /\ \A a \in Ex!Address : stepped[a] <= exNow
ExInv == RangesApart /\ RangesTell /\ RangesTyped

\* What halving finds: a range between the two places that has the address.
LEMMA SearchFinds ==
    ASSUME Ex!ExcludeAssumption, RangesApart, NEW a \in Ex!Address
    PROVE  Ex!Search(a) <=> \E j \in 1 .. Len(ex) : a \in Ex!Spans(ex[j])
<1> DEFINE n == Len(ex)
           Has(l, h) == \E j \in (l + 1) .. h : a \in Ex!Spans(ex[j])
           D == {c \in (0 .. n) \X (0 .. n) : TRUE}
           size == [c \in D |-> IF c[1] < c[2] THEN c[2] - c[1] ELSE 0]
           P == {c \in D : Ex!SearchFrom[<<a, c[1], c[2]>>] <=> Has(c[1], c[2])}
<1>1. n \in Nat /\ n <= ExMax /\ ExMax \in Nat /\ a \in Nat
  BY LenProperties DEF RangesApart, Ex!ExcludeAssumption, Ex!Address
<1>2. ASSUME NEW j \in 1 .. n
      PROVE  /\ ex[j] \in Stretch /\ ex[j].lo \in Nat /\ ex[j].hi \in Nat
             /\ ex[j].lo < ex[j].hi
             /\ a \in Ex!Spans(ex[j]) <=> ex[j].lo <= a /\ a < ex[j].hi
  <2>1. ex[j] \in Stretch /\ ex[j].lo < ex[j].hi
    BY ElementOfSeq DEF RangesApart
  <2>2. ex[j].lo \in Nat /\ ex[j].hi \in Nat
    BY <2>1, StretchFields
  <2> QED BY <1>1, <2>1, <2>2 DEF Ex!Spans
<1>3. \A i, j \in 1 .. n : i < j => ex[i].hi < ex[j].lo
  BY DEF RangesApart, Ascending
<1> HIDE DEF n
<1>4. ASSUME NEW l \in 0 .. n, NEW h \in 0 .. n,
             \A p, q \in 0 .. n :
                 (IF p < q THEN q - p ELSE 0) < (IF l < h THEN h - l ELSE 0)
                     => (Ex!SearchFrom[<<a, p, q>>] <=> Has(p, q))
      PROVE  Ex!SearchFrom[<<a, l, h>>] <=> Has(l, h)
  <2> DEFINE m == (l + h) \div 2
  <2>1. l \in 0 .. ExMax /\ h \in 0 .. ExMax
    BY <1>1
  <2>2. Ex!SearchFrom[<<a, l, h>>] =
            IF l >= h THEN FALSE
            ELSE IF a < ex[m + 1].lo THEN Ex!SearchFrom[<<a, l, m>>]
            ELSE IF a >= ex[m + 1].hi THEN Ex!SearchFrom[<<a, m + 1, h>>]
            ELSE TRUE
    BY <2>1, SearchTurn
  <2>3. CASE l >= h
    BY <1>1, <2>2, <2>3
  <2>4. CASE l < h
    <3>1. /\ m \in 0 .. n /\ m + 1 \in 1 .. n /\ m + 1 \in 0 .. n
          /\ l <= m /\ m < h
      BY <1>1, <2>4
    <3> HIDE DEF m
    <3>6. ~(l >= h)
      BY <1>1, <2>4
    <3>2. /\ ex[m + 1].lo \in Nat /\ ex[m + 1].hi \in Nat
          /\ ex[m + 1].lo < ex[m + 1].hi
          /\ a \in Ex!Spans(ex[m + 1]) <=> ex[m + 1].lo <= a /\ a < ex[m + 1].hi
      BY <1>2, <3>1
    <3>3. CASE a < ex[m + 1].lo
      <4>1. Ex!SearchFrom[<<a, l, h>>] = Ex!SearchFrom[<<a, l, m>>]
        BY <2>2, <3>3, <3>6
      <4>2. Ex!SearchFrom[<<a, l, m>>] <=> Has(l, m)
        <5>1. (IF l < m THEN m - l ELSE 0) < (IF l < h THEN h - l ELSE 0)
          BY <1>1, <2>4, <3>1
        <5> HIDE DEF Has
        <5> QED BY <1>4, <3>1, <5>1
      <4>3. ASSUME NEW j \in (m + 1) .. h PROVE a \notin Ex!Spans(ex[j])
        <5>1. j \in 1 .. n /\ (j = m + 1 \/ m + 1 < j)
          BY <1>1, <3>1
        <5>2. ex[m + 1].lo <= ex[j].lo
          <6>1. ex[j].lo \in Nat
            BY <1>2, <5>1
          <6>2. m + 1 < j => ex[m + 1].hi < ex[j].lo
            BY <1>3, <3>1, <5>1
          <6> QED BY <3>2, <5>1, <6>1, <6>2
        <5>3. ex[j].lo \in Nat /\ (a \in Ex!Spans(ex[j]) => ex[j].lo <= a)
          BY <1>2, <5>1
        <5> QED BY <1>1, <3>2, <3>3, <5>2, <5>3
      <4>4. Has(l, m) <=> Has(l, h)
        <5>1. ASSUME NEW j \in (l + 1) .. h PROVE j \in (l + 1) .. m \/ j \in (m + 1) .. h
          BY <1>1, <3>1
        <5>2. ASSUME NEW j \in (l + 1) .. m PROVE j \in (l + 1) .. h
          BY <1>1, <3>1
        <5> QED BY <4>3, <5>1, <5>2
      <4> HIDE DEF Has
      <4> QED BY <4>1, <4>2, <4>4
    <3>4. CASE ~(a < ex[m + 1].lo) /\ a >= ex[m + 1].hi
      <4>1. Ex!SearchFrom[<<a, l, h>>] = Ex!SearchFrom[<<a, m + 1, h>>]
        BY <2>2, <3>4, <3>6
      <4>2. Ex!SearchFrom[<<a, m + 1, h>>] <=> Has(m + 1, h)
        <5>1. (IF m + 1 < h THEN h - (m + 1) ELSE 0) < (IF l < h THEN h - l ELSE 0)
          BY <1>1, <2>4, <3>1
        <5> HIDE DEF Has
        <5> QED BY <1>4, <3>1, <5>1
      <4>3. ASSUME NEW j \in (l + 1) .. (m + 1) PROVE a \notin Ex!Spans(ex[j])
        <5>1. j \in 1 .. n /\ (j = m + 1 \/ j < m + 1)
          BY <1>1, <3>1
        <5>2. ex[j].hi <= ex[m + 1].hi
          <6>1. ex[j].hi \in Nat
            BY <1>2, <5>1
          <6>2. j < m + 1 => ex[j].hi < ex[m + 1].lo
            BY <1>3, <3>1, <5>1
          <6> QED BY <3>2, <5>1, <6>1, <6>2
        <5>3. ex[j].hi \in Nat /\ (a \in Ex!Spans(ex[j]) => a < ex[j].hi)
          BY <1>2, <5>1
        <5> QED BY <1>1, <3>2, <3>4, <5>2, <5>3
      <4>4. Has(m + 1, h) <=> Has(l, h)
        <5>1. ASSUME NEW j \in (l + 1) .. h
              PROVE  j \in (m + 1 + 1) .. h \/ j \in (l + 1) .. (m + 1)
          BY <1>1, <3>1
        <5>2. ASSUME NEW j \in (m + 1 + 1) .. h PROVE j \in (l + 1) .. h
          BY <1>1, <3>1
        <5> QED BY <4>3, <5>1, <5>2
      <4> HIDE DEF Has
      <4> QED BY <4>1, <4>2, <4>4
    <3>5. CASE ~(a < ex[m + 1].lo) /\ ~(a >= ex[m + 1].hi)
      <4>1. a \in Ex!Spans(ex[m + 1])
        BY <1>1, <3>2, <3>5
      <4>2. m + 1 \in (l + 1) .. h
        BY <1>1, <3>1
      <4>3. Ex!SearchFrom[<<a, l, h>>] = TRUE
        BY <2>2, <3>5, <3>6
      <4>4. Has(l, h)
        BY <4>1, <4>2
      <4> HIDE DEF Has
      <4> QED BY <4>3, <4>4
    <3> QED BY <3>3, <3>4, <3>5
  <2> QED BY <1>1, <2>3, <2>4
<1>5. size \in [D -> Nat]
  BY <1>1
<1>6. ASSUME NEW c \in D, \A d \in D : size[d] < size[c] => d \in P PROVE c \in P
  <2> DEFINE l == c[1]
             h == c[2]
  <2>1. l \in 0 .. n /\ h \in 0 .. n /\ c = <<l, h>>
    OBVIOUS
  <2>2. ASSUME NEW p \in 0 .. n, NEW q \in 0 .. n,
               (IF p < q THEN q - p ELSE 0) < (IF l < h THEN h - l ELSE 0)
        PROVE  Ex!SearchFrom[<<a, p, q>>] <=> Has(p, q)
    <3>1. <<p, q>> \in D /\ <<p, q>>[1] = p /\ <<p, q>>[2] = q
      OBVIOUS
    <3>2. /\ size[<<p, q>>] = (IF p < q THEN q - p ELSE 0)
          /\ size[c] = (IF l < h THEN h - l ELSE 0)
      BY <3>1
    <3> HIDE DEF size, D, Has
    <3>3. <<p, q>> \in P
      BY <1>6, <2>2, <3>1, <3>2
    <3> QED BY <3>1, <3>3
  <2> HIDE DEF Has
  <2>3. Ex!SearchFrom[<<a, l, h>>] <=> Has(l, h)
    <3> HIDE DEF l, h
    <3> QED BY <1>4, <2>1, <2>2
  <2> QED BY <2>1, <2>3
<1> HIDE DEF size, P
<1>7. \A c \in D : c \in P
  BY <1>5, <1>6, SizeInduction
<1>8. <<0, n>> \in P
  BY <1>1, <1>7
<1>9. Ex!SearchFrom[<<a, 0, n>>] <=> Has(0, n)
  BY <1>8 DEF P
<1>10. Has(0, n) <=> \E j \in 1 .. n : a \in Ex!Spans(ex[j])
  OBVIOUS
<1> HIDE DEF Has
<1> QED BY <1>9, <1>10 DEF Ex!Search, n

\* The invariant says what the run checks.
LEMMA ExInvSays ==
    ASSUME Ex!ExcludeAssumption, ExInv
    PROVE  Ex!ExTypeOK /\ Ex!FoundWhileFresh
<1>1. Ex!ExTypeOK
  BY DEF ExInv, RangesApart, RangesTyped, Ex!ExTypeOK, Stretch
<1>2. ASSUME NEW a \in Ex!Address
      PROVE  /\ stepped[a] # -1 /\ exNow - stepped[a] <= ExTtl => Ex!Search(a)
             /\ Ex!Search(a) => stepped[a] # -1
  <2>1. Ex!Search(a) <=> \E j \in 1 .. Len(ex) : a \in Ex!Spans(ex[j])
    BY SearchFinds DEF ExInv
  <2> QED BY <2>1 DEF ExInv, RangesTell
<1> QED BY <1>1, <1>2 DEF Ex!FoundWhileFresh

-----------------------------------------------------------------------------
(* The steps of the list. *)

\* The place of a new range, and the ranges it meets.
LEMMA PlaceOf ==
    ASSUME Ex!ExcludeAssumption, RangesApart, NEW lo \in Nat, NEW hi \in Nat,
           lo < hi
    PROVE  \E i \in 0 .. Len(ex), m \in 0 .. Len(ex) :
              /\ i <= m /\ Ex!Before(lo) = i
              /\ \A j \in 1 .. Len(ex) : (ex[j].hi < lo <=> j <= i)
                                         /\ (ex[j].lo <= hi <=> j <= m)
              /\ Ex!Meets(lo, hi) = (i + 1) .. m
              /\ Ex!Cardinality(Ex!Meets(lo, hi)) = m - i
<1> DEFINE n == Len(ex)
           A == {j \in 1 .. n : ex[j].hi < lo}
           B == {j \in 1 .. n : ex[j].lo <= hi}
<1>1. n \in Nat /\ DOMAIN ex = 1 .. n
  BY LenProperties DEF RangesApart
<1>2. ASSUME NEW j \in 1 .. n
      PROVE  ex[j].lo \in Nat /\ ex[j].hi \in Nat /\ ex[j].lo < ex[j].hi
  <2>1. ex[j] \in Stretch /\ ex[j].lo < ex[j].hi
    BY ElementOfSeq DEF RangesApart
  <2> QED BY <2>1, StretchFields
<1>3. \A i, j \in 1 .. n : i < j => ex[i].hi < ex[j].lo
  BY DEF RangesApart, Ascending
<1>4. Ex!Before(lo) = Cardinality(A)
  <2>1. Ex!Before(lo) = Ex!Cardinality(A)
    BY <1>1 DEF Ex!Before
  <2> QED BY <2>1 DEF Ex!Cardinality, Cardinality
<1> HIDE DEF n
<1>5. \A j \in A, i \in 1 .. n : i < j => i \in A
  <2> SUFFICES ASSUME NEW j \in A, NEW i \in 1 .. n, i < j PROVE ex[i].hi < lo
    OBVIOUS
  <2>1. ex[i].hi < ex[j].lo /\ ex[j].hi < lo
    BY <1>3
  <2> QED BY <1>2, <2>1
<1>6. \A j \in B, i \in 1 .. n : i < j => i \in B
  <2> SUFFICES ASSUME NEW j \in B, NEW i \in 1 .. n, i < j PROVE ex[i].lo <= hi
    OBVIOUS
  <2>1. ex[i].hi < ex[j].lo /\ ex[j].lo <= hi
    BY <1>3
  <2> QED BY <1>2, <2>1
<1>7. A \subseteq 1 .. n /\ B \subseteq 1 .. n
  OBVIOUS
<1>8. \A j \in 1 .. n : (j \in A <=> ex[j].hi < lo) /\ (j \in B <=> ex[j].lo <= hi)
  OBVIOUS
<1>9. Ex!Meets(lo, hi) = {j \in 1 .. n : j \notin A /\ j \in B}
  <2>1. Ex!Meets(lo, hi) = {j \in 1 .. n : ex[j].hi >= lo /\ ex[j].lo <= hi}
    BY <1>1 DEF Ex!Meets
  <2>2. \A j \in 1 .. n : ex[j].hi >= lo <=> ~(ex[j].hi < lo)
    BY <1>2
  <2> QED BY <1>8, <2>1, <2>2
<1>10. \A j \in A : j \in B
  <2> SUFFICES ASSUME NEW j \in A PROVE ex[j].lo <= hi
    OBVIOUS
  <2>1. ex[j].lo < ex[j].hi /\ ex[j].hi < lo /\ ex[j].lo \in Nat /\ ex[j].hi \in Nat
    BY <1>2
  <2> QED BY <2>1
<1> HIDE DEF A, B
<1>11. PICK i \in 0 .. n : A = 1 .. i
  BY <1>1, <1>5, <1>7, FirstPlaces
<1>12. PICK m \in 0 .. n : B = 1 .. m
  BY <1>1, <1>6, <1>7, FirstPlaces
<1>13. i <= m
  <2>1. CASE i = 0
    BY <1>1, <2>1
  <2>2. CASE i # 0
    <3>1. i \in A
      BY <1>1, <1>11, <2>2
    <3>2. i \in 1 .. m
      BY <1>10, <1>12, <3>1
    <3> QED BY <1>1, <3>2
  <2> QED BY <2>1, <2>2
<1>14. Ex!Before(lo) = i
  <2>1. Cardinality(1 .. i) = i
    <3>1. Cardinality(1 .. i) = IF 1 > i THEN 0 ELSE i - 1 + 1
      BY <1>1, FS_Interval
    <3> QED BY <1>1, <3>1
  <2> QED BY <1>4, <1>11, <2>1
<1>15. Ex!Meets(lo, hi) = (i + 1) .. m
  <2>1. \A j \in 1 .. n : j \notin A /\ j \in B <=> j \in (i + 1) .. m
    BY <1>1, <1>11, <1>12
  <2>2. (i + 1) .. m \subseteq 1 .. n
    BY <1>1
  <2> QED BY <1>9, <2>1, <2>2
<1>16. Ex!Cardinality(Ex!Meets(lo, hi)) = m - i
  <2>1. Cardinality((i + 1) .. m) = IF i + 1 > m THEN 0 ELSE m - (i + 1) + 1
    BY <1>1, FS_Interval
  <2>2. Cardinality((i + 1) .. m) = m - i
    BY <1>1, <1>13, <2>1
  <2>3. Ex!Cardinality((i + 1) .. m) = Cardinality((i + 1) .. m)
    BY DEF Ex!Cardinality, Cardinality
  <2> QED BY <1>15, <2>2, <2>3
<1>17. \A j \in 1 .. n : (ex[j].hi < lo <=> j <= i) /\ (ex[j].lo <= hi <=> j <= m)
  <2>1. \A j \in 1 .. n : (j \in A <=> j <= i) /\ (j \in B <=> j <= m)
    BY <1>1, <1>11, <1>12
  <2> QED BY <1>8, <2>1
<1> QED BY <1>13, <1>14, <1>15, <1>16, <1>17 DEF n

LEMMA StalestIn ==
    ASSUME Ex!ExcludeAssumption, RangesApart, Len(ex) # 0
    PROVE  Ex!Stalest \in 1 .. Len(ex)
<1> DEFINE n == Len(ex)
           Seen == {ex[j].seen : j \in 1 .. n}
<1>1. n \in Nat \ {0} /\ DOMAIN ex = 1 .. n
  BY LenProperties DEF RangesApart
<1>2. \A j \in 1 .. n : ex[j].seen \in Nat
  BY ElementOfSeq, StretchFields DEF RangesApart
<1> HIDE DEF n
<1>3. Seen \subseteq Nat /\ Seen # {}
  <2>1. 1 \in 1 .. n
    BY <1>1
  <2> QED BY <1>2, <2>1
<1>4. PICK x \in Seen : \A y \in Seen : x <= y
  BY <1>3, LeastNat
<1> DEFINE Old == {j \in 1 .. n : ex[j].seen = x}
<1>5. Old \subseteq Nat /\ Old # {}
  BY <1>4
<1>6. PICK o \in Old : \A j \in Old : o <= j
  BY <1>5, LeastNat
<1>7. ASSUME NEW j \in 1 .. n
      PROVE  ex[j].seen > ex[o].seen \/ (ex[j].seen = ex[o].seen /\ j >= o)
  <2>1. ex[o].seen = x /\ x <= ex[j].seen /\ x \in Nat /\ ex[j].seen \in Nat
    BY <1>2, <1>4, <1>6
  <2>2. CASE ex[j].seen = x
    <3>1. j \in Old
      BY <2>2
    <3> QED BY <1>6, <2>1, <2>2, <3>1
  <2>3. CASE ex[j].seen # x
    BY <2>1, <2>3
  <2> QED BY <2>2, <2>3
<1>8. o \in 1 .. n
  BY <1>6
<1> QED BY <1>1, <1>7, <1>8 DEF Ex!Stalest, n

\* A list in which one new range stands for some of the old ones, while the
\* addresses of others are let go.
Replaces(lo, hi, e, Gone, Lost) ==
    /\ UNCHANGED exNow
    /\ e.lo < e.hi /\ e.seen = exNow /\ lo .. (hi - 1) \subseteq Ex!Spans(e)
    /\ ex' \in Seq(Stretch) /\ Len(ex') <= ExMax /\ Ascending(ex')
    /\ \A j \in 1 .. Len(ex') :
           ex'[j] = e \/ \E l \in 1 .. Len(ex) : l \notin Gone /\ ex'[j] = ex[l]
    /\ \E j \in 1 .. Len(ex') : ex'[j] = e
    /\ \A l \in 1 .. Len(ex) :
           l \notin Gone => \E j \in 1 .. Len(ex') : ex'[j] = ex[l]
    /\ \A l \in 1 .. Len(ex) :
           /\ l \in Gone => Ex!Spans(ex[l]) \subseteq Ex!Spans(e) \cup Lost
           /\ l \notin Gone => Ex!Spans(ex[l]) \cap Lost = {}
    /\ \A a \in Ex!Spans(e) :
           a \notin lo .. (hi - 1) =>
              /\ a \notin Lost
              /\ \E l \in 1 .. Len(ex) : a \in Ex!Spans(ex[l])
    /\ stepped' = [a \in Ex!Address |->
           IF a \in lo .. (hi - 1) THEN exNow
           ELSE IF a \in Lost THEN -1 ELSE stepped[a]]

LEMMA Replaced ==
    ASSUME Ex!ExcludeAssumption, ExInv, NEW lo \in Nat, NEW hi \in Nat,
           NEW e \in Stretch, NEW Gone, NEW Lost,
           Replaces(lo, hi, e, Gone, Lost)
    PROVE  ExInv'
<1> USE DEF Replaces
<1>1. /\ exNow \in 0 .. LastExpiry /\ LastExpiry \in Nat /\ exNow \in Nat
      /\ stepped \in [Ex!Address -> -1 .. LastExpiry]
      /\ \A a \in Ex!Address : stepped[a] <= exNow
  BY DEF ExInv, RangesTyped, Ex!ExcludeAssumption
<1>2. RangesTyped'
  <2>1. ASSUME NEW a \in Ex!Address
        PROVE  stepped'[a] \in -1 .. LastExpiry /\ stepped'[a] <= exNow
    <3>1. stepped'[a] = exNow \/ stepped'[a] = -1 \/ stepped'[a] = stepped[a]
      OBVIOUS
    <3> QED BY <1>1, <3>1
  <2> QED BY <1>1, <2>1 DEF RangesTyped
<1>3. RangesApart'
  <2>1. ASSUME NEW j \in 1 .. Len(ex')
        PROVE  ex'[j].lo < ex'[j].hi /\ ex'[j].seen <= exNow
    <3>1. CASE ex'[j] = e
      BY <1>1, <3>1
    <3>2. CASE \E l \in 1 .. Len(ex) : ex'[j] = ex[l]
      BY <3>2 DEF ExInv, RangesApart
    <3> QED BY <3>1, <3>2
  <2> QED BY <2>1 DEF RangesApart
<1>4. ASSUME NEW a \in Ex!Address, stepped'[a] # -1, exNow - stepped'[a] <= ExTtl
      PROVE  \E j \in 1 .. Len(ex') : a \in Ex!Spans(ex'[j])
                                      /\ ex'[j].seen >= stepped'[a]
  <2>1. stepped'[a] <= exNow /\ stepped'[a] \in -1 .. LastExpiry
    BY <1>2 DEF RangesTyped
  <2>2. CASE a \in Ex!Spans(e)
    <3>1. PICK j \in 1 .. Len(ex') : ex'[j] = e
      OBVIOUS
    <3>2. ex'[j].seen >= stepped'[a]
      BY <1>1, <2>1, <3>1
    <3> QED BY <2>2, <3>1, <3>2
  <2>3. CASE a \notin Ex!Spans(e)
    <3>1. a \notin lo .. (hi - 1) /\ a \notin Lost /\ stepped'[a] = stepped[a]
      BY <1>4, <2>3
    <3>2. PICK l \in 1 .. Len(ex) : a \in Ex!Spans(ex[l]) /\ ex[l].seen >= stepped[a]
      BY <1>4, <3>1 DEF ExInv, RangesTell
    <3>3. l \notin Gone
      BY <2>3, <3>1, <3>2
    <3>4. PICK j \in 1 .. Len(ex') : ex'[j] = ex[l]
      BY <3>3
    <3> QED BY <3>1, <3>2, <3>4
  <2> QED BY <2>2, <2>3
<1>5. ASSUME NEW j \in 1 .. Len(ex'), NEW a \in Ex!Spans(ex'[j])
      PROVE  stepped'[a] # -1
  <2>0. a \in Ex!Address
    <3>1. ex'[j] \in Stretch
      BY ElementOfSeq
    <3>2. ex'[j].lo \in 0 .. Addresses - 1 /\ ex'[j].hi \in 1 .. Addresses
      BY <3>1 DEF Stretch, Ex!ExRange, Ex!Address
    <3>3. a \in ex'[j].lo .. (ex'[j].hi - 1)
      BY DEF Ex!Spans
    <3> DEFINE l == ex'[j].lo
               h == ex'[j].hi
    <3>4. l \in 0 .. Addresses - 1 /\ h \in 1 .. Addresses /\ a \in l .. (h - 1)
      BY <3>2, <3>3
    <3> HIDE DEF l, h
    <3>5. a \in 0 .. Addresses - 1
      BY <3>4 DEF Ex!ExcludeAssumption
    <3> QED BY <3>5 DEF Ex!Address
  <2>1. CASE a \in lo .. (hi - 1)
    BY <1>1, <2>0, <2>1
  <2>2. CASE a \notin lo .. (hi - 1)
    <3>1. a \notin Lost /\ \E l \in 1 .. Len(ex) : a \in Ex!Spans(ex[l])
      BY <1>5, <2>2
    <3>2. stepped[a] # -1
      BY <3>1 DEF ExInv, RangesTell
    <3> QED BY <2>0, <2>2, <3>1, <3>2
  <2> QED BY <2>1, <2>2
<1>6. RangesTell'
  BY <1>4, <1>5 DEF RangesTell, Ex!Spans
<1> QED BY <1>2, <1>3, <1>6 DEF ExInv

\* A write that meets ranges joins them into one.
LEMMA MergedKeeps ==
    ASSUME Ex!ExcludeAssumption, ExInv, NEW lo \in Ex!Address,
           NEW hi \in 1 .. Addresses, Ex!Exclude(lo, hi), Ex!Meets(lo, hi) # {}
    PROVE  ExInv'
<1> DEFINE n == Len(ex)
<1>1. /\ n \in Nat /\ lo \in Nat /\ hi \in Nat /\ lo < hi
      /\ Addresses \in Nat /\ ExMax \in Nat /\ n <= ExMax
      /\ exNow \in 0 .. LastExpiry /\ ex \in Seq(Stretch) /\ Ascending(ex)
  BY LenProperties DEF ExInv, RangesApart, RangesTyped, Ex!Exclude,
                       Ex!ExcludeAssumption, Ex!Address
<1>2. PICK i \in 0 .. n, m \in 0 .. n :
          /\ i <= m /\ Ex!Before(lo) = i
          /\ \A j \in 1 .. n : (ex[j].hi < lo <=> j <= i)
                               /\ (ex[j].lo <= hi <=> j <= m)
          /\ Ex!Meets(lo, hi) = (i + 1) .. m
          /\ Ex!Cardinality(Ex!Meets(lo, hi)) = m - i
  BY <1>1, PlaceOf DEF ExInv
<1> DEFINE first == ex[i + 1]
           final == ex[m]
           low == IF first.lo < lo THEN first.lo ELSE lo
           high == IF final.hi > hi THEN final.hi ELSE hi
           e == [lo |-> low, hi |-> high, seen |-> exNow]
           Lost == {}
<1>3. /\ ex' = Ex!Merged(lo, hi, i) /\ UNCHANGED exNow
      /\ stepped' = [a \in Ex!Address |->
             IF a \in lo .. (hi - 1) THEN exNow
             ELSE IF a \in Lost THEN -1 ELSE stepped[a]]
  BY <1>2 DEF Ex!Exclude
<1>4. ASSUME NEW j \in 1 .. n
      PROVE  /\ ex[j] \in Stretch
             /\ ex[j].lo \in Nat /\ ex[j].hi \in Nat /\ ex[j].lo < ex[j].hi
             /\ ex[j].lo \in Ex!Address /\ ex[j].hi \in 1 .. Addresses
             /\ Ex!Spans(ex[j]) = ex[j].lo .. (ex[j].hi - 1)
  <2>1. ex[j] \in Stretch /\ ex[j].lo < ex[j].hi
    BY ElementOfSeq DEF ExInv, RangesApart
  <2>2. ex[j].lo \in Ex!Address /\ ex[j].hi \in 1 .. Addresses
    BY <2>1 DEF Stretch, Ex!ExRange
  <2> QED BY <2>1, <2>2, StretchFields DEF Ex!Spans
<1>5. \A j, l \in 1 .. n : j < l => ex[j].hi < ex[l].lo
  BY <1>1 DEF Ascending
<1> HIDE DEF n
<1>6. i < m /\ i + 1 \in 1 .. n /\ m \in 1 .. n /\ i + (m - i) = m
  BY <1>1, <1>2
<1> DEFINE q == m + 1
<1>7. ex' = Splice(ex, i, e, q)
  BY <1>2, <1>3, <1>6 DEF Ex!Merged, Splice, n
<1>8. /\ first.lo \in Nat /\ first.hi \in Nat /\ first.lo < first.hi
      /\ final.lo \in Nat /\ final.hi \in Nat /\ final.lo < final.hi
      /\ first.lo \in Ex!Address /\ final.hi \in 1 .. Addresses
      /\ lo <= first.hi /\ final.lo <= hi
  <2>1. ~(first.hi < lo) /\ final.lo <= hi
    BY <1>1, <1>2, <1>6
  <2> QED BY <1>1, <1>4, <1>6, <2>1
<1>9. /\ low \in Ex!Address /\ high \in 1 .. Addresses
      /\ low \in Nat /\ high \in Nat
      /\ low <= lo /\ hi <= high /\ low <= first.lo /\ final.hi <= high
      /\ low < high
  <2> HIDE DEF first, final
  <2> QED BY <1>1, <1>8
<1>10. e \in Stretch /\ e.lo = low /\ e.hi = high /\ e.seen = exNow
       /\ Ex!Spans(e) = low .. (high - 1)
  <2> HIDE DEF low, high
  <2> QED BY <1>1, <1>9 DEF Stretch, Ex!ExRange, Ex!Spans
<1>11. \A j \in 1 .. i : ex[j].hi < e.lo
  <2> SUFFICES ASSUME NEW j \in 1 .. i PROVE ex[j].hi < low
    BY <1>10
  <2>1. j \in 1 .. n /\ j < i + 1 /\ j <= i
    BY <1>1, <1>6
  <2>2. ex[j].hi < lo /\ ex[j].hi < first.lo
    BY <1>2, <1>5, <1>6, <2>1
  <2> QED BY <2>2
<1>12. \A j \in q .. n : e.hi < ex[j].lo
  <2> SUFFICES ASSUME NEW j \in q .. n PROVE high < ex[j].lo
    BY <1>10
  <2>1. j \in 1 .. n /\ m < j /\ ~(j <= m)
    BY <1>1, <1>6
  <2>2. ~(ex[j].lo <= hi) /\ final.hi < ex[j].lo /\ ex[j].lo \in Nat
    BY <1>2, <1>4, <1>5, <1>6, <2>1
  <2> QED BY <1>1, <2>2
<1>13. i \in 0 .. Len(ex) /\ q \in (i + 1) .. (Len(ex) + 1) /\ q = m + 1
  BY <1>1, <1>2, <1>6 DEF n
<1> HIDE DEF q
<1> HIDE DEF e
<1>14. /\ ex' \in Seq(Stretch) /\ Len(ex') = i + 1 + (n + 1 - q)
       /\ Ascending(ex')
  <2>1. e \in Stretch /\ ex \in Seq(Stretch) /\ Ascending(ex)
    BY <1>1, <1>10
  <2>2. ex' \in Seq(Stretch) /\ Len(ex') = i + 1 + (n + 1 - q)
    BY <1>7, <1>13, <2>1, SplicePlaces DEF n
  <2>3. Ascending(ex')
    BY <1>7, <1>11, <1>12, <1>13, <2>1, SpliceAscends DEF n
  <2> QED BY <2>2, <2>3
<1>15. Len(ex') <= ExMax
  BY <1>1, <1>6, <1>13, <1>14
<1> DEFINE Gone == (i + 1) .. m
<1>16. \A l \in 1 .. n : l \notin Gone <=> (l <= i \/ l >= q)
  BY <1>1, <1>6, <1>13
<1> HIDE DEF Gone
<1>17. /\ \A j \in 1 .. Len(ex') :
              ex'[j] = e \/ \E l \in 1 .. n : l \notin Gone /\ ex'[j] = ex[l]
       /\ \E j \in 1 .. Len(ex') : ex'[j] = e
       /\ \A l \in 1 .. n :
              l \notin Gone => \E j \in 1 .. Len(ex') : ex'[j] = ex[l]
  <2>1. /\ \A j \in 1 .. Len(ex') :
               ex'[j] = e \/ \E l \in 1 .. n : (l <= i \/ l >= q)
                                               /\ ex'[j] = ex[l]
        /\ \E j \in 1 .. Len(ex') : ex'[j] = e
        /\ \A l \in 1 .. n :
               l <= i \/ l >= q => \E j \in 1 .. Len(ex') : ex'[j] = ex[l]
    <3>1. e \in Stretch /\ ex \in Seq(Stretch)
      BY <1>1, <1>10
    <3>2. Spliced(ex', ex, i, e, q)
      BY <1>7, <1>13, <3>1, SpliceHas
    <3> QED BY <3>2 DEF Spliced, n
  <2> QED BY <1>16, <2>1
<1>18. ASSUME NEW l \in 1 .. n
       PROVE  /\ l \in Gone => Ex!Spans(ex[l]) \subseteq Ex!Spans(e) \cup Lost
              /\ l \notin Gone => Ex!Spans(ex[l]) \cap Lost = {}
  <2> SUFFICES ASSUME l \in Gone PROVE Ex!Spans(ex[l]) \subseteq Ex!Spans(e)
    OBVIOUS
  <2>1. (l = i + 1 \/ i + 1 < l) /\ (l = m \/ l < m)
    BY <1>1, <1>6 DEF Gone
  <2>2. first.lo <= ex[l].lo
    <3>1. i + 1 < l => first.hi < ex[l].lo
      BY <1>5, <1>6
    <3>2. l = i + 1 => first.lo = ex[l].lo
      OBVIOUS
    <3> HIDE DEF first
    <3> QED BY <1>4, <1>8, <2>1, <3>1, <3>2
  <2>3. ex[l].hi <= final.hi
    <3>1. l < m => ex[l].hi < final.lo
      BY <1>5, <1>6
    <3>2. l = m => ex[l].hi = final.hi
      OBVIOUS
    <3> HIDE DEF final
    <3> QED BY <1>4, <1>8, <2>1, <3>1, <3>2
  <2>4. low <= ex[l].lo /\ ex[l].hi <= high
    <3> HIDE DEF low, high, first, final
    <3> QED BY <1>4, <1>8, <1>9, <2>2, <2>3
  <2> HIDE DEF low, high
  <2> DEFINE p == ex[l].lo
             r == ex[l].hi
  <2>5. /\ p \in Nat /\ r \in Nat /\ low <= p /\ r <= high
        /\ Ex!Spans(ex[l]) = p .. (r - 1)
    BY <1>4, <2>4
  <2> HIDE DEF p, r
  <2>6. p .. (r - 1) \subseteq low .. (high - 1)
    BY <1>9, <2>5
  <2> QED BY <1>10, <2>5, <2>6
<1>19. ASSUME NEW a \in Ex!Spans(e), a \notin lo .. (hi - 1)
       PROVE  a \notin Lost /\ \E l \in 1 .. n : a \in Ex!Spans(ex[l])
  <2>1. a \in low .. (high - 1)
    BY <1>10
  <2>2. /\ Ex!Spans(first) = first.lo .. (first.hi - 1)
        /\ Ex!Spans(final) = final.lo .. (final.hi - 1)
    BY <1>4, <1>6
  <2>3. a \in first.lo .. (first.hi - 1) \/ a \in final.lo .. (final.hi - 1)
    <3> HIDE DEF first, final
    <3> QED BY <1>1, <1>8, <1>19, <2>1
  <2>4. a \in Ex!Spans(first) \/ a \in Ex!Spans(final)
    BY <2>2, <2>3
  <2> QED BY <1>6, <2>4
<1>20. lo .. (hi - 1) \subseteq Ex!Spans(e) /\ e.lo < e.hi
  <2> HIDE DEF low, high
  <2> QED BY <1>1, <1>9, <1>10
<1> HIDE DEF first, final, low, high, Lost
<1>21. Replaces(lo, hi, e, Gone, Lost)
  BY <1>3, <1>10, <1>14, <1>15, <1>17, <1>18, <1>19, <1>20 DEF Replaces, n
<1> QED BY <1>1, <1>10, <1>21, Replaced

\* A write that meets none adds a range where there is room.
LEMMA AddedKeeps ==
    ASSUME Ex!ExcludeAssumption, ExInv, NEW lo \in Ex!Address,
           NEW hi \in 1 .. Addresses, Ex!Exclude(lo, hi), Ex!Meets(lo, hi) = {},
           Len(ex) < ExMax
    PROVE  ExInv'
<1> DEFINE n == Len(ex)
           e == [lo |-> lo, hi |-> hi, seen |-> exNow]
           Gone == {}
           Lost == {}
<1>1. /\ n \in Nat /\ lo \in Nat /\ hi \in Nat /\ lo < hi /\ lo # hi
      /\ ExMax \in Nat /\ n < ExMax
      /\ exNow \in 0 .. LastExpiry /\ ex \in Seq(Stretch) /\ Ascending(ex)
  BY LenProperties DEF ExInv, RangesApart, RangesTyped, Ex!Exclude,
                       Ex!ExcludeAssumption, Ex!Address
<1>2. PICK i \in 0 .. n, m \in 0 .. n :
          /\ i <= m /\ Ex!Before(lo) = i
          /\ \A j \in 1 .. n : (ex[j].hi < lo <=> j <= i)
                               /\ (ex[j].lo <= hi <=> j <= m)
          /\ Ex!Meets(lo, hi) = (i + 1) .. m
          /\ Ex!Cardinality(Ex!Meets(lo, hi)) = m - i
  BY <1>1, PlaceOf DEF ExInv
<1>3. ~(Len(ex) = ExMax)
  BY <1>1
<1>4. /\ ex' = Ex!Inserted(lo, hi, i) /\ UNCHANGED exNow
      /\ stepped' = [a \in Ex!Address |->
             IF a \in lo .. (hi - 1) THEN exNow
             ELSE IF a \in Lost THEN -1 ELSE stepped[a]]
  BY <1>2, <1>3 DEF Ex!Exclude
<1>5. ASSUME NEW j \in 1 .. n PROVE ex[j].lo \in Nat /\ ex[j].hi \in Nat
  BY ElementOfSeq, StretchFields DEF ExInv, RangesApart
<1>6. e \in Stretch /\ e.lo = lo /\ e.hi = hi /\ e.seen = exNow
      /\ Ex!Spans(e) = lo .. (hi - 1)
  BY <1>1 DEF Stretch, Ex!ExRange, Ex!Spans
<1> HIDE DEF n, e
<1>7. m = i
  <2>1. ~(i < m)
    <3> SUFFICES ASSUME i < m PROVE FALSE
      OBVIOUS
    <3>1. i + 1 \in (i + 1) .. m
      BY <1>1, <1>2
    <3> QED BY <1>2, <3>1
  <2> QED BY <1>1, <1>2, <2>1
<1> DEFINE q == i + 1
<1>8. ex' = Splice(ex, i, e, q)
  <2>1. (i + 1) - 1 = i
    BY <1>1, <1>2
  <2> QED BY <1>1, <1>4, <2>1 DEF Ex!Inserted, Ex!InsertAt, Splice, n, e
<1>9. \A j \in 1 .. i : ex[j].hi < e.lo
  BY <1>1, <1>2, <1>6
<1>10. \A j \in q .. n : e.hi < ex[j].lo
  <2> SUFFICES ASSUME NEW j \in (i + 1) .. n PROVE hi < ex[j].lo
    BY <1>6
  <2>1. j \in 1 .. n /\ ~(j <= m)
    BY <1>1, <1>2, <1>7
  <2> QED BY <1>1, <1>2, <1>5, <2>1
<1>11. i \in 0 .. Len(ex) /\ q \in (i + 1) .. (Len(ex) + 1) /\ q = i + 1
  BY <1>1, <1>2 DEF n
<1> HIDE DEF q
<1>12. /\ ex' \in Seq(Stretch) /\ Len(ex') = i + 1 + (n + 1 - q)
       /\ Ascending(ex')
  <2>1. e \in Stretch /\ ex \in Seq(Stretch) /\ Ascending(ex)
    BY <1>1, <1>6
  <2>2. ex' \in Seq(Stretch) /\ Len(ex') = i + 1 + (n + 1 - q)
    BY <1>8, <1>11, <2>1, SplicePlaces DEF n
  <2>3. Ascending(ex')
    BY <1>8, <1>9, <1>10, <1>11, <2>1, SpliceAscends DEF n
  <2> QED BY <2>2, <2>3
<1>13. Len(ex') <= ExMax
  BY <1>1, <1>2, <1>11, <1>12
<1>14. \A l \in 1 .. n : l <= i \/ l >= q
  BY <1>1, <1>2, <1>11
<1>15. /\ \A j \in 1 .. Len(ex') :
               ex'[j] = e \/ \E l \in 1 .. n : (l <= i \/ l >= q)
                                               /\ ex'[j] = ex[l]
       /\ \E j \in 1 .. Len(ex') : ex'[j] = e
       /\ \A l \in 1 .. n :
               l <= i \/ l >= q => \E j \in 1 .. Len(ex') : ex'[j] = ex[l]
  <2>1. e \in Stretch /\ ex \in Seq(Stretch)
    BY <1>1, <1>6
  <2>2. Spliced(ex', ex, i, e, q)
    BY <1>8, <1>11, <2>1, SpliceHas
  <2> QED BY <2>2 DEF Spliced, n
<1>16. Replaces(lo, hi, e, Gone, Lost)
  BY <1>1, <1>4, <1>6, <1>12, <1>13, <1>14, <1>15 DEF Replaces, n
<1> HIDE DEF Gone, Lost
<1> QED BY <1>1, <1>6, <1>16, Replaced

\* Where there is none, the stalest range and what it told of go.
LEMMA EvictedKeeps ==
    ASSUME Ex!ExcludeAssumption, ExInv, NEW lo \in Ex!Address,
           NEW hi \in 1 .. Addresses, Ex!Exclude(lo, hi), Ex!Meets(lo, hi) = {},
           Len(ex) = ExMax
    PROVE  ExInv'
<1> DEFINE n == Len(ex)
           e == [lo |-> lo, hi |-> hi, seen |-> exNow]
           k0 == Ex!Stalest
           Gone == {k0}
           Lost == Ex!Spans(ex[k0])
           cut == Cut(ex, k0)
           at(j) == IF j < k0 THEN j ELSE j + 1
<1>1. /\ n \in Nat \ {0} /\ lo \in Nat /\ hi \in Nat /\ lo < hi
      /\ ExMax \in Nat /\ n = ExMax
      /\ exNow \in 0 .. LastExpiry /\ ex \in Seq(Stretch) /\ Ascending(ex)
  BY LenProperties DEF ExInv, RangesApart, RangesTyped, Ex!Exclude,
                       Ex!ExcludeAssumption, Ex!Address
<1>2. PICK i \in 0 .. n, m \in 0 .. n :
          /\ i <= m /\ Ex!Before(lo) = i
          /\ \A j \in 1 .. n : (ex[j].hi < lo <=> j <= i)
                               /\ (ex[j].lo <= hi <=> j <= m)
          /\ Ex!Meets(lo, hi) = (i + 1) .. m
          /\ Ex!Cardinality(Ex!Meets(lo, hi)) = m - i
  BY <1>1, PlaceOf DEF ExInv
<1>3. k0 \in 1 .. n
  BY <1>1, StalestIn DEF ExInv
<1>4. /\ ex' = Ex!Inserted(lo, hi, i) /\ UNCHANGED exNow
      /\ stepped' = [a \in Ex!Address |->
             IF a \in lo .. (hi - 1) THEN exNow
             ELSE IF a \in Lost THEN -1 ELSE stepped[a]]
  BY <1>2 DEF Ex!Exclude
<1>5. ASSUME NEW j \in 1 .. n
      PROVE  /\ ex[j].lo \in Nat /\ ex[j].hi \in Nat /\ ex[j].lo < ex[j].hi
             /\ Ex!Spans(ex[j]) = ex[j].lo .. (ex[j].hi - 1)
  BY ElementOfSeq, StretchFields DEF ExInv, RangesApart, Ex!Spans
<1>6. e \in Stretch /\ e.lo = lo /\ e.hi = hi /\ e.seen = exNow
      /\ Ex!Spans(e) = lo .. (hi - 1)
  BY <1>1 DEF Stretch, Ex!ExRange, Ex!Spans
<1> HIDE DEF n, e, k0
<1>7. m = i
  <2>1. ~(i < m)
    <3> SUFFICES ASSUME i < m PROVE FALSE
      OBVIOUS
    <3>1. i + 1 \in (i + 1) .. m
      BY <1>1, <1>2
    <3> QED BY <1>2, <3>1
  <2> QED BY <1>1, <1>2, <2>1
<1> DEFINE p == Ex!Shift(i, k0)
<1>8. p = IF k0 <= i THEN i - 1 ELSE i
  BY DEF Ex!Shift
<1> HIDE DEF p
<1>9. /\ cut \in Seq(Stretch) /\ Len(cut) = n - 1
      /\ \A j \in 1 .. Len(cut) : cut[j] = ex[at(j)]
      /\ Ascending(cut)
      /\ \A j \in 1 .. Len(cut) : \E l \in 1 .. n : l # k0 /\ cut[j] = ex[l]
      /\ \A l \in 1 .. n : l # k0 => \E j \in 1 .. Len(cut) : cut[j] = ex[l]
  BY <1>1, <1>3, CutPlaces, CutKeeps DEF n
<1> DEFINE q == p + 1
<1>10. ex' = Splice(cut, p, e, q)
  <2>1. p \in Nat /\ (p + 1) - 1 = p
    BY <1>1, <1>2, <1>3, <1>8
  <2>2. ~(Len(ex) < ExMax)
    BY <1>1 DEF n
  <2>3. ex' = Ex!InsertAt(Ex!RemoveAt(ex, k0), p + 1, e)
    BY <1>4, <2>2 DEF Ex!Inserted, p, k0, e
  <2>4. Ex!RemoveAt(ex, k0) = cut
    BY DEF Ex!RemoveAt, Cut
  <2> HIDE DEF cut
  <2> QED BY <2>1, <2>3, <2>4 DEF Ex!InsertAt, Splice
<1> HIDE DEF cut
<1>11. p \in 0 .. Len(cut) /\ q \in (p + 1) .. (Len(cut) + 1) /\ q = p + 1
  BY <1>1, <1>2, <1>3, <1>8, <1>9
<1> HIDE DEF q
<1>12. \A j \in 1 .. p : cut[j].hi < e.lo
  <2> SUFFICES ASSUME NEW j \in 1 .. p PROVE cut[j].hi < lo
    BY <1>6
  <2>1. j \in 1 .. Len(cut) /\ at(j) \in 1 .. n /\ at(j) <= i
    BY <1>1, <1>2, <1>3, <1>8, <1>9
  <2> HIDE DEF at
  <2> QED BY <1>2, <1>9, <2>1
<1>13. \A j \in q .. Len(cut) : e.hi < cut[j].lo
  <2> SUFFICES ASSUME NEW j \in q .. Len(cut) PROVE hi < cut[j].lo
    BY <1>6
  <2>1. j \in 1 .. Len(cut) /\ at(j) \in 1 .. n /\ i < at(j)
    <3>1. j \in Nat /\ p + 1 <= j /\ j <= n - 1
      BY <1>1, <1>9, <1>11
    <3>2. CASE k0 <= i
      BY <1>1, <1>2, <1>3, <1>8, <1>9, <3>1, <3>2
    <3>3. CASE ~(k0 <= i)
      BY <1>1, <1>2, <1>3, <1>8, <1>9, <3>1, <3>3
    <3> QED BY <3>2, <3>3
  <2> HIDE DEF at
  <2>2. ~(at(j) <= m)
    BY <1>1, <1>2, <1>7, <2>1
  <2>3. cut[j] = ex[at(j)] /\ ~(ex[at(j)].lo <= hi) /\ ex[at(j)].lo \in Nat
    BY <1>2, <1>5, <1>9, <2>1, <2>2
  <2> QED BY <1>1, <2>3
<1>14. /\ ex' \in Seq(Stretch)
       /\ Len(ex') = p + 1 + (Len(cut) + 1 - q) /\ Ascending(ex')
  <2>1. e \in Stretch /\ cut \in Seq(Stretch) /\ Ascending(cut)
    BY <1>6, <1>9
  <2>2. ex' \in Seq(Stretch) /\ Len(ex') = p + 1 + (Len(cut) + 1 - q)
    BY <1>10, <1>11, <2>1, SplicePlaces
  <2>3. Ascending(ex')
    BY <1>10, <1>11, <1>12, <1>13, <2>1, SpliceAscends
  <2> QED BY <2>2, <2>3
<1>15. Len(ex') <= ExMax
  BY <1>1, <1>2, <1>8, <1>9, <1>11, <1>14
<1>16. \A l \in 1 .. Len(cut) : l <= p \/ l >= q
  BY <1>9, <1>11, <1>1
<1>17. /\ \A j \in 1 .. Len(ex') :
               ex'[j] = e \/ \E l \in 1 .. Len(cut) : ex'[j] = cut[l]
       /\ \E j \in 1 .. Len(ex') : ex'[j] = e
       /\ \A l \in 1 .. Len(cut) : \E j \in 1 .. Len(ex') : ex'[j] = cut[l]
  <2>1. /\ \A j \in 1 .. Len(ex') :
               ex'[j] = e \/ \E l \in 1 .. Len(cut) : (l <= p \/ l >= q)
                                                      /\ ex'[j] = cut[l]
        /\ \E j \in 1 .. Len(ex') : ex'[j] = e
        /\ \A l \in 1 .. Len(cut) :
               l <= p \/ l >= q => \E j \in 1 .. Len(ex') : ex'[j] = cut[l]
    <3>1. e \in Stretch /\ cut \in Seq(Stretch)
      BY <1>6, <1>9
    <3>2. Spliced(ex', cut, p, e, q)
      BY <1>10, <1>11, <3>1, SpliceHas
    <3> QED BY <3>2 DEF Spliced
  <2> QED BY <1>16, <2>1
<1>18. /\ \A j \in 1 .. Len(ex') :
              ex'[j] = e \/ \E l \in 1 .. n : l \notin Gone /\ ex'[j] = ex[l]
       /\ \A l \in 1 .. n :
              l \notin Gone => \E j \in 1 .. Len(ex') : ex'[j] = ex[l]
  <2>1. ASSUME NEW j \in 1 .. Len(ex'), ex'[j] # e
        PROVE  \E l \in 1 .. n : l \notin Gone /\ ex'[j] = ex[l]
    <3>1. PICK c \in 1 .. Len(cut) : ex'[j] = cut[c]
      BY <1>17, <2>1
    <3>2. PICK l \in 1 .. n : l # k0 /\ cut[c] = ex[l]
      BY <1>9
    <3> QED BY <3>1, <3>2
  <2>2. ASSUME NEW l \in 1 .. n, l \notin Gone
        PROVE  \E j \in 1 .. Len(ex') : ex'[j] = ex[l]
    <3>1. PICK c \in 1 .. Len(cut) : cut[c] = ex[l]
      BY <1>9, <2>2
    <3> QED BY <1>17, <3>1
  <2> QED BY <2>1, <2>2
<1>19. ASSUME NEW l \in 1 .. n, l # k0 PROVE Ex!Spans(ex[l]) \cap Lost = {}
  <2>1. l < k0 \/ k0 < l
    BY <1>1, <1>3, <1>19
  <2>2. ex[l].hi < ex[k0].lo \/ ex[k0].hi < ex[l].lo
    BY <1>1, <1>3, <2>1 DEF Ascending, n
  <2> DEFINE al == ex[l].lo
             ah == ex[l].hi
             bl == ex[k0].lo
             bh == ex[k0].hi
  <2>3. /\ al \in Nat /\ ah \in Nat /\ bl \in Nat /\ bh \in Nat
        /\ al < ah /\ bl < bh /\ (ah < bl \/ bh < al)
        /\ Ex!Spans(ex[l]) = al .. (ah - 1) /\ Lost = bl .. (bh - 1)
    BY <1>3, <1>5, <2>2
  <2> HIDE DEF al, ah, bl, bh, Lost
  <2>4. (al .. (ah - 1)) \cap (bl .. (bh - 1)) = {}
    BY <2>3
  <2> QED BY <2>3, <2>4
<1>20. \A l \in 1 .. n :
           /\ l \in Gone => Ex!Spans(ex[l]) \subseteq Ex!Spans(e) \cup Lost
           /\ l \notin Gone => Ex!Spans(ex[l]) \cap Lost = {}
  BY <1>19
<1> HIDE DEF Gone, Lost
<1>21. Replaces(lo, hi, e, Gone, Lost)
  BY <1>1, <1>4, <1>6, <1>14, <1>15, <1>17, <1>18, <1>20 DEF Replaces, n
<1> QED BY <1>1, <1>6, <1>21, Replaced

\* What the loop that forgets has kept when it comes to a place.
KeptTo(i, s) ==
    /\ s \in Seq(Stretch) /\ Len(s) < i /\ Ascending(s)
    /\ \A j \in 1 .. Len(s) : \E l \in 1 .. Len(ex) : l < i /\ s[j] = ex[l]
    /\ \A l \in 1 .. Len(ex) :
          l < i /\ Lasts(ex[l]) => \E j \in 1 .. Len(s) : s[j] = ex[l]

LEMMA KeptMore ==
    ASSUME Ex!ExcludeAssumption, RangesApart, NEW i \in 1 .. Len(ex), NEW s,
           KeptTo(i, s)
    PROVE  /\ Lasts(ex[i]) => KeptTo(i + 1, Append(s, ex[i]))
           /\ ~Lasts(ex[i]) => KeptTo(i + 1, s)
<1> DEFINE n == Len(ex)
           h == Len(s)
           w == Append(s, ex[i])
<1>1. /\ n \in Nat /\ i \in 1 .. n /\ s \in Seq(Stretch) /\ h \in Nat /\ h < i
      /\ ex[i] \in Stretch /\ Ascending(s) /\ Ascending(ex)
  BY LenProperties, ElementOfSeq DEF RangesApart, KeptTo
<1>2. /\ w \in Seq(Stretch) /\ Len(w) = h + 1
      /\ \A j \in 1 .. h : w[j] = s[j]
      /\ w[h + 1] = ex[i]
  BY <1>1, AppendProperties
<1>3. /\ \A j \in 1 .. h : \E l \in 1 .. n : l < i /\ s[j] = ex[l]
      /\ \A l \in 1 .. n : l < i /\ Lasts(ex[l]) => \E j \in 1 .. h : s[j] = ex[l]
  BY DEF KeptTo
<1> HIDE DEF w
<1>4. ASSUME ~Lasts(ex[i]) PROVE KeptTo(i + 1, s)
  <2>1. h < i + 1
    BY <1>1
  <2>2. \A j \in 1 .. h : \E l \in 1 .. n : l < i + 1 /\ s[j] = ex[l]
    BY <1>1, <1>3
  <2>3. ASSUME NEW l \in 1 .. n, l < i + 1, Lasts(ex[l])
        PROVE  \E j \in 1 .. h : s[j] = ex[l]
    <3>1. l # i
      BY <1>4, <2>3
    <3>2. l < i
      BY <1>1, <2>3, <3>1
    <3> QED BY <1>3, <2>3, <3>2
  <2> QED BY <1>1, <2>1, <2>2, <2>3 DEF KeptTo
<1>5. ASSUME Lasts(ex[i]) PROVE KeptTo(i + 1, w)
  <2>1. Len(w) < i + 1
    BY <1>1, <1>2
  <2>2. ASSUME NEW j \in 1 .. Len(w)
        PROVE  \E l \in 1 .. n : l < i + 1 /\ w[j] = ex[l]
    <3>1. CASE j = h + 1
      BY <1>1, <1>2, <3>1
    <3>2. CASE j # h + 1
      <4>1. j \in 1 .. h
        BY <1>1, <1>2, <3>2
      <4>2. PICK l \in 1 .. n : l < i /\ s[j] = ex[l]
        BY <1>3, <4>1
      <4>3. l < i + 1 /\ w[j] = ex[l]
        BY <1>1, <1>2, <4>1, <4>2
      <4> QED BY <4>3
    <3> QED BY <3>1, <3>2
  <2>3. ASSUME NEW l \in 1 .. n, l < i + 1, Lasts(ex[l])
        PROVE  \E j \in 1 .. Len(w) : w[j] = ex[l]
    <3>1. CASE l = i
      <4>1. h + 1 \in 1 .. Len(w)
        BY <1>1, <1>2
      <4> QED BY <1>2, <3>1, <4>1
    <3>2. CASE l # i
      <4>1. l < i
        BY <1>1, <2>3, <3>2
      <4>2. PICK j \in 1 .. h : s[j] = ex[l]
        BY <1>3, <2>3, <4>1
      <4>3. j \in 1 .. Len(w) /\ w[j] = ex[l]
        BY <1>1, <1>2, <4>2
      <4> QED BY <4>3
    <3> QED BY <3>1, <3>2
  <2>4. ASSUME NEW j \in 1 .. Len(w), NEW l \in 1 .. Len(w), j < l
        PROVE  w[j].hi < w[l].lo
    <3>1. j \in 1 .. h /\ (l \in 1 .. h \/ l = h + 1)
      BY <1>1, <1>2, <2>4
    <3>2. CASE l \in 1 .. h
      BY <1>1, <1>2, <2>4, <3>1, <3>2 DEF Ascending
    <3>3. CASE l = h + 1
      <4>1. PICK p \in 1 .. n : p < i /\ s[j] = ex[p]
        BY <1>3, <3>1
      <4>2. ex[p].hi < ex[i].lo
        BY <1>1, <4>1 DEF Ascending
      <4> QED BY <1>2, <3>1, <3>3, <4>1, <4>2
    <3> QED BY <3>1, <3>2, <3>3
  <2>5. Ascending(w)
    BY <2>4 DEF Ascending
  <2> QED BY <1>2, <2>1, <2>2, <2>3, <2>5 DEF KeptTo
<1> QED BY <1>4, <1>5 DEF w

LEMMA KeptAll ==
    ASSUME Ex!ExcludeAssumption, RangesApart
    PROVE  KeptTo(Len(ex) + 1, Ex!KeptFrom[<<1, <<>>>>])
<1> DEFINE n == Len(ex)
           D == (1 .. (n + 1)) \X Seq(Stretch)
           size == [c \in D |-> n + 1 - c[1]]
           P == {c \in D : KeptTo(c[1], c[2]) => KeptTo(n + 1, Ex!KeptFrom[c])}
<1>1. n \in Nat /\ n <= ExMax /\ ExMax \in Nat /\ ex \in Seq(Stretch)
  BY LenProperties DEF RangesApart, Ex!ExcludeAssumption
<1> HIDE DEF n
<1>2. size \in [D -> Nat]
  BY <1>1
<1>3. ASSUME NEW c \in D, \A d \in D : size[d] < size[c] => d \in P PROVE c \in P
  <2> DEFINE i == c[1]
             s == c[2]
  <2>1. i \in 1 .. (n + 1) /\ s \in Seq(Stretch) /\ c = <<i, s>>
    OBVIOUS
  <2> HIDE DEF i, s
  <2> SUFFICES ASSUME KeptTo(i, s) PROVE KeptTo(n + 1, Ex!KeptFrom[<<i, s>>])
    BY <2>1 DEF i, s
  <2>2. Ex!KeptFrom[<<i, s>>] =
            IF i > n THEN s
            ELSE IF Lasts(ex[i]) THEN Ex!KeptFrom[<<i + 1, Append(s, ex[i])>>]
            ELSE Ex!KeptFrom[<<i + 1, s>>]
    <3>1. i \in 1 .. (ExMax + 1)
      BY <1>1, <2>1
    <3> QED BY <1>1, <2>1, <3>1, KeptTurn DEF n
  <2>3. CASE i > n
    <3>1. i = n + 1
      BY <1>1, <2>1, <2>3
    <3> QED BY <2>2, <2>3, <3>1
  <2>4. CASE ~(i > n)
    <3>1. i \in 1 .. n /\ i + 1 \in 1 .. (n + 1)
      BY <1>1, <2>1, <2>4
    <3>2. ASSUME NEW t, KeptTo(i + 1, t) PROVE KeptTo(n + 1, Ex!KeptFrom[<<i + 1, t>>])
      <4> DEFINE d == <<i + 1, t>>
      <4>1. d \in D /\ d[1] = i + 1 /\ d[2] = t
        BY <3>1, <3>2 DEF KeptTo
      <4>2. size[d] = n + 1 - (i + 1) /\ size[c] = n + 1 - i
        BY <2>1, <4>1 DEF i
      <4> HIDE DEF d, size, D
      <4>3. size[d] < size[c]
        BY <1>1, <3>1, <4>2
      <4>4. d \in P
        BY <1>3, <4>1, <4>3
      <4> QED BY <3>2, <4>1, <4>4 DEF d
    <3>3. /\ Lasts(ex[i]) => KeptTo(i + 1, Append(s, ex[i]))
          /\ ~Lasts(ex[i]) => KeptTo(i + 1, s)
      BY <3>1, KeptMore DEF n
    <3> QED BY <2>2, <2>4, <3>2, <3>3
  <2> QED BY <2>3, <2>4
<1>4. <<1, <<>>>> \in D
  <2>1. 1 \in 1 .. (n + 1)
    BY <1>1
  <2>2. <<>> \in Seq(Stretch)
    OBVIOUS
  <2> QED BY <2>1, <2>2
<1>5. KeptTo(1, <<>>)
  <2>1. <<>> \in Seq(Stretch) /\ Len(<<>>) = 0
    OBVIOUS
  <2>2. \A l \in 1 .. Len(ex) : ~(l < 1)
    OBVIOUS
  <2>3. 1 .. Len(<<>>) = {}
    BY <2>1
  <2> QED BY <2>1, <2>2, <2>3 DEF KeptTo, Ascending
<1> HIDE DEF size, P, D
<1>6. \A c \in D : c \in P
  BY <1>2, <1>3, SizeInduction
<1>7. <<1, <<>>>> \in P
  BY <1>4, <1>6
<1> QED BY <1>5, <1>7 DEF P, n

\* The tick forgets what was not written for long, and nothing else.
LEMMA ExpireKeeps ==
    ASSUME Ex!ExcludeAssumption, ExInv, Ex!Expire
    PROVE  ExInv'
<1>1. /\ exNow < LastExpiry /\ exNow' = exNow + 1 /\ UNCHANGED stepped
      /\ exNow \in Nat /\ LastExpiry \in Nat /\ exNow \in 0 .. LastExpiry
      /\ ExTtl \in Nat /\ ExMax \in Nat
      /\ stepped \in [Ex!Address -> -1 .. LastExpiry]
      /\ \A a \in Ex!Address : stepped[a] <= exNow
  BY DEF ExInv, RangesTyped, Ex!ExcludeAssumption, Ex!Expire
<1>2. KeptTo(Len(ex) + 1, ex')
  BY KeptAll DEF Ex!Expire, ExInv
<1>3. Len(ex) \in Nat /\ ex \in Seq(Stretch) /\ Len(ex) <= ExMax
  BY LenProperties DEF ExInv, RangesApart
<1>4. /\ ex' \in Seq(Stretch) /\ Len(ex') <= ExMax /\ Ascending(ex')
      /\ \A j \in 1 .. Len(ex') : \E l \in 1 .. Len(ex) : ex'[j] = ex[l]
      /\ \A l \in 1 .. Len(ex) :
            Lasts(ex[l]) => \E j \in 1 .. Len(ex') : ex'[j] = ex[l]
  <2>1. Len(ex') < Len(ex) + 1 /\ ex' \in Seq(Stretch) /\ Len(ex') \in Nat
    BY <1>2, LenProperties DEF KeptTo
  <2>2. Len(ex') <= ExMax
    BY <1>1, <1>3, <2>1
  <2>3. \A l \in 1 .. Len(ex) : l < Len(ex) + 1
    BY <1>3
  <2> QED BY <1>2, <2>2, <2>3 DEF KeptTo
<1>5. \A l \in 1 .. Len(ex) :
          /\ ex[l].lo < ex[l].hi /\ ex[l].seen <= exNow
          /\ ex[l].seen \in Nat
  BY ElementOfSeq, StretchFields DEF ExInv, RangesApart
<1>6. RangesTyped'
  <2>1. \A a \in Ex!Address : stepped'[a] <= exNow'
    <3> SUFFICES ASSUME NEW a \in Ex!Address PROVE stepped[a] <= exNow + 1
      BY <1>1
    <3>1. stepped[a] \in -1 .. LastExpiry /\ stepped[a] <= exNow
      BY <1>1
    <3> QED BY <1>1, <3>1
  <2> QED BY <1>1, <2>1 DEF RangesTyped
<1>7. RangesApart'
  <2>1. ASSUME NEW j \in 1 .. Len(ex')
        PROVE  ex'[j].lo < ex'[j].hi /\ ex'[j].seen <= exNow'
    <3>1. PICK l \in 1 .. Len(ex) : ex'[j] = ex[l]
      BY <1>4
    <3>2. ex[l].seen <= exNow + 1
      BY <1>1, <1>5
    <3> QED BY <1>1, <1>5, <3>1, <3>2
  <2> QED BY <1>4, <2>1 DEF RangesApart
<1>8. ASSUME NEW a \in Ex!Address, stepped'[a] # -1, exNow' - stepped'[a] <= ExTtl
      PROVE  \E j \in 1 .. Len(ex') : a \in Ex!Spans(ex'[j])
                                      /\ ex'[j].seen >= stepped'[a]
  <2>1. stepped[a] \in -1 .. LastExpiry /\ stepped[a] # -1
        /\ exNow + 1 - stepped[a] <= ExTtl
    BY <1>1, <1>8
  <2>2. exNow - stepped[a] <= ExTtl
    BY <1>1, <2>1
  <2>3. PICK l \in 1 .. Len(ex) : a \in Ex!Spans(ex[l]) /\ ex[l].seen >= stepped[a]
    BY <2>1, <2>2 DEF ExInv, RangesTell
  <2>4. Lasts(ex[l])
    <3>1. exNow + 1 - ex[l].seen <= ExTtl
      BY <1>1, <1>5, <2>1, <2>3
    <3> QED BY <3>1 DEF Lasts
  <2>5. PICK j \in 1 .. Len(ex') : ex'[j] = ex[l]
    BY <1>4, <2>4
  <2> QED BY <1>1, <2>3, <2>5
<1>9. ASSUME NEW j \in 1 .. Len(ex'), NEW a \in Ex!Spans(ex'[j])
      PROVE  stepped'[a] # -1
  <2>1. PICK l \in 1 .. Len(ex) : ex'[j] = ex[l]
    BY <1>4
  <2> QED BY <1>1, <2>1 DEF ExInv, RangesTell
<1>10. RangesTell'
  BY <1>8, <1>9 DEF RangesTell, Ex!Spans
<1> QED BY <1>6, <1>7, <1>10 DEF ExInv

LEMMA ExStart == ASSUME Ex!ExcludeAssumption, Ex!Init PROVE ExInv
<1>1. /\ ex = <<>> /\ exNow = 0 /\ stepped = [a \in Ex!Address |-> -1]
      /\ LastExpiry \in Nat /\ ExMax \in Nat
  BY DEF Ex!Init, Ex!ExcludeAssumption
<1>2. ex \in Seq(Stretch) /\ Len(ex) = 0 /\ 1 .. Len(ex) = {}
  BY <1>1
<1>3. RangesApart
  BY <1>1, <1>2 DEF RangesApart, Ascending
<1>4. RangesTell
  BY <1>1, <1>2 DEF RangesTell
<1>5. RangesTyped
  BY <1>1 DEF RangesTyped
<1> QED BY <1>3, <1>4, <1>5 DEF ExInv

LEMMA ExStep == ASSUME Ex!ExcludeAssumption, ExInv, [Ex!Next]_ranges PROVE ExInv'
<1>1. CASE UNCHANGED ranges
  BY <1>1 DEF ranges, ExInv, RangesApart, RangesTell, RangesTyped, Ascending,
              Ex!Spans
<1>2. CASE Ex!Expire
  BY <1>2, ExpireKeeps
<1>3. ASSUME NEW lo \in Ex!Address, NEW hi \in 1 .. Addresses, Ex!Exclude(lo, hi)
      PROVE  ExInv'
  <2>1. Len(ex) < ExMax \/ Len(ex) = ExMax
    BY LenProperties DEF ExInv, RangesApart, Ex!ExcludeAssumption
  <2> QED BY <1>3, <2>1, MergedKeeps, AddedKeeps, EvictedKeeps
<1> QED BY <1>1, <1>2, <1>3 DEF Ex!Next

LEMMA RangesStep == HostNext \/ UNCHANGED hostVars => [Ex!Next]_ranges
BY DEF HostNext, hostVars, Saving, Excluding, Decoding, Placing, Sounding,
       Watching, Masking, Mixing, Serving

\* Whatever the writes of SlideST and the ticks, and however ranges merge, grow
\* old and push each other out of a full list, the search of excluded finds
\* each address written in the last ticks that no eviction let go, and none
\* that was never written (exclude_range, ex_expire, excluded).
THEOREM FreshFound == HostSpec => [](FoundWhileFresh /\ Ex!ExTypeOK)
<1>1. HostInit => ExInv
  BY HostAssumption, ExStart DEF HostInit
<1>2. ExInv /\ [HostNext]_hostVars => ExInv'
  BY HostAssumption, RangesStep, ExStep
<1>3. ExInv => FoundWhileFresh /\ Ex!ExTypeOK
  BY HostAssumption, ExInvSays DEF FoundWhileFresh
<1>4. QED BY <1>1, <1>2, <1>3, PTL DEF HostSpec

-----------------------------------------------------------------------------
(* The values of the whole host. *)

\* Every variable of the host's machines keeps its values, for every number of
\* threads, writes, ranges, hunks, folders, voices and switches, and whoever
\* leaves and however often the importer's calls fail (all the modules' types).
THEOREM HostTypes == HostSpec => []HostTypeOK
<1> DEFINE I == FileTyped /\ PlayTyped /\ OrInv /\ ExInv
<1>1. HostInit => I
  BY HostAssumption, FileTypesStart, PlayTypesStart, OrStart, ExStart DEF HostInit
<1>2. I /\ [HostNext]_hostVars => I'
  BY HostAssumption, FileTypesStep, PlayTypesStep, OffroadSteps, OrStep, RangesStep,
     ExStep
<1>3. I => HostTypeOK
  BY HostAssumption, FileTypesSay, PlayTypesSay, OrInvSays, ExInvSays DEF HostTypeOK
<1>4. QED BY <1>1, <1>2, <1>3, PTL DEF HostSpec
=============================================================================
