---------------------------- MODULE OffroadVoices ---------------------------
(* Offroad's voices (src/src/audio_offroad.c): the game allocates, starts, *)
(* changes, polls and frees them through the driver's table, the render    *)
(* thread mixes them under the same lock, and when it has stopped for a    *)
(* while the game's own polls move them on.                                *)
(*                                                                         *)
(* A cursor counts in Sub parts of a source frame and a rate in such parts *)
(* per output frame; a loops of 0 stands for every value without an end.   *)
(* Time is counted in output frames.  Gains and the master volume are left *)
(* out, and so are the calls of a held thread, which change nothing.       *)
EXTENDS Naturals, FiniteSets

CONSTANTS
    OrVoices,       \* OR_VOICES
    Samples,        \* pieces of sampled sound in the game's memory
    NoSample,       \* a null pcm_addr
    LengthOf,       \* the source frames of each sample
    Attrs,          \* what the game allocates a voice with
    Changes,        \* what it sets later: a mask and the values
    Sub,            \* parts of a source frame
    MaxDone,        \* the value loops_done saturates at; bound
    Stall,          \* OR_STALL_MS
    ElapsedMax,     \* the most that a catch-up makes up for
    Second,         \* the frames of one of its chunks
    Block,          \* frames the render thread asks for; bound
    MaxCalls        \* bound: the game's calls that change something

OffroadAssumption ==
    /\ OrVoices \in Nat \ {0} /\ Sub \in Nat \ {0} /\ Block \in Nat \ {0}
    /\ NoSample \notin Samples
    /\ LengthOf \in [Samples -> Nat \ {0}]
    /\ Attrs \subseteq [sample : Samples, loops : Nat, point : Nat,
                        rate : Nat \ {0}]
    /\ \A c \in Changes :
          /\ c.mask \subseteq {"rate", "loops", "point", "position", "playing"}
          /\ "rate" \in c.mask => c.rate \in Nat \ {0}
          /\ "loops" \in c.mask => c.loops \in Nat
          /\ "point" \in c.mask => c.point \in Nat
          /\ "position" \in c.mask => c.position \in Nat
          /\ "playing" \in c.mask => c.playing \in BOOLEAN
    /\ Stall \in 1 .. ElapsedMax /\ Second \in 1 .. ElapsedMax
    /\ MaxDone \in Nat /\ MaxCalls \in Nat /\ ElapsedMax \in Nat
    /\ \A a \in Attrs : a.loops <= MaxDone

VARIABLES
    sound,      \* s_voice
    allocated,  \* s_allocated
    idle,       \* output frames since s_last_advance_ms
    mixer,      \* the render thread: whether it has s_cs, the voice it is at,
                \* the frames left for it
    reading,    \* the source frames it reads right now
    loaded,     \* the samples that are in memory
    calls       \* the game's calls so far

offroad == <<sound, allocated, idle, mixer, reading, loaded, calls>>

Slots == 1 .. OrVoices
Voice ==
    [allocated : BOOLEAN, sample : Samples \cup {NoSample}, frames : Nat,
     loops : Nat, point : Nat, rate : Nat, done : 0 .. MaxDone, cursor : Nat,
     position : Nat, playing : BOOLEAN]
Idle == [holds |-> FALSE, slot |-> 1, left |-> Block]
FreeVoice ==
    [allocated |-> FALSE, sample |-> NoSample, frames |-> 0, loops |-> 0,
     point |-> 0, rate |-> 0, done |-> 0, cursor |-> 0, position |-> 0,
     playing |-> FALSE]

Init ==
    /\ sound = [s \in Slots |-> FreeVoice]
    /\ allocated = 0
    /\ idle = 0
    /\ mixer = Idle
    /\ reading = {}
    /\ loaded = Samples
    /\ calls = 0

-----------------------------------------------------------------------------
(* One voice and its cursor. *)

End(v) == v.frames * Sub
LoopPoint(v) == IF v.point < v.frames THEN v.point ELSE 0
Playable(v) ==
    v.allocated /\ v.sample # NoSample /\ v.frames # 0 /\ v.rate # 0

\* Complete one traversal, keeping what the cursor has gone past it.
FinishPass(v) ==
    LET done == IF v.done < MaxDone THEN v.done + 1 ELSE MaxDone
        over == IF v.cursor >= End(v) THEN v.cursor - End(v) ELSE 0
    IN  IF v.loops > 0 /\ done >= v.loops
        THEN [v EXCEPT !.done = done, !.cursor = End(v),
                       !.position = v.frames, !.playing = FALSE]
        ELSE [v EXCEPT !.done = done, !.cursor = LoopPoint(v) * Sub + over]

WithinPass[v \in Voice] ==
    IF v.playing /\ v.cursor >= End(v) THEN WithinPass[FinishPass(v)] ELSE v

\* A playing voice publishes the frame its cursor is in.
Positioned(v) ==
    IF v.playing THEN [v EXCEPT !.position = v.cursor \div Sub] ELSE v

NormalizeCursor(v) ==
    IF v.playing /\ ~Playable(v)
    THEN [v EXCEPT !.playing = FALSE]
    ELSE Positioned(WithinPass[v])

\* The voice a pair's first, so many parts further.
Move[m \in Voice \X Nat] ==
    LET v == m[1]
        delta == m[2]
        left == End(v) - v.cursor
    IN  IF delta = 0 \/ ~v.playing
        THEN v
        ELSE IF delta < left
        THEN [v EXCEPT !.cursor = @ + delta]
        ELSE Move[<<FinishPass([v EXCEPT !.cursor = End(v)]), delta - left>>]

\* Mutant of AdvanceDelta: what is left of the time at a traversal's end is lost.
AdvanceDropsRest(v, delta) ==
    LET n == NormalizeCursor(v)
        moved == IF n.cursor + delta < End(n)
                 THEN [n EXCEPT !.cursor = @ + delta]
                 ELSE FinishPass([n EXCEPT !.cursor = End(n)])
    IN  IF n.playing THEN Positioned(moved) ELSE n

AdvanceDelta(v, delta) ==
    LET n == NormalizeCursor(v)
    IN  IF n.playing THEN Positioned(Move[<<n, delta>>]) ELSE n

\* The chunks of a voice's catch-up by so many output frames.
AdvanceBy[a \in Voice \X Nat] ==
    LET v == a[1]
        frames == a[2]
    IN  IF frames = 0 \/ ~v.playing
        THEN v
        ELSE IF frames < Second
        THEN AdvanceDelta(v, v.rate * frames)
        ELSE AdvanceBy[<<AdvanceDelta(v, v.rate * Second), frames - Second>>]

-----------------------------------------------------------------------------
(* The game's calls.  Each holds the lock throughout, so none falls into   *)
(* the render thread's mix.                                                *)

Called == ~mixer.holds

Stalled == idle >= Stall
CaughtUp ==
    [s \in Slots |->
        IF Stalled /\ sound[s].rate # 0
        THEN AdvanceBy[<<sound[s], idle>>] ELSE sound[s]]
CatchUpClock == idle' = IF Stalled THEN 0 ELSE idle

Counting == calls < MaxCalls /\ calls' = calls + 1

OrInit ==
    /\ Called /\ Counting
    /\ sound' = [s \in Slots |-> FreeVoice] /\ allocated' = 0 /\ idle' = 0
    /\ UNCHANGED <<mixer, reading, loaded>>

OrUnInit ==
    /\ Called /\ Counting
    /\ sound' = [s \in Slots |-> FreeVoice] /\ allocated' = 0
    /\ UNCHANGED <<idle, mixer, reading, loaded>>

\* The first free voice, silent; without one the call fails.
Allocate(a) ==
    /\ Called /\ Counting
    /\ a.sample \in loaded
    /\ \E s \in Slots :
          /\ ~sound[s].allocated /\ \A r \in 1 .. s - 1 : sound[r].allocated
          /\ sound' = [sound EXCEPT ![s] =
                [FreeVoice EXCEPT !.allocated = TRUE, !.sample = a.sample,
                    !.frames = LengthOf[a.sample], !.loops = a.loops,
                    !.point = a.point, !.rate = a.rate]]
    /\ allocated' = allocated + 1
    /\ UNCHANGED <<idle, mixer, reading, loaded>>

\* Mutant of Deallocate: it does not wait for the mixer.
DeallocateUnlocked(s) ==
    /\ Counting
    /\ sound[s].allocated
    /\ sound' = [sound EXCEPT ![s] = FreeVoice]
    /\ allocated' = allocated - 1
    /\ UNCHANGED <<idle, mixer, reading, loaded>>

Deallocate(s) ==
    /\ Called /\ Counting
    /\ sound[s].allocated
    /\ sound' = [sound EXCEPT ![s] = FreeVoice]
    /\ allocated' = allocated - 1
    /\ UNCHANGED <<idle, mixer, reading, loaded>>

\* Mutant of GetAttr: a poll only looks.
GetAttrOnly ==
    /\ Called
    /\ UNCHANGED offroad

GetAttr ==
    /\ Called
    /\ sound' = CaughtUp /\ CatchUpClock
    /\ UNCHANGED <<allocated, mixer, reading, loaded, calls>>

\* The masked fields, in the order of the code; a start clears the count of
\* a voice that was not playing and normalises the cursor.
SetTo(v, c) ==
    LET has(f) == f \in c.mask
        at == IF c.position > v.frames THEN v.frames ELSE c.position
        set == [v EXCEPT
                  !.rate = IF has("rate") THEN c.rate ELSE @,
                  !.loops = IF has("loops") THEN c.loops ELSE @,
                  !.point = IF has("point") THEN c.point ELSE @,
                  !.position = IF has("position") THEN at ELSE @,
                  !.cursor = IF has("position") THEN at * Sub ELSE @]
    IN  IF ~has("playing") THEN set
        ELSE IF ~c.playing THEN [set EXCEPT !.playing = FALSE]
        ELSE NormalizeCursor(
                [set EXCEPT !.done = IF v.playing THEN @ ELSE 0,
                            !.playing = Playable(set)])

SetAttr(s, c) ==
    /\ Called /\ Counting
    /\ sound[s].allocated
    /\ sound' = [CaughtUp EXCEPT ![s] = SetTo(@, c)]
    /\ CatchUpClock
    /\ UNCHANGED <<allocated, mixer, reading, loaded>>

\* The game lets go of a sample that no voice of its own has, and reads
\* another one in its place, at any moment.
Unload(b) ==
    /\ b \in loaded /\ \A s \in Slots : sound[s].sample # b
    /\ loaded' = loaded \ {b}
    /\ UNCHANGED <<sound, allocated, idle, mixer, reading, calls>>
Load(b) ==
    /\ Counting
    /\ loaded' = loaded \cup {b}
    /\ UNCHANGED <<sound, allocated, idle, mixer, reading>>

-----------------------------------------------------------------------------
(* The render thread. *)

MixStart ==
    /\ ~mixer.holds
    /\ mixer' = [mixer EXCEPT !.holds = TRUE]
    /\ UNCHANGED <<sound, allocated, idle, reading, loaded, calls>>

\* The frame after this one, at the end of a traversal the next one's first.
FrameAfter(v, at) ==
    IF at + 1 < v.frames THEN at + 1
    ELSE IF v.loops = 0 \/ v.done + 1 < v.loops THEN LoopPoint(v)
    ELSE at

MixFrame ==
    LET s == mixer.slot
        v == NormalizeCursor(sound[s])
        at == v.cursor \div Sub
    IN  /\ mixer.holds /\ s \in Slots /\ mixer.left > 0
        /\ v.playing
        /\ reading' = {<<v.sample, i>> : i \in {at, FrameAfter(v, at)}}
        /\ sound' = [sound EXCEPT ![s] =
                        NormalizeCursor([v EXCEPT !.cursor = @ + v.rate])]
        /\ mixer' = [mixer EXCEPT !.left = @ - 1]
        /\ UNCHANGED <<allocated, idle, loaded, calls>>

\* The voice has stopped, by now or by its own end, or has its frames.
MixNext ==
    LET s == mixer.slot
    IN  /\ mixer.holds /\ s \in Slots
        /\ mixer.left = 0 \/ ~NormalizeCursor(sound[s]).playing
        /\ sound' = [sound EXCEPT ![s] = NormalizeCursor(@)]
        /\ mixer' = [mixer EXCEPT !.slot = s + 1, !.left = Block]
        /\ reading' = {}
        /\ UNCHANGED <<allocated, idle, loaded, calls>>

MixEnd ==
    /\ mixer.holds /\ mixer.slot \notin Slots
    /\ mixer' = Idle /\ idle' = 0
    /\ UNCHANGED <<sound, allocated, reading, loaded, calls>>

MixStep == MixFrame \/ MixNext \/ MixEnd

Elapse ==
    /\ idle < ElapsedMax
    /\ idle' = idle + 1
    /\ UNCHANGED <<sound, allocated, mixer, reading, loaded, calls>>

Next ==
    \/ OrInit \/ OrUnInit \/ GetAttr \/ MixStart \/ MixStep \/ Elapse
    \/ \E a \in Attrs : Allocate(a)
    \/ \E s \in Slots : Deallocate(s) \/ \E c \in Changes : SetAttr(s, c)
    \/ \E b \in Samples : Unload(b) \/ Load(b)

\* Time passes, the game polls its voices in every frame and a mix that has
\* begun ends.  That one begins is up to the device, which can be lost.
Spec ==
    /\ Init /\ [][Next]_offroad
    /\ WF_offroad(Elapse) /\ WF_offroad(GetAttr) /\ WF_offroad(MixStep)

-----------------------------------------------------------------------------
\* Values of the variables, and the count of the allocated voices.
OffroadTypeOK ==
    /\ \A s \in Slots :
          /\ sound[s] \in Voice
          /\ sound[s].position <= sound[s].frames
    /\ allocated = Cardinality({s \in Slots : sound[s].allocated})
    /\ idle \in 0 .. ElapsedMax
    /\ mixer \in [holds : BOOLEAN, slot : 1 .. OrVoices + 1, left : 0 .. Block]
    /\ loaded \subseteq Samples /\ calls \in 0 .. MaxCalls

\* Whatever the game changes under way, its positions, loop points and rates
\* included, the render thread reads source frames of a sample that is in
\* memory, and none past its end (mix_voice, or_Deallocate).
ReadsInside ==
    \A r \in reading : r[1] \in loaded /\ r[2] < LengthOf[r[1]]

\* Moving a voice on by a catch-up leaves it exactly where the same time of
\* mixing leaves it: at the same place of the same traversal, and stopped
\* when that stops it (advance_delta against mix_voice and finish_pass).
Mixed[m \in Voice \X Nat] ==
    LET n == NormalizeCursor(m[1])
    IN  IF m[2] = 0 \/ ~n.playing THEN n
        ELSE Mixed[<<NormalizeCursor([n EXCEPT !.cursor = @ + n.rate]),
                     m[2] - 1>>]
SamePace ==
    \A s \in Slots :
        sound[s].playing =>
            \A frames \in 1 .. ElapsedMax :
                AdvanceBy[<<sound[s], frames>>] = Mixed[<<sound[s], frames>>]

\* A voice that plays a finite number of times stops at some time, even when
\* the device is lost: the game waits for it before it unloads a bank
\* (catch_up_clock_locked).
Finite(s) == sound[s].playing /\ sound[s].loops > 0
Retires == \A s \in Slots : Finite(s) ~> ~Finite(s)
=============================================================================
