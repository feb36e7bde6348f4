------------------------------- MODULE Voices --------------------------------
(***************************************************************************)
(* The voices of audio.c: the game's threads start and stop them, the      *)
(* mixer reads their samples on its own thread, one voice after the other  *)
(* under s_voice_cs, and a sound buffer's samples go back to the game's    *)
(* allocator when it is freed.  How far a voice has played is left open:   *)
(* it may reach its end whenever the mixer comes to it.                    *)
(***************************************************************************)
EXTENDS Integers

CONSTANTS
    NVoices,     \* AV_VOICES
    Buffers,     \* indices below AV_BUFFERS
    Banks,       \* blocks of samples in the game's memory
    NoBank       \* NULL

VoicesAssumption == NVoices \in Nat \ {0} /\ Buffers # {} /\ NoBank \notin Banks

VARIABLES
    voice,       \* s_voice: pcm, active, loop
    buffer,      \* s_buffer: pcm, loop
    allotted,    \* banks the game's allocator has handed out
    mixing,      \* the voice the mixer reads, 0 when it does not hold the lock
    freeing      \* _ymf_FreeSoundBuffer: how far, and its buffer and bank

voicesVars == <<voice, buffer, allotted, mixing, freeing>>
Vs == 1 .. NVoices
Idle == [at |-> "out", index |-> CHOOSE i \in Buffers : TRUE, pcm |-> NoBank]

VoicesTypeOK ==
    /\ voice \in [Vs -> [pcm : Banks \cup {NoBank}, active : BOOLEAN,
                         loop : BOOLEAN]]
    /\ buffer \in [Buffers -> [pcm : Banks \cup {NoBank}, loop : BOOLEAN]]
    /\ allotted \subseteq Banks
    /\ mixing \in 0 .. NVoices
    /\ freeing \in [at : {"out", "stop", "forget", "free"}, index : Buffers,
                    pcm : Banks \cup {NoBank}]

Init ==
    /\ voice = [v \in Vs |-> [pcm |-> NoBank, active |-> FALSE, loop |-> FALSE]]
    /\ buffer = [i \in Buffers |-> [pcm |-> NoBank, loop |-> FALSE]]
    /\ allotted = {} /\ mixing = 0 /\ freeing = Idle

LockFree == mixing = 0

----------------------------------------------------------------------------
\* The game's commands.

Allocate(i, b, loop) ==
    /\ freeing.at = "out" /\ b \notin allotted /\ buffer[i].pcm = NoBank
    /\ allotted' = allotted \cup {b}
    /\ buffer' = [buffer EXCEPT ![i] = [pcm |-> b, loop |-> loop]]
    /\ UNCHANGED <<voice, mixing, freeing>>

Looped(b) == \E i \in Buffers : buffer[i].pcm = b /\ buffer[i].loop

\* The game plays no bank that it has given back or is giving back.
Play(v, b, loop) ==
    /\ LockFree /\ b \in allotted \ {freeing.pcm}
    /\ voice' = [voice EXCEPT ![v] =
                    [pcm |-> b, active |-> TRUE, loop |-> loop \/ Looped(b)]]
    /\ UNCHANGED <<buffer, allotted, mixing, freeing>>

Stop(v) ==
    /\ LockFree /\ voice' = [voice EXCEPT ![v].active = FALSE]
    /\ UNCHANGED <<buffer, allotted, mixing, freeing>>

Shutdown ==
    /\ LockFree
    /\ voice' = [v \in Vs |-> [voice[v] EXCEPT !.active = FALSE]]
    /\ UNCHANGED <<buffer, allotted, mixing, freeing>>

----------------------------------------------------------------------------
\* _ymf_FreeSoundBuffer: the voices are stopped under the lock, then the
\* original runs.

Frees(i) ==
    /\ freeing.at = "out" /\ buffer[i].pcm # NoBank
    /\ freeing' = [at |-> "stop", index |-> i, pcm |-> buffer[i].pcm]
    /\ UNCHANGED <<voice, buffer, allotted, mixing>>

Stopped == [v \in Vs |-> IF voice[v].pcm = freeing.pcm
                         THEN [voice[v] EXCEPT !.active = FALSE, !.pcm = NoBank]
                         ELSE voice[v]]

\* Mutant of FreeStops: the voices are stopped without the lock.
FreeStopsUnlocked ==
    /\ freeing.at = "stop"
    /\ voice' = [v \in Vs |-> IF v = mixing THEN voice[v] ELSE Stopped[v]]
    /\ freeing' = [freeing EXCEPT !.at = "forget"]
    /\ UNCHANGED <<buffer, allotted, mixing>>

FreeStops ==
    /\ LockFree /\ freeing.at = "stop"
    /\ voice' = Stopped
    /\ freeing' = [freeing EXCEPT !.at = "forget"]
    /\ UNCHANGED <<buffer, allotted, mixing>>

FreeForgets ==
    /\ freeing.at = "forget"
    /\ buffer' = [buffer EXCEPT ![freeing.index] = [pcm |-> NoBank, loop |-> FALSE]]
    /\ freeing' = [freeing EXCEPT !.at = "free"]
    /\ UNCHANGED <<voice, allotted, mixing>>

FreeReturns ==
    /\ freeing.at = "free"
    /\ allotted' = allotted \ {freeing.pcm}
    /\ freeing' = Idle
    /\ UNCHANGED <<voice, buffer, mixing>>

----------------------------------------------------------------------------
\* mix_block.  Inside mix_voice the mixer reads the voice's bank.

MixBegins ==
    /\ LockFree /\ mixing' = 1
    /\ UNCHANGED <<voice, buffer, allotted, freeing>>

\* It reads the block's samples, or comes to the end: of a loop as well, when
\* one step is longer than the bank.
MixesOne ==
    /\ mixing > 0
    /\ \/ UNCHANGED voice
       \/ /\ voice[mixing].active /\ voice[mixing].pcm # NoBank
          /\ voice' = [voice EXCEPT ![mixing].active = FALSE]
    /\ mixing' = IF mixing < NVoices THEN mixing + 1 ELSE 0
    /\ UNCHANGED <<buffer, allotted, freeing>>

Next ==
    \/ \E b \in Banks, loop \in BOOLEAN :
          \/ \E i \in Buffers : Allocate(i, b, loop)
          \/ \E v \in Vs : Play(v, b, loop)
    \/ (\E v \in Vs : Stop(v)) \/ Shutdown
    \/ (\E i \in Buffers : Frees(i)) \/ FreeStops \/ FreeForgets \/ FreeReturns
    \/ MixBegins \/ MixesOne
Spec == Init /\ [][Next]_voicesVars

----------------------------------------------------------------------------
\* The mixer reads samples only of banks the game still has, however the frees
\* fall between its voices.
MixesLive ==
    mixing > 0 /\ voice[mixing].active /\ voice[mixing].pcm # NoBank
        => voice[mixing].pcm \in allotted
=============================================================================
