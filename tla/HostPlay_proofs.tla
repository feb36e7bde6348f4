-------------------------- MODULE HostPlay_proofs ----------------------------
(* What the host's machines for sound, for the cabinet's switches and for  *)
(* the interrupt mask keep, for every number of voices, buffers, banks,    *)
(* switches, coins, threads and nested regions.                           *)
EXTENDS MCHost, FiniteSetTheorems, TLAPS

\* A step of the host is a step of each machine, or leaves it alone.
LEMMA PlaySteps ==
    ASSUME [HostNext]_hostVars
    PROVE  [Vo!Next]_voices /\ [Sh!Next]_shell /\ [Next]_vars /\ [Wd!Next]_watchdog
BY DEF HostNext, hostVars, Saving, Excluding, Decoding, Placing, Sounding,
       Watching, Masking, Mixing, Serving, voices, shell, vars, watchdog

-----------------------------------------------------------------------------
(* The voices. *)

\* Whoever plays, plays a bank of the game's; once the free of a bank has
\* stopped its voices, none plays it until the bank is gone.
Live ==
    \A v \in Vo!Vs :
        voice[v].active /\ voice[v].pcm # NoBank =>
            /\ voice[v].pcm \in allotted
            /\ freeing.at \in {"forget", "free"} => voice[v].pcm # freeing.pcm
VoiceInv == Vo!VoicesTypeOK /\ Live

\* A free that nobody makes names some buffer and no bank.
LEMMA IdleType ==
    ASSUME Vo!VoicesAssumption
    PROVE  Vo!Idle \in [at : {"out", "stop", "forget", "free"}, index : Buffers,
                     pcm : Banks \cup {NoBank}]
<1>1. (CHOOSE i \in Buffers : TRUE) \in Buffers
  BY DEF Vo!VoicesAssumption
<1>2. QED BY <1>1 DEF Vo!Idle

LEMMA VoiceInit == ASSUME Vo!VoicesAssumption, Vo!Init PROVE VoiceInv
<1>1. Vo!VoicesTypeOK
  BY IdleType DEF Vo!VoicesAssumption, Vo!Init, Vo!VoicesTypeOK, Vo!Vs
<1>2. Live
  BY DEF Vo!Init, Live, Vo!Vs
<1>3. QED BY <1>1, <1>2 DEF VoiceInv

\* A step of the game on its voices and buffers.
LEMMA CommandKeeps ==
    ASSUME Vo!VoicesAssumption, VoiceInv, NEW b \in Banks, NEW loop \in BOOLEAN,
           \/ \E i \in Buffers : Vo!Allocate(i, b, loop)
           \/ \E v \in Vo!Vs : Vo!Play(v, b, loop)
    PROVE  VoiceInv'
<1>1. Vo!VoicesTypeOK /\ Live
  BY DEF VoiceInv
<1>2. ASSUME NEW i \in Buffers, Vo!Allocate(i, b, loop) PROVE VoiceInv'
  <2>1. Vo!VoicesTypeOK'
    BY <1>1, <1>2 DEF Vo!Allocate, Vo!VoicesTypeOK
  <2>2. Live'
    BY <1>1, <1>2 DEF Vo!Allocate, Live
  <2>3. QED BY <2>1, <2>2 DEF VoiceInv
<1>3. ASSUME NEW v \in Vo!Vs, Vo!Play(v, b, loop) PROVE VoiceInv'
  <2>1. Vo!Looped(b) \in BOOLEAN
    BY DEF Vo!Looped
  <2>2. (loop \/ Vo!Looped(b)) \in BOOLEAN
    BY <2>1
  <2>3. Vo!VoicesTypeOK'
    BY <1>1, <1>3, <2>2 DEF Vo!Play, Vo!VoicesTypeOK
  <2>4. Live'
    BY <1>1, <1>3 DEF Vo!Play, Live, Vo!VoicesTypeOK
  <2>5. QED BY <2>3, <2>4 DEF VoiceInv
<1>4. QED BY <1>2, <1>3

\* A step of a free, or one that stops voices.
LEMMA FreeKeeps ==
    ASSUME Vo!VoicesAssumption, VoiceInv,
           \/ (\E v \in Vo!Vs : Vo!Stop(v)) \/ Vo!Shutdown
           \/ (\E i \in Buffers : Vo!Frees(i))
           \/ Vo!FreeStops \/ Vo!FreeForgets \/ Vo!FreeReturns
    PROVE  VoiceInv'
<1>1. Vo!VoicesTypeOK /\ Live
  BY DEF VoiceInv
<1>2. ASSUME NEW v \in Vo!Vs, Vo!Stop(v) PROVE VoiceInv'
  BY <1>1, <1>2 DEF VoiceInv, Vo!Stop, Vo!VoicesTypeOK, Live
<1>3. CASE Vo!Shutdown
  <2>1. /\ voice' = [v \in Vo!Vs |-> [voice[v] EXCEPT !.active = FALSE]]
        /\ UNCHANGED <<buffer, allotted, mixing, freeing>>
    BY <1>3 DEF Vo!Shutdown
  <2>2. ASSUME NEW v \in Vo!Vs
        PROVE  /\ [voice[v] EXCEPT !.active = FALSE] \in
                      [pcm : Banks \cup {NoBank}, active : BOOLEAN, loop : BOOLEAN]
               /\ ~[voice[v] EXCEPT !.active = FALSE].active
    BY <1>1 DEF Vo!VoicesTypeOK
  <2>3. Vo!VoicesTypeOK'
    BY <1>1, <2>1, <2>2 DEF Vo!VoicesTypeOK
  <2>4. Live'
    BY <2>1, <2>2 DEF Live
  <2>5. QED BY <2>3, <2>4 DEF VoiceInv
<1>4. ASSUME NEW i \in Buffers, Vo!Frees(i) PROVE VoiceInv'
  BY <1>1, <1>4 DEF VoiceInv, Vo!Frees, Vo!VoicesTypeOK, Live
<1>5. CASE Vo!FreeStops
  <2>0. voice' = Vo!Stopped /\ freeing' = [freeing EXCEPT !.at = "forget"]
        /\ UNCHANGED <<buffer, allotted, mixing>>
    BY <1>5 DEF Vo!FreeStops
  <2>1. Vo!VoicesTypeOK'
    <3>1. ASSUME NEW v \in Vo!Vs
          PROVE  Vo!Stopped[v] \in [pcm : Banks \cup {NoBank}, active : BOOLEAN,
                                    loop : BOOLEAN]
      <4>1. voice[v] \in [pcm : Banks \cup {NoBank}, active : BOOLEAN, loop : BOOLEAN]
        BY <1>1 DEF Vo!VoicesTypeOK
      <4>2. [voice[v] EXCEPT !.active = FALSE, !.pcm = NoBank] \in
                [pcm : Banks \cup {NoBank}, active : BOOLEAN, loop : BOOLEAN]
        BY <4>1
      <4>3. Vo!Stopped[v] \in {voice[v], [voice[v] EXCEPT !.active = FALSE, !.pcm = NoBank]}
        BY DEF Vo!Stopped
      <4>4. QED BY <4>1, <4>2, <4>3
    <3>2. voice' \in [Vo!Vs -> [pcm : Banks \cup {NoBank}, active : BOOLEAN,
                                loop : BOOLEAN]]
      BY <2>0, <3>1 DEF Vo!Stopped
    <3>3. freeing' \in [at : {"out", "stop", "forget", "free"}, index : Buffers,
                        pcm : Banks \cup {NoBank}]
      <4>1. freeing \in [at : {"out", "stop", "forget", "free"}, index : Buffers,
                         pcm : Banks \cup {NoBank}]
        BY <1>1 DEF Vo!VoicesTypeOK
      <4>2. QED BY <2>0, <4>1
    <3>4. QED BY <1>1, <2>0, <3>2, <3>3 DEF Vo!VoicesTypeOK
  <2>2. ASSUME NEW v \in Vo!Vs, Vo!Stopped[v].active, Vo!Stopped[v].pcm # NoBank
        PROVE  Vo!Stopped[v] = voice[v] /\ voice[v].pcm # freeing.pcm
    BY <1>1, <2>2 DEF Vo!Stopped, Vo!VoicesTypeOK
  <2>3. Live'
    BY <1>1, <1>5, <2>2 DEF Vo!FreeStops, Live
  <2>4. QED BY <2>1, <2>3 DEF VoiceInv
<1>6. CASE Vo!FreeForgets
  BY <1>1, <1>6 DEF VoiceInv, Vo!FreeForgets, Vo!VoicesTypeOK, Live
<1>7. CASE Vo!FreeReturns
  <2>1. Vo!VoicesTypeOK'
    BY <1>1, <1>7, IdleType DEF Vo!FreeReturns, Vo!VoicesTypeOK
  <2>2. freeing'.at = "out"
    BY <1>7 DEF Vo!FreeReturns, Vo!Idle
  <2>3. Live'
    BY <1>1, <1>7, <2>2 DEF Vo!FreeReturns, Live
  <2>4. QED BY <2>1, <2>3 DEF VoiceInv
<1>8. QED BY <1>2, <1>3, <1>4, <1>5, <1>6, <1>7

\* A step of the mixer, which may stop a voice and starts none.
LEMMA MixKeeps ==
    ASSUME Vo!VoicesAssumption, VoiceInv, Vo!MixBegins \/ Vo!MixesOne
    PROVE  VoiceInv'
<1>1. Vo!VoicesTypeOK /\ Live
  BY DEF VoiceInv
<1>2. CASE Vo!MixBegins
  BY <1>1, <1>2 DEF VoiceInv, Vo!MixBegins, Vo!VoicesTypeOK, Live, Vo!VoicesAssumption
<1>3. CASE Vo!MixesOne
  <2>1. mixing \in Vo!Vs
    BY <1>1, <1>3 DEF Vo!MixesOne, Vo!VoicesTypeOK, Vo!Vs, Vo!VoicesAssumption
  <2>2. mixing' \in 0 .. NVoices
    BY <1>1, <1>3 DEF Vo!MixesOne, Vo!VoicesTypeOK, Vo!VoicesAssumption
  <2>3. CASE UNCHANGED voice
    BY <1>1, <1>3, <2>2, <2>3 DEF VoiceInv, Vo!MixesOne, Vo!VoicesTypeOK, Live
  <2>4. CASE voice' = [voice EXCEPT ![mixing].active = FALSE]
    BY <1>1, <1>3, <2>1, <2>2, <2>4 DEF VoiceInv, Vo!MixesOne, Vo!VoicesTypeOK, Live
  <2>5. QED BY <1>3, <2>3, <2>4 DEF Vo!MixesOne
<1>4. QED BY <1>2, <1>3

LEMMA VoiceStep == ASSUME Vo!VoicesAssumption, VoiceInv, [Vo!Next]_voices PROVE VoiceInv'
<1>1. CASE UNCHANGED voices
  BY <1>1 DEF VoiceInv, Vo!VoicesTypeOK, Live, voices
<1>2. CASE Vo!Next
  BY <1>2, CommandKeeps, FreeKeeps, MixKeeps DEF Vo!Next
<1>3. QED BY <1>1, <1>2

LEMMA LiveMixes == ASSUME Vo!VoicesAssumption, VoiceInv PROVE Vo!MixesLive
BY DEF Vo!VoicesAssumption, VoiceInv, Vo!VoicesTypeOK, Live, Vo!MixesLive, Vo!Vs

\* However the frees fall between the mixer's voices, it never reads a bank
\* that has gone back to the game's allocator (av_free_buffer, mix_block).
THEOREM VoicesSafety == HostSpec => []MixesLive
<1>1. HostInit => VoiceInv
  BY HostAssumption, VoiceInit DEF HostInit
<1>2. VoiceInv /\ [HostNext]_hostVars => VoiceInv'
  BY HostAssumption, PlaySteps, VoiceStep
<1>3. VoiceInv => MixesLive
  BY HostAssumption, LiveMixes DEF MixesLive
<1>4. QED BY <1>1, <1>2, <1>3, PTL DEF HostSpec

-----------------------------------------------------------------------------
(* The edges. *)

Counts == [Switches -> [Sh!Kinds -> Nat]]
EdgeType ==
    /\ level \subseteq Switches /\ edges \in Counts /\ moved \in Counts
    /\ record \in [level : SUBSET Switches, edges : Counts]
    /\ heard \in [level : SUBSET Switches, edges : Counts]
    /\ handshake \in BOOLEAN /\ goose \in {"waits", "copied"}

\* The levels of a set are where the edges e lead to, as the shell's own are
\* where all the edges lead to.
Leads(set, e) ==
    \A s \in Switches :
        Sh!Bit(s, level) + moved[s]["open"] + e[s]["close"] =
            Sh!Bit(s, set) + moved[s]["close"] + e[s]["open"]
Fresh == goose = "waits" /\ ~handshake

EdgeInv ==
    /\ EdgeType
    /\ goose = "copied" => ~handshake
    /\ shpc = "hand" =>
          /\ handshake /\ record.level = level /\ record.edges = edges
          /\ moved = Sh!Plus(heard.edges, edges)
    /\ shpc # "hand" => moved = Sh!Plus(heard.edges, Sh!Plus(edges, Sh!Unread))
    /\ Leads(heard.level, heard.edges)
    /\ Fresh => Leads(record.level, Sh!Plus(heard.edges, record.edges))

LEMMA NoneType == Sh!None \in Counts
BY DEF Sh!None, Counts

LEMMA PlusType ==
    ASSUME NEW e \in Counts, NEW f \in Counts
    PROVE  /\ Sh!Plus(e, f) \in Counts
           /\ \A s \in Switches, n \in Sh!Kinds :
                 Sh!Plus(e, f)[s][n] = e[s][n] + f[s][n]
BY DEF Sh!Plus, Counts

LEMMA CountsEqual ==
    ASSUME NEW e \in Counts, NEW f \in Counts,
           \A s \in Switches, n \in Sh!Kinds : e[s][n] = f[s][n]
    PROVE  e = f
<1>1. ASSUME NEW s \in Switches PROVE e[s] = f[s]
  <2>1. e[s] \in [Sh!Kinds -> Nat] /\ f[s] \in [Sh!Kinds -> Nat]
    BY DEF Counts
  <2>2. QED BY <2>1
<1>2. QED BY <1>1 DEF Counts

LEMMA PlusNone ==
    ASSUME NEW e \in Counts PROVE Sh!Plus(e, Sh!None) = e
<1>1. Sh!Plus(e, Sh!None) \in Counts
  BY NoneType, PlusType
<1>2. ASSUME NEW s \in Switches, NEW n \in Sh!Kinds
      PROVE  Sh!Plus(e, Sh!None)[s][n] = e[s][n]
  <2>1. Sh!Plus(e, Sh!None)[s][n] = e[s][n] + Sh!None[s][n]
    BY NoneType, PlusType
  <2>2. Sh!None[s][n] = 0 /\ e[s][n] \in Nat
    BY DEF Sh!None, Counts
  <2>3. QED BY <2>1, <2>2
<1>3. QED BY <1>1, <1>2, CountsEqual

LEMMA PlusAssociates ==
    ASSUME NEW e \in Counts, NEW f \in Counts, NEW g \in Counts
    PROVE  Sh!Plus(e, Sh!Plus(f, g)) = Sh!Plus(Sh!Plus(e, g), f)
<1>1. /\ Sh!Plus(f, g) \in Counts /\ Sh!Plus(e, g) \in Counts
      /\ Sh!Plus(e, Sh!Plus(f, g)) \in Counts /\ Sh!Plus(Sh!Plus(e, g), f) \in Counts
  BY PlusType
<1>2. ASSUME NEW s \in Switches, NEW n \in Sh!Kinds
      PROVE  Sh!Plus(e, Sh!Plus(f, g))[s][n] = Sh!Plus(Sh!Plus(e, g), f)[s][n]
  <2>1. /\ Sh!Plus(e, Sh!Plus(f, g))[s][n] = e[s][n] + Sh!Plus(f, g)[s][n]
        /\ Sh!Plus(f, g)[s][n] = f[s][n] + g[s][n]
        /\ Sh!Plus(Sh!Plus(e, g), f)[s][n] = Sh!Plus(e, g)[s][n] + f[s][n]
        /\ Sh!Plus(e, g)[s][n] = e[s][n] + g[s][n]
    BY <1>1, PlusType
  <2>2. e[s][n] \in Nat /\ f[s][n] \in Nat /\ g[s][n] \in Nat
    BY DEF Counts
  <2>3. QED BY <2>1, <2>2
<1>3. QED BY <1>1, <1>2, CountsEqual

LEMMA UnreadType == ASSUME EdgeType PROVE Sh!Unread \in Counts
BY NoneType DEF Sh!Unread, EdgeType

LEMMA BitType == \A s, set : Sh!Bit(s, set) \in {0, 1}
BY DEF Sh!Bit

LEMMA EdgesInit == ASSUME Sh!Init PROVE EdgeInv
<1>1. EdgeType
  BY NoneType DEF Sh!Init, EdgeType
<1>2. Sh!Unread = Sh!None
  BY DEF Sh!Init, Sh!Unread
<1>3. Sh!Plus(Sh!None, Sh!None) = Sh!None
  BY NoneType, PlusNone
<1>4. Leads(level, Sh!None)
  <2>1. \A s \in Switches, n \in Sh!Kinds : Sh!None[s][n] = 0
    BY DEF Sh!None
  <2>2. QED BY <2>1, BitType DEF Leads, Sh!Kinds, Sh!Init
<1>5. QED BY <1>1, <1>2, <1>3, <1>4 DEF Sh!Init, EdgeInv

\* Steps that leave the edges alone.
LEMMA EdgesStand ==
    ASSUME EdgeInv,
           UNCHANGED <<level, edges, record, handshake, goose, heard, moved>>,
           shpc' = shpc \/ (shpc # "hand" /\ shpc' # "hand")
    PROVE  EdgeInv'
BY DEF EdgeInv, EdgeType, Sh!Unread, Fresh, Leads, Sh!Plus

LEMMA SampleKeepsEdges ==
    ASSUME EdgeInv, NEW now \in SUBSET Switches, Sh!Sample(now) PROVE EdgeInv'
<1> DEFINE moves == [s \in Switches |->
              [close |-> IF s \in now \ level THEN 1 ELSE 0,
               open |-> IF s \in level \ now THEN 1 ELSE 0]]
<1>1. EdgeType
  BY DEF EdgeInv
<1>2. moves \in Counts
  BY DEF Counts, Sh!Kinds
<1>3. /\ edges' = Sh!Plus(edges, moves) /\ moved' = Sh!Plus(moved, moves)
      /\ level' = now /\ shpc = "top" /\ shpc' = "coins"
      /\ UNCHANGED <<record, handshake, goose, heard>>
  BY DEF Sh!Sample, Sh!At, Sh!game
<1>4. EdgeType'
  BY <1>1, <1>2, <1>3, PlusType DEF EdgeType
<1>5. moved' = Sh!Plus(heard.edges, Sh!Plus(edges', Sh!Unread))
  <2>1. /\ Sh!Unread \in Counts /\ heard.edges \in Counts /\ edges \in Counts
        /\ Sh!Plus(edges, Sh!Unread) \in Counts
    BY <1>1, UnreadType, PlusType DEF EdgeType
  <2>2. moved' = Sh!Plus(Sh!Plus(heard.edges, Sh!Plus(edges, Sh!Unread)), moves)
    BY <1>3 DEF EdgeInv
  <2>3. Sh!Plus(heard.edges, Sh!Plus(moves, Sh!Plus(edges, Sh!Unread))) = moved'
    BY <1>2, <2>1, <2>2, PlusAssociates
  <2>4. Sh!Plus(moves, Sh!Plus(edges, Sh!Unread)) = Sh!Plus(Sh!Plus(edges, moves), Sh!Unread)
    <3> DEFINE l == Sh!Plus(moves, Sh!Plus(edges, Sh!Unread))
               r == Sh!Plus(Sh!Plus(edges, moves), Sh!Unread)
    <3>1. l \in Counts /\ r \in Counts /\ Sh!Plus(edges, moves) \in Counts
      BY <1>2, <2>1, PlusType
    <3>2. ASSUME NEW s \in Switches, NEW n \in Sh!Kinds PROVE l[s][n] = r[s][n]
      <4>1. /\ l[s][n] = moves[s][n] + Sh!Plus(edges, Sh!Unread)[s][n]
            /\ Sh!Plus(edges, Sh!Unread)[s][n] = edges[s][n] + Sh!Unread[s][n]
            /\ r[s][n] = Sh!Plus(edges, moves)[s][n] + Sh!Unread[s][n]
            /\ Sh!Plus(edges, moves)[s][n] = edges[s][n] + moves[s][n]
        BY <1>2, <2>1, <3>1, PlusType
      <4>2. /\ moves[s][n] \in Nat /\ edges[s][n] \in Nat
            /\ Sh!Unread[s][n] \in Nat
        BY <1>2, <2>1 DEF Counts
      <4>3. QED BY <4>1, <4>2
    <3>3. QED BY <3>1, <3>2, CountsEqual
  <2>5. QED BY <1>3, <2>3, <2>4
<1>6. ASSUME NEW set, NEW e \in Counts, Leads(set, e) PROVE Leads(set, e)'
  <2> SUFFICES ASSUME NEW s \in Switches
               PROVE  Sh!Bit(s, now) + moved'[s]["open"] + e[s]["close"] =
                        Sh!Bit(s, set) + moved'[s]["close"] + e[s]["open"]
    BY <1>3 DEF Leads, Sh!Bit
  <2>1. /\ moved'[s]["open"] = moved[s]["open"] + moves[s]["open"]
        /\ moved'[s]["close"] = moved[s]["close"] + moves[s]["close"]
    BY <1>1, <1>2, <1>3, PlusType DEF EdgeType, Sh!Kinds
  <2>2. Sh!Bit(s, now) + moves[s]["open"] = Sh!Bit(s, level) + moves[s]["close"]
    BY <1>1 DEF EdgeType, Sh!Bit
  <2>3. /\ moved[s]["open"] \in Nat /\ moved[s]["close"] \in Nat
        /\ e[s]["open"] \in Nat /\ e[s]["close"] \in Nat
        /\ moves[s]["open"] \in Nat /\ moves[s]["close"] \in Nat
    BY <1>1, <1>2 DEF EdgeType, Counts, Sh!Kinds
  <2>4. Sh!Bit(s, level) + moved[s]["open"] + e[s]["close"] =
            Sh!Bit(s, set) + moved[s]["close"] + e[s]["open"]
    BY <1>6 DEF Leads
  <2>5. Sh!Bit(s, level) \in {0, 1} /\ Sh!Bit(s, now) \in {0, 1}
        /\ Sh!Bit(s, set) \in {0, 1}
    BY BitType
  <2> HIDE DEF moves
  <2>6. QED BY <2>1, <2>2, <2>3, <2>4, <2>5
<1>7. Sh!Plus(heard.edges, record.edges) \in Counts /\ heard.edges \in Counts
  BY <1>1, PlusType DEF EdgeType
<1>8. Leads(heard.level, heard.edges)'
  <2>1. Leads(heard.level, heard.edges)
    BY DEF EdgeInv
  <2>2. QED BY <1>3, <1>6, <1>7, <2>1 DEF Leads
<1>9. Fresh' => Leads(record.level, Sh!Plus(heard.edges, record.edges))'
  <2>1. Fresh => Leads(record.level, Sh!Plus(heard.edges, record.edges))
    BY DEF EdgeInv
  <2>2. ASSUME Fresh
        PROVE  Leads(record.level, Sh!Plus(heard.edges, record.edges))'
    <3>1. Leads(record.level, Sh!Plus(heard.edges, record.edges))
      BY <2>1, <2>2
    <3>2. \A s \in Switches :
              Sh!Bit(s, level') + moved'[s]["open"]
                  + Sh!Plus(heard.edges, record.edges)[s]["close"] =
                Sh!Bit(s, record.level) + moved'[s]["close"]
                  + Sh!Plus(heard.edges, record.edges)[s]["open"]
      BY <1>6, <1>7, <3>1 DEF Leads
    <3>3. Sh!Plus(heard'.edges, record'.edges) = Sh!Plus(heard.edges, record.edges)
      BY <1>3
    <3>4. QED BY <1>3, <3>2, <3>3 DEF Leads
  <2>3. QED BY <1>3, <2>2 DEF Fresh
<1>10. QED BY <1>3, <1>4, <1>5, <1>8, <1>9 DEF EdgeInv, Sh!Unread

\* The copy of a record, its hand-over, and goose's two steps.
LEMMA HandKeepsEdges ==
    ASSUME EdgeInv, Sh!Post \/ Sh!HandOver \/ Sh!GooseCopies \/ Sh!GooseRaises
    PROVE  EdgeInv'
<1>1. EdgeType
  BY DEF EdgeInv
<1>2. CASE Sh!Post
  <2>1. /\ shpc = "post" /\ shpc' = "hand" /\ handshake
        /\ record' = [level |-> level, edges |-> edges]
        /\ UNCHANGED <<level, edges, handshake, goose, heard, moved>>
    BY <1>2 DEF Sh!Post, Sh!At, Sh!game
  <2>2. moved = Sh!Plus(heard.edges, edges)
    <3>1. Sh!Unread = Sh!None
      BY <2>1 DEF Sh!Unread
    <3>2. QED BY <1>1, <2>1, <3>1, PlusNone DEF EdgeInv, EdgeType
  <2>3. QED BY <1>1, <2>1, <2>2 DEF EdgeInv, EdgeType, Fresh, Leads
<1>3. CASE Sh!HandOver
  <2>1. /\ shpc = "hand" /\ shpc' = "top" /\ edges' = Sh!None
        /\ handshake' = FALSE
        /\ UNCHANGED <<level, record, goose, heard, moved>>
    BY <1>3 DEF Sh!HandOver, Sh!At, Sh!game
  <2>2. /\ goose = "waits" /\ record.level = level /\ record.edges = edges
        /\ moved = Sh!Plus(heard.edges, edges)
    BY <1>1, <2>1 DEF EdgeInv, EdgeType
  <2>3. EdgeType'
    <3>1. handshake' \in BOOLEAN
      BY <2>1
    <3>2. level' \subseteq Switches /\ edges' \in Counts /\ moved' \in Counts
      BY <1>1, <2>1, NoneType DEF EdgeType
    <3>3. /\ record' \in [level : SUBSET Switches, edges : Counts]
          /\ heard' \in [level : SUBSET Switches, edges : Counts]
          /\ goose' \in {"waits", "copied"}
      BY <1>1, <2>1 DEF EdgeType
    <3>4. QED BY <3>1, <3>2, <3>3 DEF EdgeType
  <2>4. Sh!Plus(Sh!None, edges) = edges
    <3>1. Sh!Plus(Sh!None, Sh!Plus(Sh!None, edges)) = Sh!Plus(Sh!Plus(Sh!None, edges), Sh!None)
      BY <1>1, NoneType, PlusAssociates DEF EdgeType
    <3>2. Sh!Plus(Sh!None, edges) \in Counts
      BY <1>1, NoneType, PlusType DEF EdgeType
    <3>3. ASSUME NEW s \in Switches, NEW n \in Sh!Kinds
          PROVE  Sh!Plus(Sh!None, edges)[s][n] = edges[s][n]
      <4>1. Sh!Plus(Sh!None, edges)[s][n] = Sh!None[s][n] + edges[s][n]
        BY <1>1, NoneType, PlusType DEF EdgeType
      <4>2. Sh!None[s][n] = 0 /\ edges[s][n] \in Nat
        BY <1>1 DEF EdgeType, Sh!None, Counts
      <4>3. QED BY <4>1, <4>2
    <3>4. QED BY <1>1, <3>2, <3>3, CountsEqual DEF EdgeType
  <2>5. Sh!Unread' = edges
    BY <2>1, <2>2 DEF Sh!Unread
  <2>6. moved' = Sh!Plus(heard.edges, Sh!Plus(edges, Sh!Unread))'
    BY <2>1, <2>2, <2>4, <2>5 DEF Sh!Plus
  <2>7. Leads(level, moved)
    <3>1. ASSUME NEW s \in Switches
          PROVE  moved[s]["open"] \in Nat /\ moved[s]["close"] \in Nat
      BY <1>1 DEF EdgeType, Counts, Sh!Kinds
    <3>2. ASSUME NEW s \in Switches
          PROVE  Sh!Bit(s, level) + moved[s]["open"] + moved[s]["close"] =
                   Sh!Bit(s, level) + moved[s]["close"] + moved[s]["open"]
      <4>1. Sh!Bit(s, level) \in {0, 1}
        BY BitType
      <4>2. QED BY <3>1, <4>1
    <3>3. QED BY <3>2 DEF Leads
  <2>8. Leads(heard.level, heard.edges)'
    BY <2>1 DEF EdgeInv, Leads
  <2>9. Leads(record.level, Sh!Plus(heard.edges, record.edges))'
    <3>1. /\ heard'.edges = heard.edges /\ record'.edges = edges
          /\ record'.level = level /\ level' = level /\ moved' = moved
      BY <2>1, <2>2
    <3>2. Sh!Plus(heard'.edges, record'.edges) = moved
      BY <2>2, <3>1
    <3>3. QED BY <2>7, <3>1, <3>2 DEF Leads
  <2>10. QED BY <2>1, <2>2, <2>3, <2>6, <2>8, <2>9 DEF EdgeInv
<1>4. CASE Sh!GooseCopies
  <2>1. /\ Fresh /\ goose' = "copied"
        /\ heard' = [level |-> record.level,
                     edges |-> Sh!Plus(heard.edges, record.edges)]
        /\ UNCHANGED <<shpc, level, edges, record, handshake, moved>>
    BY <1>4 DEF Sh!GooseCopies, Sh!board, Fresh
  <2>2. EdgeType'
    BY <1>1, <2>1, PlusType DEF EdgeType
  <2>3. shpc # "hand" /\ Sh!Unread = record.edges /\ Sh!Unread' = Sh!None
    BY <2>1 DEF EdgeInv, Fresh, Sh!Unread, Sh!None
  <2>4. moved' = Sh!Plus(heard.edges, Sh!Plus(edges, Sh!Unread))'
    <3>1. moved = Sh!Plus(Sh!Plus(heard.edges, record.edges), edges)
      BY <1>1, <2>3, PlusAssociates DEF EdgeInv, EdgeType
    <3>2. Sh!Plus(edges, Sh!None) = edges
      BY <1>1, PlusNone DEF EdgeType
    <3>3. QED BY <2>1, <2>3, <3>1, <3>2 DEF Sh!Plus
  <2>5. Leads(heard.level, heard.edges)'
    BY <2>1 DEF EdgeInv, Leads
  <2>6. QED BY <2>1, <2>2, <2>3, <2>4, <2>5 DEF EdgeInv, Fresh
<1>5. CASE Sh!GooseRaises
  <2>1. /\ goose = "copied" /\ goose' = "waits" /\ handshake' = TRUE
        /\ UNCHANGED <<shpc, level, edges, record, heard, moved>>
    BY <1>5 DEF Sh!GooseRaises, Sh!board
  <2>2. EdgeType'
    <3>1. handshake' \in BOOLEAN
      BY <2>1
    <3>2. QED BY <1>1, <2>1, <3>1 DEF EdgeType
  <2>3. shpc # "hand" /\ Sh!Unread = Sh!None /\ Sh!Unread' = Sh!None
    BY <2>1 DEF EdgeInv, Sh!Unread, Sh!None
  <2>4. QED BY <2>1, <2>2, <2>3 DEF EdgeInv, Fresh, Leads, Sh!Plus
<1>6. QED BY <1>2, <1>3, <1>4, <1>5

LEMMA EdgesStep == ASSUME EdgeInv, [Sh!Next]_shell PROVE EdgeInv'
<1>1. CASE UNCHANGED shell
  BY <1>1, EdgesStand DEF shell
<1>2. CASE Sh!Leave \/ Sh!SkipSample \/ Sh!AddCoin \/ Sh!CapCoin \/ Sh!CoinsDone
  BY <1>2, EdgesStand
     DEF Sh!Leave, Sh!SkipSample, Sh!AddCoin, Sh!CapCoin, Sh!CoinsDone, Sh!At, Sh!game
<1>3. CASE \/ Sh!Lock \/ (\E c \in Sh!Slots : Sh!Spend(c)) \/ Sh!Spent \/ Sh!NoSpending
           \/ Sh!AddService \/ Sh!CapService \/ Sh!NoService \/ Sh!NoPost \/ Sh!Stop
  BY <1>3, EdgesStand
     DEF Sh!Lock, Sh!Spend, Sh!Spent, Sh!NoSpending, Sh!AddService, Sh!CapService, Sh!NoService,
         Sh!NoPost, Sh!Stop, Sh!At, Sh!game
<1>4. CASE Sh!ReadPaid \/ Sh!AskSpending \/ Sh!SeesAnswer \/ \E q \in Sh!Requests : Sh!Ask(q)
  BY <1>4, EdgesStand DEF Sh!ReadPaid, Sh!AskSpending, Sh!SeesAnswer, Sh!Ask, Sh!board
<1>5. CASE \E now \in SUBSET Switches : Sh!Sample(now)
  BY <1>5, SampleKeepsEdges
<1>6. CASE Sh!Post \/ Sh!HandOver \/ Sh!GooseCopies \/ Sh!GooseRaises
  BY <1>6, HandKeepsEdges
<1>7. QED BY <1>1, <1>2, <1>3, <1>4, <1>5, <1>6
          DEF Sh!Next, Sh!ShellStep, Sh!GameStep

-----------------------------------------------------------------------------
(* The credits. *)

Caps == {"capcoin", "capservice"}
CreditType ==
    /\ credits \in [Sh!Slots -> Nat]
    /\ coins \subseteq DOMAIN CoinUnits
    /\ put \in Int /\ paidFor \in Nat /\ saw \in Nat
    /\ asked \in [Sh!Requests -> Nat] /\ asked["subtract"] \in {0, Price}
    /\ gpc \in {"free", "reads"} \cup Sh!Requests

\* A spending is under way only inside serve and while the game waits for it.
Asking ==
    /\ gpc # "subtract" => asked["subtract"] = 0
    /\ spend # Nothing =>
          /\ shpc = "spend" /\ asked["subtract"] = Price
          /\ spend \in 0 .. Price

\* What the game asks for, or is about to, is there: nothing but a spending
\* takes credits below the most, and the most pays any price.
Owed == IF spend = Nothing THEN Price ELSE spend
Covered ==
    /\ asked["subtract"] = Price => Sh!Total >= Owed
    /\ gpc = "reads" => saw <= credits["paid"] \/ Sh!Total >= MaxCredits

\* Past the most there is only what was added just now.
Capped ==
    /\ shpc \notin Caps => Sh!Total <= MaxCredits
    /\ shpc = "capcoin" => credits["service"] <= MaxCredits
    /\ shpc = "capservice" => credits["paid"] <= MaxCredits

CreditInv ==
    /\ CreditType /\ Asking /\ Covered /\ Capped
    /\ Sh!Total + Sh!Taken + paidFor = put

\* How much of the price the shell has taken is between nothing and all of it.
LEMMA TakenType ==
    ASSUME Sh!ShellAssumption, CreditType, Asking
    PROVE  Sh!Taken \in Int /\ Sh!Total \in Nat /\ Owed \in Nat /\ Price \in Nat
BY DEF Sh!ShellAssumption, CreditType, Asking, Sh!Taken, Sh!Total, Owed, Sh!Slots

LEMMA CreditsInit == ASSUME Sh!ShellAssumption, Sh!Init PROVE CreditInv
BY DEF Sh!ShellAssumption, Sh!Init, CreditInv, CreditType, Asking, Covered, Owed,
       Capped, Caps, Sh!Total, Sh!Taken, Sh!Slots, Sh!Requests

\* Steps that leave the credits and their requests alone.
LEMMA CreditsStand ==
    ASSUME CreditInv, coins' \subseteq DOMAIN CoinUnits,
           UNCHANGED <<credits, put, paidFor, saw, asked, gpc, spend>>,
           shpc' = shpc \/ (shpc' \notin Caps /\ shpc \notin Caps
                             /\ spend = Nothing)
    PROVE  CreditInv'
BY DEF CreditInv, CreditType, Asking, Covered, Owed, Capped, Caps, Sh!Total,
       Sh!Taken

\* add_credits, from the addition to the cap.
LEMMA AddKeeps ==
    ASSUME Sh!ShellAssumption, CreditInv, Sh!AddCoin \/ Sh!AddService PROVE CreditInv'
<1>1. CreditType /\ Asking /\ Covered /\ Capped
  BY DEF CreditInv
<1>2. ASSUME NEW kind \in Sh!Slots, NEW n \in Nat,
             credits' = [credits EXCEPT ![kind] = @ + n], put' = put + n,
             coins' \subseteq DOMAIN CoinUnits,
             UNCHANGED <<paidFor, saw, asked, gpc, spend>>,
             shpc \notin Caps, spend = Nothing,
             shpc' = IF kind = "paid" THEN "capcoin" ELSE "capservice"
      PROVE  CreditInv'
  <2>1. /\ credits["paid"] \in Nat /\ credits["service"] \in Nat
        /\ credits'["paid"] \in Nat /\ credits'["service"] \in Nat
        /\ credits'["paid"] >= credits["paid"]
        /\ Sh!Total' = Sh!Total + n
    BY <1>1, <1>2 DEF CreditType, Sh!Slots, Sh!Total
  <2>2. CreditType'
    <3>1. put' \in Int
      BY <1>1, <1>2 DEF CreditType
    <3>2. credits' \in [Sh!Slots -> Nat]
      BY <1>1, <1>2 DEF CreditType
    <3>3. QED BY <1>1, <1>2, <3>1, <3>2 DEF CreditType
  <2>3. Asking'
    BY <1>1, <1>2 DEF Asking
  <2>4. Sh!Total \in Nat /\ Sh!Taken \in Int /\ Owed \in Nat
    BY <1>1, TakenType
  <2>5. Covered'
    <3>1. Owed' = Owed
      BY <1>2 DEF Owed
    <3>2. asked'["subtract"] = Price => Sh!Total' >= Owed'
      BY <1>1, <1>2, <2>1, <2>4, <3>1 DEF Covered
    <3>3. gpc' = "reads" => saw' <= credits'["paid"] \/ Sh!Total' >= MaxCredits
      <4>1. saw \in Nat /\ MaxCredits \in Nat
        BY <1>1 DEF CreditType, Sh!ShellAssumption
      <4>2. QED BY <1>1, <1>2, <2>1, <2>4, <4>1 DEF Covered
    <3>4. QED BY <3>2, <3>3 DEF Covered
  <2>6. Capped'
    <3>1. Sh!Total <= MaxCredits
      BY <1>1, <1>2 DEF Capped
    <3>2. credits["paid"] <= MaxCredits /\ credits["service"] <= MaxCredits
      BY <2>1, <3>1 DEF Sh!Total, Sh!ShellAssumption
    <3>3. /\ kind = "paid" => credits'["service"] = credits["service"]
          /\ kind = "service" => credits'["paid"] = credits["paid"]
      BY <1>1, <1>2 DEF CreditType, Sh!Slots
    <3>4. QED BY <1>2, <3>2, <3>3 DEF Capped, Caps, Sh!Slots
  <2>7. Sh!Total' + Sh!Taken' + paidFor' = put'
    <3>1. Sh!Taken' = Sh!Taken
      BY <1>2 DEF Sh!Taken
    <3>2. Sh!Total + Sh!Taken + paidFor = put /\ paidFor \in Nat /\ put \in Int
      BY <1>1 DEF CreditInv, CreditType
    <3>3. QED BY <1>2, <2>1, <2>4, <3>1, <3>2
  <2>8. QED BY <2>2, <2>3, <2>5, <2>6, <2>7 DEF CreditInv
<1>3. CASE Sh!AddCoin
  <2>1. PICK c \in coins :
            /\ credits' = [credits EXCEPT !["paid"] =
                              @ + CoinUnits[c] \div PerCredit]
            /\ put' = put + CoinUnits[c] \div PerCredit
            /\ coins' = coins \ {c}
    BY <1>3 DEF Sh!AddCoin
  <2>2. CoinUnits[c] \div PerCredit \in Nat
    <3>1. CoinUnits[c] \in Nat /\ PerCredit \in Nat \ {0}
      BY <1>1, <2>1 DEF CreditType, Sh!ShellAssumption
    <3>2. QED BY <3>1
  <2>3. /\ shpc = "coins" /\ shpc' = "capcoin"
        /\ UNCHANGED <<paidFor, saw, asked, gpc, spend>>
        /\ coins' \subseteq DOMAIN CoinUnits
    BY <1>1, <1>3, <2>1 DEF Sh!AddCoin, CreditType, Sh!game
  <2>4. spend = Nothing /\ shpc \notin Caps /\ "paid" \in Sh!Slots
    BY <1>1, <2>3 DEF Asking, Caps, Sh!Slots
  <2>5. QED BY <1>2, <2>1, <2>2, <2>3, <2>4
<1>4. CASE Sh!AddService
  <2>1. /\ shpc = "service" /\ shpc' = "capservice"
        /\ credits' = [credits EXCEPT !["service"] = @ + 1] /\ put' = put + 1
        /\ UNCHANGED <<coins, paidFor, saw, asked, gpc, spend>>
    BY <1>4 DEF Sh!AddService, Sh!At, Sh!game
  <2>2. /\ spend = Nothing /\ shpc \notin Caps /\ "service" \in Sh!Slots
        /\ coins' \subseteq DOMAIN CoinUnits
    BY <1>1, <2>1 DEF Asking, Caps, Sh!Slots, CreditType
  <2>3. QED BY <1>2, <2>1, <2>2
<1>5. QED BY <1>3, <1>4

LEMMA CapKeeps ==
    ASSUME Sh!ShellAssumption, CreditInv, Sh!CapCoin \/ Sh!CapService PROVE CreditInv'
<1>1. CreditType /\ Asking /\ Covered /\ Capped
  BY DEF CreditInv
<1>2. ASSUME NEW kind \in Sh!Slots, Sh!Cap(kind),
             shpc = IF kind = "paid" THEN "capcoin" ELSE "capservice",
             shpc' \notin Caps,
             UNCHANGED <<coins, paidFor, saw, gpc, spend>>,
             asked' \in [Sh!Requests -> Nat],
             asked'["subtract"] = asked["subtract"]
      PROVE  CreditInv'
  <2>1. Sh!Total \in Nat /\ Sh!Taken \in Int /\ Owed \in Nat /\ Price \in Nat
    BY <1>1, TakenType
  <2>2. MaxCredits \in Nat /\ Price <= MaxCredits
    BY DEF Sh!ShellAssumption
  <2>3. credits["paid"] \in Nat /\ credits["service"] \in Nat
    BY <1>1 DEF CreditType, Sh!Slots
  <2>4. Sh!Past \in Nat /\ Sh!Past <= credits[kind]
    <3>1. CASE kind = "paid"
      BY <1>1, <1>2, <2>2, <2>3, <3>1 DEF Sh!Past, Sh!Total, Capped
    <3>2. CASE kind = "service"
      BY <1>1, <1>2, <2>2, <2>3, <3>2 DEF Sh!Past, Sh!Total, Capped
    <3>3. QED BY <3>1, <3>2 DEF Sh!Slots
  <2>5. credits' \in [Sh!Slots -> Nat] /\ put' \in Int
    <3>1. credits[kind] - Sh!Past \in Nat
      BY <1>1, <2>4 DEF CreditType
    <3>2. put \in Int
      BY <1>1 DEF CreditType
    <3>3. QED BY <1>1, <1>2, <2>4, <3>1, <3>2 DEF CreditType, Sh!Cap
  <2>6. /\ Sh!Total' = Sh!Total - Sh!Past /\ put' = put - Sh!Past
        /\ Sh!Total' = IF Sh!Total > MaxCredits THEN MaxCredits ELSE Sh!Total
    <3>1. Sh!Total' = Sh!Total - Sh!Past
      BY <1>1, <1>2, <2>3, <2>4 DEF Sh!Cap, Sh!Total, CreditType, Sh!Slots
    <3>2. put' = put - Sh!Past
      BY <1>2 DEF Sh!Cap
    <3>3. Sh!Total - Sh!Past = IF Sh!Total > MaxCredits THEN MaxCredits ELSE Sh!Total
      BY <2>1, <2>2 DEF Sh!Past
    <3>4. QED BY <3>1, <3>2, <3>3
  <2>7. CreditType'
    BY <1>1, <1>2, <2>5 DEF CreditType
  <2>8. spend = Nothing
    BY <1>1, <1>2 DEF Asking, Sh!Slots
  <2>9. Asking'
    BY <1>1, <1>2, <2>8 DEF Asking
  <2>10. Covered'
    <3>1. asked'["subtract"] = Price => Sh!Total' >= Owed'
      BY <1>1, <1>2, <2>1, <2>2, <2>6, <2>8 DEF Covered, Owed
    <3>2. gpc' = "reads" => saw' <= credits'["paid"] \/ Sh!Total' >= MaxCredits
      <4>1. CASE Sh!Total > MaxCredits
        BY <2>2, <2>6, <4>1
      <4>2. CASE ~(Sh!Total > MaxCredits)
        <5>1. Sh!Past = 0
          BY <4>2 DEF Sh!Past
        <5>2. credits' = credits
          <6>1. credits[kind] - 0 = credits[kind]
            BY <1>1 DEF CreditType
          <6>2. QED BY <1>1, <1>2, <5>1, <6>1 DEF Sh!Cap, CreditType
        <5>3. Sh!Total' = Sh!Total
          BY <5>2 DEF Sh!Total
        <5>4. QED BY <1>1, <1>2, <5>2, <5>3 DEF Covered
      <4>3. QED BY <4>1, <4>2
    <3>3. QED BY <3>1, <3>2 DEF Covered
  <2>11. Capped'
    BY <1>2, <2>1, <2>2, <2>6 DEF Capped, Caps
  <2>12. Sh!Total' + Sh!Taken' + paidFor' = put'
    <3>1. Sh!Taken' = Sh!Taken
      BY <1>2 DEF Sh!Taken
    <3>2. Sh!Total + Sh!Taken + paidFor = put /\ paidFor \in Nat /\ put \in Int
      BY <1>1 DEF CreditInv, CreditType
    <3>3. QED BY <1>2, <2>1, <2>4, <2>6, <3>1, <3>2
  <2>13. QED BY <2>7, <2>9, <2>10, <2>11, <2>12 DEF CreditInv
<1>3. CASE Sh!CapCoin
  <2>1. /\ shpc = "capcoin" /\ shpc' = "coins" /\ Sh!Cap("paid")
        /\ UNCHANGED <<coins, paidFor, saw, gpc, spend, asked>>
    BY <1>3 DEF Sh!CapCoin, Sh!At, Sh!game
  <2>2. QED BY <1>1, <1>2, <2>1 DEF CreditType, Sh!Slots, Caps
<1>4. CASE Sh!CapService
  <2>1. /\ shpc = "capservice" /\ shpc' = "post" /\ Sh!Cap("service")
        /\ asked' = [asked EXCEPT !["service"] = 0]
        /\ UNCHANGED <<coins, paidFor, saw, gpc, spend>>
    BY <1>4 DEF Sh!CapService, Sh!At, Sh!game
  <2>2. /\ asked' \in [Sh!Requests -> Nat]
        /\ asked'["subtract"] = asked["subtract"]
    BY <1>1, <2>1 DEF CreditType, Sh!Requests
  <2>3. QED BY <1>2, <2>1, <2>2 DEF Sh!Slots, Caps
<1>5. QED BY <1>3, <1>4

\* What serve answers of the rest, and the steps that leave credits alone.
LEMMA OthersKeepCredits ==
    ASSUME Sh!ShellAssumption, CreditInv,
           \/ Sh!Leave \/ Sh!SkipSample \/ Sh!CoinsDone \/ Sh!NoSpending \/ Sh!NoService
           \/ Sh!NoPost \/ Sh!Post \/ Sh!HandOver \/ Sh!Stop \/ Sh!GooseCopies \/ Sh!GooseRaises
           \/ \E now \in SUBSET Switches : Sh!Sample(now)
    PROVE  CreditInv'
<1>1. CreditType /\ Asking
  BY DEF CreditInv
<1>2. CASE Sh!Leave \/ Sh!SkipSample \/ Sh!CoinsDone \/ Sh!NoSpending \/ Sh!NoService \/ Sh!HandOver
  BY <1>1, <1>2, CreditsStand
     DEF Sh!Leave, Sh!SkipSample, Sh!CoinsDone, Sh!NoSpending, Sh!NoService, Sh!HandOver, Sh!At,
         Sh!game, Caps, Asking, CreditType
<1>3. CASE Sh!Stop \/ Sh!GooseCopies \/ Sh!GooseRaises
  BY <1>1, <1>3, CreditsStand
     DEF Sh!Stop, Sh!GooseCopies, Sh!GooseRaises, Sh!board, Sh!game, CreditType
<1>4. ASSUME NEW now \in SUBSET Switches, Sh!Sample(now) PROVE CreditInv'
  BY <1>1, <1>4, CreditsStand DEF Sh!Sample, Sh!At, Sh!game, Caps, Asking
<1>5. CASE Sh!NoPost \/ Sh!Post
  <2>1. /\ shpc = "post" /\ shpc' \notin Caps /\ Sh!Cleared
        /\ UNCHANGED <<credits, coins, put, paidFor, saw, gpc, spend>>
    BY <1>5 DEF Sh!NoPost, Sh!Post, Sh!At, Sh!game, Caps
  <2>2. /\ asked' \in [Sh!Requests -> Nat]
        /\ asked'["subtract"] = asked["subtract"]
    BY <1>1, <2>1 DEF CreditType, Sh!Cleared, Sh!Requests
  <2>3. spend = Nothing /\ shpc \notin Caps
    BY <1>1, <2>1 DEF Asking, Caps
  <2>4. QED
    BY <2>1, <2>2, <2>3
       DEF CreditInv, CreditType, Asking, Covered, Owed, Capped, Caps, Sh!Total,
           Sh!Taken
<1>6. QED BY <1>2, <1>3, <1>4, <1>5

\* serve takes a spending, unit by unit, and answers when it has it all.
LEMMA SpendKeeps ==
    ASSUME Sh!ShellAssumption, CreditInv,
           Sh!Lock \/ Sh!Spent \/ \E c \in Sh!Slots : Sh!Spend(c)
    PROVE  CreditInv'
<1>1. /\ CreditType /\ Asking /\ Covered /\ Capped
      /\ Sh!Total + Sh!Taken + paidFor = put
  BY DEF CreditInv
<1>2. /\ Price \in Nat /\ Price > 0 /\ MaxCredits \in Nat
      /\ \A n \in Nat : Nothing # n
  BY DEF Sh!ShellAssumption
<1>3. /\ credits["paid"] \in Nat /\ credits["service"] \in Nat
      /\ paidFor \in Nat /\ put \in Int
  BY <1>1 DEF CreditType, Sh!Slots
<1>4. CASE Sh!Lock
  <2>1. /\ shpc = "lock" /\ shpc' = "spend" /\ spend = Nothing
        /\ asked' = [asked EXCEPT !["lock"] = IF @ = 1 THEN 2 ELSE @]
        /\ spend' = IF asked["subtract"] = 0 THEN Nothing
                    ELSE asked["subtract"]
        /\ UNCHANGED <<credits, coins, put, paidFor, saw, gpc>>
    BY <1>1, <1>4 DEF Sh!Lock, Sh!At, Sh!game, Asking
  <2>2. /\ asked' \in [Sh!Requests -> Nat]
        /\ asked'["subtract"] = asked["subtract"]
    BY <1>1, <2>1 DEF CreditType, Sh!Requests
  <2>3. CreditType' /\ Asking' /\ Capped'
    BY <1>1, <1>2, <2>1, <2>2 DEF CreditType, Asking, Capped, Caps, Sh!Total
  <2>4. Sh!Total' = Sh!Total
    BY <2>1 DEF Sh!Total
  <2>5. Covered'
    BY <1>1, <1>2, <2>1, <2>2, <2>4 DEF CreditType, Covered, Owed
  <2>6. Sh!Taken' = Sh!Taken
    BY <1>1, <1>2, <2>1, <2>2 DEF CreditType, Sh!Taken
  <2>7. QED BY <1>1, <2>1, <2>3, <2>4, <2>5, <2>6 DEF CreditInv
<1>5. ASSUME NEW c \in Sh!Slots, Sh!Spend(c) PROVE CreditInv'
  <2>1. /\ shpc = "spend" /\ shpc' = "spend" /\ spend # Nothing
        /\ spend # 0 /\ credits[c] > 0 /\ spend' = spend - 1
        /\ credits' = [credits EXCEPT ![c] = @ - 1]
        /\ UNCHANGED <<coins, put, paidFor, saw, gpc, asked>>
    BY <1>5 DEF Sh!Spend, Sh!At, Sh!game
  <2>2. /\ asked["subtract"] = Price /\ spend \in 1 .. Price
        /\ gpc = "subtract" /\ spend' \in 0 .. Price /\ spend' # Nothing
    BY <1>1, <1>2, <2>1 DEF Asking
  <2>3. credits[c] \in Nat /\ credits' \in [Sh!Slots -> Nat]
    BY <1>1, <2>1 DEF CreditType
  <2>4. Sh!Total' = Sh!Total - 1 /\ Sh!Total \in Nat
    BY <1>1, <1>3, <2>1 DEF Sh!Total, CreditType, Sh!Slots
  <2>5. CreditType' /\ Asking'
    BY <1>1, <2>1, <2>2, <2>3 DEF CreditType, Asking
  <2>6. Covered'
    BY <1>1, <2>1, <2>2, <2>4 DEF Covered, Owed
  <2>7. Capped'
    BY <1>1, <1>2, <2>1, <2>4 DEF Capped, Caps
  <2>8. Sh!Taken' = Sh!Taken + 1 /\ Sh!Taken \in Int
    BY <1>2, <2>1, <2>2 DEF Sh!Taken
  <2>9. Sh!Total' + Sh!Taken' + paidFor' = put'
    BY <1>1, <1>3, <2>1, <2>4, <2>8
  <2>10. QED BY <2>5, <2>6, <2>7, <2>9 DEF CreditInv
<1>6. CASE Sh!Spent
  <2>1. /\ shpc = "spend" /\ shpc' = "service" /\ spend # Nothing
        /\ spend = 0 \/ Sh!Total = 0
        /\ asked' = [asked EXCEPT !["subtract"] = 0] /\ spend' = Nothing
        /\ UNCHANGED <<credits, coins, put, paidFor, saw, gpc>>
    BY <1>6 DEF Sh!Spent, Sh!At, Sh!game
  <2>2. /\ asked["subtract"] = Price /\ spend \in 0 .. Price
        /\ gpc = "subtract"
    BY <1>1, <1>2, <2>1 DEF Asking
  <2>3. spend = 0
    BY <1>1, <2>1, <2>2 DEF Covered, Owed
  <2>4. asked' \in [Sh!Requests -> Nat] /\ asked'["subtract"] = 0
    BY <1>1, <2>1 DEF CreditType, Sh!Requests
  <2>5. CreditType' /\ Asking' /\ Capped'
    BY <1>1, <2>1, <2>2, <2>4 DEF CreditType, Asking, Capped, Caps, Sh!Total
  <2>6. Covered'
    BY <1>2, <2>1, <2>2, <2>4 DEF Covered
  <2>7. Sh!Total' = Sh!Total /\ Sh!Taken' = Sh!Taken
    BY <1>2, <2>1, <2>2, <2>3, <2>4 DEF Sh!Total, Sh!Taken
  <2>8. QED BY <1>1, <2>1, <2>5, <2>6, <2>7 DEF CreditInv
<1>7. QED BY <1>4, <1>5, <1>6

\* The game asks, and looks for the answer.
LEMMA GameKeeps ==
    ASSUME Sh!ShellAssumption, CreditInv,
           Sh!ReadPaid \/ Sh!AskSpending \/ Sh!SeesAnswer \/ \E q \in Sh!Requests : Sh!Ask(q)
    PROVE  CreditInv'
<1>1. /\ CreditType /\ Asking /\ Covered /\ Capped
      /\ Sh!Total + Sh!Taken + paidFor = put
  BY DEF CreditInv
<1>2. /\ Price \in Nat /\ Price > 0 /\ Price <= MaxCredits
      /\ MaxCredits \in Nat /\ \A n \in Nat : Nothing # n
  BY DEF Sh!ShellAssumption
<1>3. /\ credits["paid"] \in Nat /\ credits["service"] \in Nat
      /\ paidFor \in Nat /\ put \in Int /\ saw \in Nat
  BY <1>1 DEF CreditType, Sh!Slots
<1>4. ASSUME NEW q \in Sh!Requests, Sh!Ask(q) PROVE CreditInv'
  <2>1. /\ gpc = "free" /\ gpc' = q /\ q # "subtract"
        /\ asked' = [asked EXCEPT ![q] = 1]
        /\ UNCHANGED <<shpc, credits, coins, put, paidFor, saw, spend>>
    BY <1>4 DEF Sh!Ask, Sh!board
  <2>2. /\ asked' \in [Sh!Requests -> Nat]
        /\ asked'["subtract"] = asked["subtract"] /\ asked["subtract"] = 0
    BY <1>1, <2>1 DEF CreditType, Asking, Sh!Requests
  <2>3. CreditType' /\ Asking' /\ Capped'
    BY <1>1, <2>1, <2>2 DEF CreditType, Asking, Capped, Sh!Total
  <2>4. Covered'
    BY <1>2, <2>1, <2>2 DEF Covered, Sh!Requests
  <2>5. Sh!Total' = Sh!Total /\ Sh!Taken' = Sh!Taken
    BY <2>1 DEF Sh!Total, Sh!Taken
  <2>6. QED BY <1>1, <2>1, <2>3, <2>4, <2>5 DEF CreditInv
<1>5. CASE Sh!ReadPaid
  <2>1. /\ gpc = "free" /\ gpc' = "reads" /\ saw' = credits["paid"]
        /\ UNCHANGED <<shpc, credits, coins, put, paidFor, asked, spend>>
    BY <1>5 DEF Sh!ReadPaid, Sh!board
  <2>2. CreditType' /\ Asking' /\ Capped'
    BY <1>1, <1>3, <2>1 DEF CreditType, Asking, Capped, Sh!Total
  <2>3. Covered'
    BY <1>1, <1>2, <1>3, <2>1 DEF Covered, Asking
  <2>4. Sh!Total' = Sh!Total /\ Sh!Taken' = Sh!Taken
    BY <2>1 DEF Sh!Total, Sh!Taken
  <2>5. QED BY <1>1, <2>1, <2>2, <2>3, <2>4 DEF CreditInv
<1>6. CASE Sh!AskSpending
  <2>1. /\ gpc = "reads" /\ saw' = 0 /\ asked["subtract"] = 0
        /\ spend = Nothing
        /\ UNCHANGED <<shpc, credits, coins, put, paidFor, spend>>
    BY <1>1, <1>2, <1>6 DEF Sh!AskSpending, Sh!board, Asking
  <2>2. CASE /\ saw + credits["service"] >= Price /\ gpc' = "subtract"
             /\ asked' = [asked EXCEPT !["subtract"] = Price]
    <3>1. asked' \in [Sh!Requests -> Nat] /\ asked'["subtract"] = Price
      BY <1>1, <1>2, <2>2 DEF CreditType, Sh!Requests
    <3>2. CreditType' /\ Asking' /\ Capped'
      BY <1>1, <2>1, <2>2, <3>1
         DEF CreditType, Asking, Capped, Sh!Total, Sh!Requests
    <3>3. Sh!Total >= Price
      BY <1>1, <1>2, <1>3, <2>1, <2>2 DEF Covered, Sh!Total
    <3>4. Covered'
      BY <2>1, <2>2, <3>1, <3>3 DEF Covered, Owed, Sh!Total
    <3>5. Sh!Total' = Sh!Total /\ Sh!Taken' = Sh!Taken
      BY <1>2, <2>1, <2>2, <3>1 DEF Sh!Total, Sh!Taken
    <3>6. QED BY <1>1, <2>1, <3>2, <3>4, <3>5 DEF CreditInv
  <2>3. CASE gpc' = "free" /\ UNCHANGED asked
    <3>1. CreditType' /\ Asking' /\ Capped' /\ Covered'
      BY <1>1, <1>2, <2>1, <2>3
         DEF CreditType, Asking, Capped, Covered, Sh!Total
    <3>2. Sh!Total' = Sh!Total /\ Sh!Taken' = Sh!Taken
      BY <2>1, <2>3 DEF Sh!Total, Sh!Taken
    <3>3. QED BY <1>1, <2>1, <3>1, <3>2 DEF CreditInv
  <2>4. QED BY <1>6, <2>2, <2>3 DEF Sh!AskSpending
<1>7. CASE Sh!SeesAnswer
  <2>1. /\ gpc \in Sh!Requests /\ Sh!Answered(gpc) /\ gpc' = "free"
        /\ paidFor' = IF gpc = "subtract" THEN paidFor + Price ELSE paidFor
        /\ asked' = [asked EXCEPT ![gpc] = 0]
        /\ UNCHANGED <<shpc, credits, coins, put, saw, spend>>
    BY <1>7 DEF Sh!SeesAnswer, Sh!board
  <2>2. asked["subtract"] = 0
    BY <1>1, <2>1 DEF Sh!Answered, Asking
  <2>3. asked' \in [Sh!Requests -> Nat] /\ asked'["subtract"] = 0
    BY <1>1, <2>1, <2>2 DEF CreditType, Sh!Requests
  <2>4. spend = Nothing
    BY <1>1, <1>2, <2>2 DEF Asking
  <2>5. CreditType' /\ Asking' /\ Capped'
    BY <1>1, <1>2, <1>3, <2>1, <2>3, <2>4
       DEF CreditType, Asking, Capped, Sh!Total
  <2>6. Covered'
    BY <1>2, <2>1, <2>3 DEF Covered
  <2>7. Sh!Total' = Sh!Total /\ Sh!Taken' + paidFor' = Sh!Taken + paidFor
    BY <1>2, <1>3, <2>1, <2>2 DEF Sh!Total, Sh!Taken
  <2>8. Sh!Total' + Sh!Taken' + paidFor' = put'
    <3>1. Sh!Taken' \in Int /\ Sh!Taken \in Int /\ Sh!Total \in Nat
      BY <1>2, <1>3, <2>1, <2>2 DEF Sh!Taken, Sh!Total
    <3>2. paidFor' \in Nat
      BY <1>2, <1>3, <2>1
    <3>3. QED BY <1>1, <1>3, <2>1, <2>7, <3>1, <3>2
  <2>9. QED BY <2>5, <2>6, <2>8 DEF CreditInv
<1>8. QED BY <1>4, <1>5, <1>6, <1>7

LEMMA CreditsStep ==
    ASSUME Sh!ShellAssumption, CreditInv, [Sh!Next]_shell PROVE CreditInv'
<1>1. CASE UNCHANGED shell
  BY <1>1, CreditsStand DEF shell, CreditInv, CreditType
<1>2. CASE Sh!ShellStep \/ Sh!Stop
  BY <1>2, AddKeeps, CapKeeps, OthersKeepCredits, SpendKeeps DEF Sh!ShellStep
<1>3. CASE Sh!GameStep
  BY <1>3, OthersKeepCredits, GameKeeps DEF Sh!GameStep
<1>4. QED BY <1>1, <1>2, <1>3 DEF Sh!Next

-----------------------------------------------------------------------------
\* Every edge of every switch reaches the game once, in a record whose levels
\* agree with it, wherever the copy and the handshake fall (post).
THEOREM EdgesCounted == HostSpec => []Counted
<1>1. HostInit => EdgeInv
  BY EdgesInit DEF HostInit
<1>2. EdgeInv /\ [HostNext]_hostVars => EdgeInv'
  BY PlaySteps, EdgesStep
<1>3. EdgeInv => Counted
  BY DEF EdgeInv, Leads, Counted, Sh!Counted
<1>4. QED BY <1>1, <1>2, <1>3, PTL DEF HostSpec

\* The credits there are, those in the middle of a spending and those the game
\* has are the ones that were taken in (add_credits, serve).
THEOREM CreditsKept == HostSpec => []Credited
<1>1. HostInit => CreditInv
  BY HostAssumption, CreditsInit DEF HostInit
<1>2. CreditInv /\ [HostNext]_hostVars => CreditInv'
  BY HostAssumption, PlaySteps, CreditsStep
<1>3. CreditInv => Credited
  BY DEF CreditInv, Capped, Caps, Credited, Sh!Credited
<1>4. QED BY <1>1, <1>2, <1>3, PTL DEF HostSpec

-----------------------------------------------------------------------------
(* What emulating cli and sti gives for any number of threads that execute *)
(* them, whichever of them is the frame boundary's.                        *)
(*                                                                         *)
(* EntersOpen compares the depth with the regions that are open, which     *)
(* DepthTells does: with nothing lost the depth is their number, and       *)
(* between the decrement of a bare sti and its clamp, where it may be below *)
(* zero, there are none.  DepthTells alone is not inductive.  Bounded says *)
(* that, whatever was lost, the depth never exceeds that number and is     *)
(* below zero only in a bare sti: so it is zero when a loss ends, and a    *)
(* waiter that gives up waited for a region.  HealsEmulating says that a   *)
(* cli under way has room for its level, and that the mask is opened by    *)
(* hand only once the emulation is off.                                    *)

Bounded ==
    emulate => depth <= Cardinality(Regions) /\ (depth < 0 => Clamping # {})

HealsEmulating ==
    \A t \in Cpus :
        /\ hpc[t] = "cli" => lvl[t] < MaxLvl
        /\ hpc[t] = "open" => ~emulate

IInv == TypeOK /\ DepthTells /\ Bounded /\ HealsEmulating

\* The threads have finitely many regions open.
LEMMA FiniteSlots == IsFiniteSet(Cpus \X (1 .. MaxLvl))
<1>1. IsFiniteSet(Cpus)
  BY FS_Union, IrqAssumption DEF Cpus
<1>2. IsFiniteSet(1 .. MaxLvl)
  BY FS_Interval, IrqAssumption
<1> QED BY <1>1, <1>2, FS_Product

LEMMA FiniteRegions == IsFiniteSet(Regions)
<1>1. Regions \subseteq Cpus \X (1 .. MaxLvl)
  BY DEF Regions
<1> QED BY <1>1, FiniteSlots, FS_Subset

\* A thread inside a region makes Regions nonempty, and without any there is
\* no such thread.
LEMMA OpenRegion ==
    ASSUME TypeOK
    PROVE  Regions = {} <=> \A t \in Cpus : lvl[t] = 0
<1>1. ASSUME NEW t \in Cpus, lvl[t] # 0 PROVE <<t, lvl[t]>> \in Regions
  <2>1. lvl[t] \in 1 .. MaxLvl
    BY <1>1, IrqAssumption DEF TypeOK
  <2> QED BY <2>1 DEF Regions
<1>2. ASSUME NEW r \in Regions PROVE r[1] \in Cpus /\ lvl[r[1]] # 0
  BY DEF Regions, TypeOK
<1> QED BY <1>1, <1>2

\* With no thread inside one, the count of the open regions is zero, and the
\* other way round.
LEMMA NoRegions == (Regions = {}) <=> (Cardinality(Regions) = 0)
BY FiniteRegions, FS_EmptySet

\* A step that leaves the levels, the depth and the bare stis alone.
LEMMA DepthStays ==
    ASSUME DepthTells, Bounded, UNCHANGED <<depth, lvl>>, emulate' => emulate,
           lost' = lost, Clamping' = Clamping
    PROVE  DepthTells' /\ Bounded'
<1>1. Regions' = Regions
  BY DEF Regions
<1> QED BY <1>1 DEF DepthTells, Bounded

\* Without a region and without a bare sti the depth is zero, whatever was lost.
LEMMA CalmTells ==
    ASSUME TypeOK, Bounded, Calm
    PROVE  DepthTells
<1>1. Clamping = {} /\ Cardinality(Regions) = 0
  BY FS_EmptySet DEF Calm
<1>2. emulate => depth = 0
  <2>1. emulate => depth <= 0 /\ ~(depth < 0)
    BY <1>1 DEF Bounded
  <2>2. depth \in Int
    BY DEF TypeOK
  <2> QED BY <2>1, <2>2
<1> QED BY <1>1, <1>2 DEF DepthTells

\* A thread in a region keeps the count of the regions above zero.
LEMMA CountRegions ==
    /\ Cardinality(Regions) \in Nat
    /\ Regions # {} => Cardinality(Regions) > 0
<1>1. Cardinality(Regions) \in Nat
  BY FiniteRegions, FS_CardinalityType
<1> QED BY <1>1, NoRegions

\* The fault of a cli or sti is taken: nothing of the mask moves yet.
LEMMA FaultStep ==
    ASSUME IInv, NEW t \in Cpus, NEW op \in {"cli", "sti"}, Fault(t, op)
    PROVE  IInv'
<1>1. TypeOK /\ DepthTells /\ Bounded /\ HealsEmulating
  BY DEF IInv
<1>2. TypeOK'
  BY <1>1 DEF TypeOK, Fault, Heal
<1>3. Clamping' = Clamping
  BY <1>1 DEF Clamping, TypeOK, Fault, Heal
<1>4. DepthTells' /\ Bounded'
  BY <1>1, <1>3, DepthStays DEF Fault
<1>5. HealsEmulating'
  BY <1>1 DEF HealsEmulating, TypeOK, Fault, Heal
<1> QED BY <1>2, <1>4, <1>5 DEF IInv

\* With the emulation off nothing is claimed of the depth.
LEMMA NopStep ==
    ASSUME IInv, NEW t \in Cpus, NEW op \in {"cli", "sti"}, Nop(t, op)
    PROVE  IInv'
<1>1. TypeOK /\ DepthTells /\ Bounded /\ HealsEmulating
  BY DEF IInv
<1>2. lvl' \in [Cpus -> 0 .. MaxLvl]
  BY <1>1, IrqAssumption DEF TypeOK, Nop, Leaves
<1>3. TypeOK'
  BY <1>1, <1>2 DEF TypeOK, Nop, heal
<1>4. ~emulate' /\ hpc' = hpc
  BY DEF Nop, heal
<1>5. DepthTells' /\ Bounded'
  BY <1>4 DEF DepthTells, Bounded
<1>6. HealsEmulating'
  <2> SUFFICES ASSUME NEW u \in Cpus, hpc[u] = "cli" PROVE lvl'[u] < MaxLvl
    BY <1>4 DEF HealsEmulating
  <2>1. u # t
    BY DEF Nop, InGame
  <2>2. lvl'[u] = lvl[u]
    BY <1>1, <2>1 DEF TypeOK, Nop, Leaves
  <2> QED BY <1>1, <2>2 DEF HealsEmulating
<1> QED BY <1>3, <1>5, <1>6 DEF IInv

\* A cli opens one region and counts it, unless a bare sti is under way.
LEMMA CliStep ==
    ASSUME IInv, NEW t \in Cpus, Cli(t)
    PROVE  IInv'
<1>1. TypeOK /\ DepthTells /\ Bounded /\ HealsEmulating
  BY DEF IInv
<1>2. lvl[t] \in Nat /\ lvl[t] + 1 \in 1 .. MaxLvl
  BY <1>1, IrqAssumption DEF TypeOK, HealsEmulating, Cli, Heal
<1>3. TypeOK'
  <2>1. lvl' \in [Cpus -> 0 .. MaxLvl]
    BY <1>1, <1>2 DEF TypeOK, Cli
  <2>2. lost' \in BOOLEAN
    BY DEF Cli
  <2> QED BY <1>1, <2>1, <2>2 DEF TypeOK, Cli, Heal
<1>4. Clamping' = Clamping
  BY <1>1 DEF Clamping, TypeOK, Cli, Heal
<1>5. Cardinality(Regions') = Cardinality(Regions) + 1
  <2>1. Regions' = Regions \cup {<<t, lvl[t] + 1>>}
    <3>1. ASSUME NEW r \in Cpus \X (1 .. MaxLvl)
          PROVE  (r[2] <= lvl'[r[1]])
                    <=> (r[2] <= lvl[r[1]] \/ r = <<t, lvl[t] + 1>>)
      <4>0. r = <<r[1], r[2]>> /\ r[1] \in Cpus /\ r[2] \in 1 .. MaxLvl
        OBVIOUS
      <4>1. CASE r[1] = t
        <5>1. lvl'[t] = lvl[t] + 1
          BY <1>1 DEF TypeOK, Cli
        <5>2. (r[2] <= lvl[t] + 1) <=> (r[2] <= lvl[t] \/ r[2] = lvl[t] + 1)
          BY <4>0, <1>2
        <5>3. r = <<t, lvl[t] + 1>> <=> r[2] = lvl[t] + 1
          BY <4>0, <4>1
        <5> QED BY <4>1, <5>1, <5>2, <5>3
      <4>2. CASE r[1] # t
        <5>1. lvl'[r[1]] = lvl[r[1]]
          BY <1>1, <4>0, <4>2 DEF TypeOK, Cli
        <5>2. r # <<t, lvl[t] + 1>>
          BY <4>2
        <5> QED BY <5>1, <5>2
      <4> QED BY <4>1, <4>2
    <3>2. <<t, lvl[t] + 1>> \in Cpus \X (1 .. MaxLvl)
      BY <1>2
    <3> QED BY <3>1, <3>2 DEF Regions
  <2>2. <<t, lvl[t] + 1>> \notin Regions
    BY <1>2 DEF Regions
  <2> QED BY <2>1, <2>2, FiniteRegions, FS_AddElement
<1>6. DepthTells'
  <2> SUFFICES ASSUME emulate, ~lost'
               PROVE  Clamping' = {} /\ depth' = Cardinality(Regions')
    BY DEF DepthTells, Cli
  <2>1. ~lost /\ Clamping = {}
    BY DEF Cli
  <2>2. depth = Cardinality(Regions)
    BY <1>1, <2>1 DEF DepthTells
  <2> QED BY <1>4, <1>5, <2>1, <2>2 DEF Cli
<1>7. Bounded'
  <2>1. depth' = depth + 1 /\ depth \in Int /\ emulate' = emulate
    BY <1>1 DEF TypeOK, Cli
  <2> QED BY <1>1, <1>4, <1>5, <2>1, CountRegions DEF Bounded
<1>8. HealsEmulating'
  BY <1>1 DEF HealsEmulating, TypeOK, Cli, Heal
<1> QED BY <1>3, <1>6, <1>7, <1>8 DEF IInv

\* A sti closes the region it is the end of and counts it; a bare one finds no
\* region open, or one is lost.
LEMMA StiStep ==
    ASSUME IInv, NEW t \in Cpus, Sti(t)
    PROVE  IInv'
<1>1. TypeOK /\ DepthTells /\ Bounded /\ HealsEmulating
  BY DEF IInv
<1>2. lvl[t] \in 0 .. MaxLvl /\ depth \in Int
  BY <1>1 DEF TypeOK
<1>3. lvl'[t] = (IF lvl[t] > 0 THEN lvl[t] - 1 ELSE 0)
      /\ \A u \in Cpus \ {t} : lvl'[u] = lvl[u]
  BY <1>1 DEF TypeOK, Sti, Leaves
<1>4. TypeOK'
  <2>1. lvl' \in [Cpus -> 0 .. MaxLvl]
    BY <1>1, <1>2, IrqAssumption DEF TypeOK, Sti, Leaves
  <2>2. lost' \in BOOLEAN
    BY DEF Sti
  <2> QED BY <1>1, <2>1, <2>2 DEF TypeOK, Sti, Heal
<1>5. ASSUME lvl[t] > 0
      PROVE  <<t, lvl[t]>> \in Regions
             /\ Cardinality(Regions') = Cardinality(Regions) - 1
  <2>1. <<t, lvl[t]>> \in Regions
    BY <1>2, <1>5 DEF Regions
  <2>2. Regions' = Regions \ {<<t, lvl[t]>>}
    <3>1. ASSUME NEW r \in Cpus \X (1 .. MaxLvl)
          PROVE  (r[2] <= lvl'[r[1]])
                    <=> (r[2] <= lvl[r[1]] /\ r # <<t, lvl[t]>>)
      <4>0. r = <<r[1], r[2]>> /\ r[1] \in Cpus /\ r[2] \in 1 .. MaxLvl
        OBVIOUS
      <4>1. CASE r[1] = t
        <5>1. lvl'[t] = lvl[t] - 1
          BY <1>3, <1>5
        <5>2. (r[2] <= lvl[t] - 1) <=> (r[2] <= lvl[t] /\ r[2] # lvl[t])
          BY <4>0, <1>2
        <5>3. r = <<t, lvl[t]>> <=> r[2] = lvl[t]
          BY <4>0, <4>1
        <5> QED BY <4>1, <5>1, <5>2, <5>3
      <4>2. CASE r[1] # t
        <5>1. lvl'[r[1]] = lvl[r[1]]
          BY <1>3, <4>0, <4>2
        <5>2. r # <<t, lvl[t]>>
          BY <4>2
        <5> QED BY <5>1, <5>2
      <4> QED BY <4>1, <4>2
    <3> QED BY <3>1 DEF Regions
  <2> QED BY <2>1, <2>2, FiniteRegions, FS_RemoveElement
<1>6. ASSUME lvl[t] = 0 PROVE Regions' = Regions
  <2>1. lvl' = lvl
    BY <1>1, <1>6 DEF TypeOK, Sti, Leaves
  <2> QED BY <2>1 DEF Regions
<1>7. /\ depth - 1 < 0 => t \in Clamping'
      /\ ~(depth - 1 < 0) => Clamping' = Clamping
  <2>1. hpc' = [hpc EXCEPT ![t] = IF depth - 1 < 0 THEN "clamp" ELSE "count"]
        /\ hpc[t] = "sti"
    BY DEF Sti, Heal
  <2> QED BY <1>1, <2>1 DEF Clamping, TypeOK
<1>8. Bounded'
  <2> SUFFICES ASSUME emulate
               PROVE  /\ depth - 1 <= Cardinality(Regions')
                      /\ depth - 1 < 0 => Clamping' # {}
    BY DEF Bounded, Sti
  <2>1. depth <= Cardinality(Regions)
    BY <1>1 DEF Bounded
  <2>2. depth - 1 <= Cardinality(Regions')
    <3>1. CASE lvl[t] > 0
      BY <1>2, <1>5, <2>1, <3>1, CountRegions
    <3>2. CASE lvl[t] = 0
      BY <1>2, <1>6, <2>1, <3>2, CountRegions
    <3> QED BY <1>2, <3>1, <3>2
  <2> QED BY <1>7, <2>2
<1>9. DepthTells'
  <2>0. CASE Calm'
    <3>1. TypeOK' /\ Bounded' /\ Calm'
      BY <1>4, <1>8, <2>0
    <3> QED BY <3>1, CalmTells, PTL
  <2> SUFFICES ASSUME ~Calm', emulate, ~lost'
               PROVE  IF Clamping' = {} THEN depth' = Cardinality(Regions')
                                        ELSE depth' <= 0 /\ Regions' = {}
    BY <2>0 DEF DepthTells, Sti
  <2>1. ~lost /\ depth' = depth - 1 /\ ~(lvl[t] = 0 /\ Regions # {})
    BY DEF Sti
  <2>2. CASE lvl[t] > 0
    <3>1. Regions # {}
      BY <1>5, <2>2
    <3>2. Clamping = {} /\ depth = Cardinality(Regions)
      BY <1>1, <2>1, <3>1 DEF DepthTells
    <3>3. ~(depth - 1 < 0)
      BY <3>1, <3>2, CountRegions
    <3> QED BY <1>5, <1>7, <2>1, <2>2, <3>2, <3>3
  <2>3. CASE ~(lvl[t] > 0)
    <3>1. lvl[t] = 0
      BY <1>2, <2>3
    <3>2. Regions = {}
      BY <2>1, <3>1
    <3>3. depth <= 0
      <4>1. Cardinality(Regions) = 0
        BY <3>2, NoRegions
      <4> QED BY <1>1, <4>1 DEF Bounded
    <3>4. depth - 1 < 0
      BY <1>2, <3>3
    <3>5. depth - 1 <= 0
      BY <1>2, <3>3
    <3> QED BY <1>6, <1>7, <2>1, <3>1, <3>2, <3>4, <3>5
  <2> QED BY <2>2, <2>3
<1>10. HealsEmulating'
  <2> SUFFICES ASSUME NEW u \in Cpus
               PROVE  /\ hpc'[u] = "cli" => lvl'[u] < MaxLvl
                      /\ hpc'[u] = "open" => ~emulate'
    BY DEF HealsEmulating
  <2>1. CASE u = t
    BY <1>1, <2>1 DEF TypeOK, Sti, Heal
  <2>2. CASE u # t
    <3>1. lvl'[u] = lvl[u] /\ hpc'[u] = hpc[u] /\ emulate' = emulate
      BY <1>1, <1>3, <2>2 DEF TypeOK, Sti, Heal
    <3> QED BY <1>1, <3>1 DEF HealsEmulating
  <2> QED BY <2>1, <2>2
<1> QED BY <1>4, <1>8, <1>9, <1>10 DEF IInv

\* The clamp puts back a zero, which is how many regions are open unless one is
\* lost.
LEMMA ClampStep ==
    ASSUME IInv, NEW t \in Cpus, Clamp(t)
    PROVE  IInv'
<1>1. TypeOK /\ DepthTells /\ Bounded /\ HealsEmulating
  BY DEF IInv
<1>2. TypeOK'
  <2>1. lost' \in BOOLEAN
    BY DEF Clamp
  <2> QED BY <1>1, <2>1 DEF TypeOK, Clamp, Heal
<1>3. depth' = 0 /\ Regions' = Regions
  BY DEF Regions, Clamp
<1>4. Bounded'
  BY <1>3, CountRegions DEF Bounded
<1>5. DepthTells'
  <2>0. CASE Calm'
    BY <1>2, <1>4, <2>0, CalmTells, PTL
  <2> SUFFICES ASSUME ~Calm', emulate, ~lost'
               PROVE  depth' = 0 /\ Regions' = {} /\ Cardinality(Regions') = 0
    BY <2>0 DEF DepthTells, Clamp
  <2>1. t \in Clamping
    BY DEF Clamping, Clamp, Heal
  <2>2. Regions = {}
    BY <1>1, <2>1 DEF DepthTells, Clamp
  <2> QED BY <1>3, <2>2, NoRegions
<1>6. HealsEmulating'
  BY <1>1 DEF HealsEmulating, TypeOK, Clamp, Heal
<1> QED BY <1>2, <1>4, <1>5, <1>6 DEF IInv

\* The window's bookkeeping touches no part of the mask.
LEMMA WindowStep ==
    ASSUME IInv, NEW t \in Cpus, WindowEnds(t) \/ InWindow(t)
    PROVE  IInv'
<1>1. TypeOK /\ DepthTells /\ Bounded /\ HealsEmulating
  BY DEF IInv
<1>2. PICK pc \in {"run", "degrade"} :
         hpc[t] = "count" /\ hpc' = [hpc EXCEPT ![t] = pc]
  BY DEF WindowEnds, InWindow, Heal
<1>3. UNCHANGED <<depth, emulate, lvl, spc, lost>>
  BY DEF WindowEnds, InWindow
<1>4. window' \in 0 .. (Budget + 1)
  BY <1>1, IrqAssumption DEF TypeOK, WindowEnds, InWindow
<1>5. TypeOK'
  BY <1>1, <1>2, <1>3, <1>4 DEF TypeOK
<1>6. Clamping' = Clamping
  BY <1>1, <1>2 DEF Clamping, TypeOK
<1>7. DepthTells' /\ Bounded'
  BY <1>1, <1>3, <1>6, DepthStays
<1>8. HealsEmulating'
  BY <1>1, <1>2, <1>3 DEF HealsEmulating, TypeOK
<1> QED BY <1>5, <1>7, <1>8 DEF IInv

\* Once the emulation is off nothing is claimed of the depth.
LEMMA DegradeStep ==
    ASSUME IInv, NEW t \in Cpus, Degrade(t) \/ Open(t)
    PROVE  IInv'
<1>1. TypeOK /\ DepthTells /\ Bounded /\ HealsEmulating
  BY DEF IInv
<1>2. ~emulate' /\ emulate' \in BOOLEAN
  <2>1. CASE Degrade(t)
    BY <2>1 DEF Degrade
  <2>2. CASE Open(t)
    <3>1. ~emulate /\ emulate' = emulate
      BY <1>1, <2>2 DEF HealsEmulating, Open, Heal
    <3> QED BY <1>1, <3>1 DEF TypeOK
  <2> QED BY <2>1, <2>2
<1>3. PICK pc \in {"run", "open"} : hpc' = [hpc EXCEPT ![t] = pc]
  BY DEF Degrade, Open, Heal
<1>4. /\ UNCHANGED <<window, lvl, spc, lost>>
      /\ depth' \in Int
  BY <1>1 DEF TypeOK, Degrade, Open
<1>5. TypeOK'
  BY <1>1, <1>2, <1>3, <1>4 DEF TypeOK
<1>6. DepthTells' /\ Bounded'
  BY <1>2 DEF DepthTells, Bounded
<1>7. HealsEmulating'
  BY <1>1, <1>2, <1>3, <1>4 DEF HealsEmulating, TypeOK
<1> QED BY <1>5, <1>6, <1>7 DEF IInv

\* The frame boundary puts back a zero, which is how many regions are open
\* unless another thread is inside one.
LEMMA ResyncStep ==
    ASSUME IInv, Resync
    PROVE  IInv'
<1>1. TypeOK /\ DepthTells /\ Bounded /\ HealsEmulating
  BY DEF IInv
<1>2. TypeOK'
  <2>1. lvl' \in [Cpus -> 0 .. MaxLvl]
    BY <1>1, IrqAssumption DEF TypeOK, Resync
  <2>2. lost' \in BOOLEAN
    BY DEF Resync
  <2> QED BY <1>1, <2>1, <2>2 DEF TypeOK, Resync, heal
<1>3. Bounded'
  <2>1. Regions' \subseteq Cpus \X (1 .. MaxLvl)
    BY DEF Regions
  <2>2. Cardinality(Regions') \in Nat
    BY <2>1, FiniteSlots, FS_Subset, FS_CardinalityType
  <2> QED BY <2>2 DEF Bounded, Resync
<1>4. DepthTells'
  <2>0. CASE Calm'
    BY <1>2, <1>3, <2>0, CalmTells, PTL
  <2> SUFFICES ASSUME ~Calm', ~lost'
               PROVE  depth' = 0 /\ Regions' = {} /\ Cardinality(Regions') = 0
    BY <2>0 DEF DepthTells
  <2>1. \A t \in Cpus : lvl'[t] = 0
    <3> SUFFICES ASSUME NEW t \in Cpus, t # Frame PROVE lvl[t] = 0
      BY DEF Resync
    <3>1. ~(lvl[t] > 0)
      BY DEF Resync
    <3> QED BY <1>1, <3>1 DEF TypeOK
  <2>2. Regions' = {}
    BY <2>1 DEF Regions
  <2> QED BY <2>2, FS_EmptySet DEF Resync
<1>5. HealsEmulating'
  <2> SUFFICES ASSUME NEW t \in Cpus, hpc[t] = "cli" PROVE lvl'[t] < MaxLvl
    BY <1>1 DEF HealsEmulating, Resync, heal
  <2>1. t # Frame
    BY IrqAssumption DEF Resync, Cpus
  <2>2. lvl'[t] = lvl[t]
    BY <2>1 DEF Resync
  <2> QED BY <1>1, <2>2 DEF HealsEmulating
<1> QED BY <1>2, <1>3, <1>4, <1>5 DEF IInv

\* A side thread that comes, waits, enters and returns touches no part of the
\* mask.
LEMMA SideStep ==
    ASSUME IInv, NEW s \in Sides,
           Comes(s) \/ Enter(s) \/ GivesUp(s) \/ Returns(s)
    PROVE  IInv'
<1>1. TypeOK /\ DepthTells /\ Bounded /\ HealsEmulating
  BY DEF IInv
<1>2. /\ UNCHANGED <<depth, emulate, window, hpc, lvl, lost>>
      /\ spc' \in [Sides -> {"out", "wait", "inside"}]
  BY <1>1 DEF TypeOK, Comes, Enter, GivesUp, Returns, heal
<1>3. TypeOK'
  BY <1>1, <1>2 DEF TypeOK
<1>4. Clamping' = Clamping
  BY <1>2 DEF Clamping
<1>5. DepthTells' /\ Bounded'
  BY <1>1, <1>2, <1>4, DepthStays
<1>6. HealsEmulating'
  BY <1>1, <1>2 DEF HealsEmulating
<1> QED BY <1>3, <1>5, <1>6 DEF IInv

\* The inductive invariant is preserved by every step.
LEMMA Inductive ==
    ASSUME IInv, [Next]_vars
    PROVE  IInv'
<1>1. ASSUME NEW t \in Cpus, NEW op \in {"cli", "sti"}, Fault(t, op) \/ Nop(t, op)
      PROVE  IInv'
  BY <1>1, FaultStep, NopStep
<1>2. ASSUME NEW t \in Cpus, HealStep(t) PROVE IInv'
  BY <1>2, CliStep, StiStep, ClampStep, WindowStep, DegradeStep DEF HealStep
<1>3. ASSUME NEW s \in Sides, Comes(s) \/ Enter(s) \/ GivesUp(s) \/ Returns(s)
      PROVE  IInv'
  BY <1>3, SideStep
<1>4. CASE Resync
  BY <1>4, ResyncStep
<1>5. CASE UNCHANGED vars
  BY <1>5 DEF IInv, TypeOK, DepthTells, Bounded, HealsEmulating, Clamping,
              Regions, vars, heal
<1> QED BY <1>1, <1>2, <1>3, <1>4, <1>5 DEF Next

\* The inductive invariant holds from the start.
LEMMA Starts == Init => IInv
<1> SUFFICES ASSUME Init PROVE IInv
  OBVIOUS
<1>1. TypeOK
  <2>1. lost \in BOOLEAN /\ emulate \in BOOLEAN
    BY DEF Init
  <2>2. 0 \in 0 .. MaxLvl /\ 0 \in 0 .. (Budget + 1) /\ 0 \in Int
    BY IrqAssumption
  <2> QED BY <2>1, <2>2 DEF Init, TypeOK
<1>2. Clamping = {} /\ Regions = {}
  BY DEF Init, Clamping, Regions
<1>3. DepthTells /\ Bounded
  BY <1>2, FS_EmptySet DEF Init, DepthTells, Bounded
<1>4. HealsEmulating
  BY DEF Init, HealsEmulating
<1> QED BY <1>1, <1>3, <1>4 DEF IInv

\* The depth that game_irq_wait reads is the number of open regions, so a side
\* thread it lets through without a time-out starts with every thread outside
\* all of them, and one that times out waited for an open region: with any
\* threads that execute cli and sti, whichever of them swaps, side threads with
\* regions of their own included.  What a bare sti or a frame boundary takes from
\* another thread's region is made good once no region is open.
THEOREM RegionSafety == Spec => [](TypeOK /\ DepthTells) /\ EntersOpen
<1>1. Init => IInv
  BY Starts
<1>2. IInv /\ [Next]_vars => IInv'
  BY Inductive
<1>3. IInv => TypeOK /\ DepthTells
  BY DEF IInv
<1>4. IInv /\ [Next]_vars =>
        [\A s \in Sides :
            /\ Enter(s) /\ emulate /\ ~lost => \A t \in Cpus : lvl[t] = 0
            /\ GivesUp(s) /\ emulate => \E t \in Cpus : lvl[t] > 0]_vars
  <2> SUFFICES ASSUME IInv, NEW s \in Sides, emulate
               PROVE  /\ Enter(s) /\ ~lost => \A t \in Cpus : lvl[t] = 0
                      /\ GivesUp(s) => \E t \in Cpus : lvl[t] > 0
    OBVIOUS
  <2>1. TypeOK /\ DepthTells /\ Bounded
    BY DEF IInv
  <2>2. ASSUME Enter(s), ~lost PROVE \A t \in Cpus : lvl[t] = 0
    <3>1. depth <= 0
      BY <2>2 DEF Enter
    <3>2. CASE Clamping = {}
      <4>1. depth = Cardinality(Regions)
        BY <2>1, <2>2, <3>2 DEF DepthTells
      <4>2. Regions = {}
        BY <3>1, <4>1, CountRegions
      <4> QED BY <2>1, <4>2, OpenRegion
    <3>3. CASE Clamping # {}
      <4>1. Regions = {}
        BY <2>1, <2>2, <3>3 DEF DepthTells
      <4> QED BY <2>1, <4>1, OpenRegion
    <3> QED BY <3>2, <3>3
  <2>3. ASSUME GivesUp(s) PROVE \E t \in Cpus : lvl[t] > 0
    <3>1. 0 < depth /\ depth \in Int /\ depth <= Cardinality(Regions)
      BY <2>1, <2>3 DEF GivesUp, TypeOK, Bounded
    <3>2. Regions # {}
      BY <3>1, NoRegions
    <3>3. PICK t \in Cpus : lvl[t] # 0
      BY <2>1, <3>2, OpenRegion
    <3>4. lvl[t] \in 0 .. MaxLvl
      BY <2>1, <3>3 DEF TypeOK
    <3> QED BY <3>3, <3>4
  <2> QED BY <2>2, <2>3
<1> QED BY <1>1, <1>2, <1>3, <1>4, PTL DEF Spec, EntersOpen

-----------------------------------------------------------------------------
(* The watchdog. *)

\* The watched handle is open and nobody is about to close it; handles on their
\* way in or out are each of one presenter; a dump under way uses the watched
\* one, and a thread is suspended exactly while it writes.
Handled ==
    /\ watched \in opened /\ \A i \in opened : handles[i] \in Presenters
    /\ \A p \in Presenters :
          swaps[p].at # "out" => swaps[p].handle \in opened \ {watched}
    /\ \A p, q \in Presenters :
          p # q /\ swaps[p].at # "out" /\ swaps[q].at # "out" =>
              swaps[p].handle # swaps[q].handle
Dumping ==
    /\ dump.at \in {"suspend", "write"} => dump.handle = watched
    /\ suspended = IF dump.at = "write" THEN handles[watched] ELSE NoOne
WdInv == Wd!WatchdogTypeOK /\ Handled /\ Dumping

LEMMA WdInit == ASSUME Wd!WatchdogAssumption, Wd!Init PROVE WdInv
<1>1. 1 \in Wd!Ids
  BY DEF Wd!WatchdogAssumption, Wd!Ids
<1>2. Wd!WatchdogTypeOK
  BY <1>1 DEF Wd!WatchdogAssumption, Wd!Init, Wd!WatchdogTypeOK
<1>3. Handled /\ Dumping
  BY <1>1 DEF Wd!WatchdogAssumption, Wd!Init, Handled, Dumping
<1>4. QED BY <1>2, <1>3 DEF WdInv

\* The presenters take and let go of locks.
LEMMA LocksKeep ==
    ASSUME WdInv, NEW p \in Presenters, NEW l \in GameLocks,
           Wd!Takes(p, l) \/ Wd!Drops(p, l)
    PROVE  WdInv'
<1>1. UNCHANGED <<handles, opened, watched, swapTid, swaps, dump, suspended, reported>>
  BY DEF Wd!Takes, Wd!Drops
<1>2. owner' \in [Wd!Locks -> Presenters \cup {NoOne}]
  BY DEF WdInv, Wd!WatchdogTypeOK, Wd!Takes, Wd!Drops
<1>3. Wd!WatchdogTypeOK'
  BY <1>1, <1>2 DEF WdInv, Wd!WatchdogTypeOK
<1>4. Handled' /\ Dumping'
  BY <1>1 DEF WdInv, Handled, Dumping
<1>5. QED BY <1>3, <1>4 DEF WdInv

\* A swap brings its handle, puts it in the place of the watched one, and
\* closes that.
LEMMA DuplicatesKeep ==
    ASSUME Wd!WatchdogAssumption, WdInv, NEW p \in Presenters, Wd!Duplicates(p)
    PROVE  WdInv'
<1>1. PICK i \in Wd!Unused :
          /\ handles' = [handles EXCEPT ![i] = p]
          /\ opened' = opened \cup {i}
          /\ swaps' = [swaps EXCEPT ![p] = [at |-> "replace", handle |-> i]]
  BY DEF Wd!Duplicates
<1>2. UNCHANGED <<watched, swapTid, owner, dump, suspended, reported>>
  BY DEF Wd!Duplicates
<1>3. /\ i \in Wd!Ids /\ i \notin opened
      /\ handles \in [Wd!Ids -> Presenters \cup {NoOne}] /\ opened \subseteq Wd!Ids
      /\ swaps \in [Presenters -> [at : {"out", "replace", "close"}, handle : Wd!Ids]]
  BY DEF Wd!Unused, WdInv, Handled, Wd!WatchdogTypeOK, Wd!WatchdogAssumption
<1>4. Wd!WatchdogTypeOK'
  BY <1>1, <1>2, <1>3 DEF WdInv, Wd!WatchdogTypeOK
<1>5. \A q \in Presenters \ {p} : swaps'[q] = swaps[q]
  BY <1>1, <1>3
<1>6. swaps'[p].handle = i
  BY <1>1, <1>3
<1>7. handles'[i] = p /\ \A j \in opened : handles'[j] = handles[j]
  BY <1>1, <1>3
<1>8. watched \in opened /\ watched # i
  BY <1>3 DEF WdInv, Handled
<1>9. Handled'
  BY <1>1, <1>2, <1>3, <1>5, <1>6, <1>7, <1>8 DEF WdInv, Handled
<1>10. Dumping'
  BY <1>2, <1>7, <1>8 DEF WdInv, Dumping
<1>11. QED BY <1>4, <1>9, <1>10 DEF WdInv

LEMMA ReplacesKeep ==
    ASSUME WdInv, NEW p \in Presenters, Wd!Replaces(p)
    PROVE  WdInv'
<1>1. /\ swaps[p].at = "replace" /\ dump.at \in {"asleep", "lock"}
      /\ watched' = swaps[p].handle
      /\ swaps' = [swaps EXCEPT ![p] = [at |-> "close", handle |-> watched]]
      /\ UNCHANGED <<handles, opened, swapTid, owner, dump, suspended, reported>>
  BY DEF Wd!Replaces, Wd!RenderFree
<1>2. /\ swaps \in [Presenters -> [at : {"out", "replace", "close"}, handle : Wd!Ids]]
      /\ watched \in Wd!Ids /\ opened \subseteq Wd!Ids /\ watched \in opened
      /\ swaps[p].handle \in opened \ {watched}
  BY <1>1 DEF WdInv, Handled, Wd!WatchdogTypeOK
<1>3. Wd!WatchdogTypeOK'
  BY <1>1, <1>2 DEF WdInv, Wd!WatchdogTypeOK
<1>4. \A q \in Presenters \ {p} : swaps'[q] = swaps[q]
  BY <1>1, <1>2
<1>5. swaps'[p].handle = watched
  BY <1>1, <1>2
<1>6. \A q \in Presenters \ {p} :
          swaps[q].at # "out" => /\ swaps[q].handle \in opened \ {watched}
                                 /\ swaps[q].handle # watched'
  BY <1>1 DEF WdInv, Handled
<1>7. Handled'
  BY <1>1, <1>2, <1>4, <1>5, <1>6 DEF WdInv, Handled
<1>8. Dumping'
  BY <1>1 DEF WdInv, Dumping
<1>9. QED BY <1>3, <1>7, <1>8 DEF WdInv

LEMMA ClosesKeep ==
    ASSUME WdInv, NEW p \in Presenters, Wd!Closes(p)
    PROVE  WdInv'
<1>1. /\ swaps[p].at = "close" /\ opened' = opened \ {swaps[p].handle}
      /\ swapTid' = p /\ swaps' = [swaps EXCEPT ![p].at = "out"]
      /\ UNCHANGED <<handles, watched, owner, dump, suspended, reported>>
  BY DEF Wd!Closes
<1>2. swaps \in [Presenters -> [at : {"out", "replace", "close"}, handle : Wd!Ids]]
  BY DEF WdInv, Wd!WatchdogTypeOK
<1>3. Wd!WatchdogTypeOK'
  BY <1>1, <1>2 DEF WdInv, Wd!WatchdogTypeOK
<1>4. \A q \in Presenters \ {p} : swaps'[q] = swaps[q]
  BY <1>1, <1>2
<1>5. swaps'[p].at = "out"
  BY <1>1, <1>2
<1>6. Handled'
  BY <1>1, <1>4, <1>5 DEF WdInv, Handled
<1>7. Dumping'
  BY <1>1 DEF WdInv, Dumping
<1>8. QED BY <1>3, <1>6, <1>7 DEF WdInv

\* The watchdog's own steps change no handle.
LEMMA DumpKeeps ==
    ASSUME Wd!WatchdogAssumption, WdInv, Wd!Looks \/ Wd!DumpStep
    PROVE  WdInv'
<1>1. UNCHANGED <<handles, opened, watched, swapTid, swaps, owner>>
  BY DEF Wd!Looks, Wd!DumpStep, Wd!Locked, Wd!Suspends, Wd!Writes, Wd!Resumes
<1>2. Handled'
  BY <1>1 DEF WdInv, Handled
<1> DEFINE Dumps == [at : {"asleep", "lock", "suspend", "write"},
                     handle : Wd!Ids, left : SUBSET DumpLocks]
<1>3. /\ dump \in Dumps /\ watched \in Wd!Ids /\ watched \in opened
      /\ suspended \in Presenters \cup {NoOne} /\ reported \in 0 .. MaxReports
      /\ MaxReports \in Nat
      /\ handles[watched] \in Presenters /\ NoOne \notin Presenters
  BY DEF WdInv, Wd!WatchdogTypeOK, Handled, Wd!WatchdogAssumption
<1>4. /\ dump.at \in {"suspend", "write"} => dump.handle = watched
      /\ suspended = IF dump.at = "write" THEN handles[watched] ELSE NoOne
  BY DEF WdInv, Dumping
<1>5. CASE Wd!Looks
  <2>1. dump' \in Dumps /\ reported' \in 0 .. MaxReports
    BY <1>3, <1>5 DEF Wd!Looks
  <2>2. Dumping'
    BY <1>1, <1>3, <1>4, <1>5 DEF Wd!Looks, Dumping
  <2> QED BY <1>1, <1>2, <1>5, <2>1, <2>2 DEF Wd!Looks, WdInv, Wd!WatchdogTypeOK
<1>6. CASE Wd!Locked
  <2>1. dump' \in Dumps
    BY <1>3, <1>6 DEF Wd!Locked
  <2>2. Dumping'
    BY <1>1, <1>3, <1>4, <1>6 DEF Wd!Locked, Dumping
  <2> QED BY <1>1, <1>2, <1>6, <2>1, <2>2 DEF Wd!Locked, WdInv, Wd!WatchdogTypeOK
<1>7. CASE Wd!Suspends
  <2>1. dump' \in Dumps
    <3>1. CASE dump' = [dump EXCEPT !.at = "asleep"]
      BY <1>3, <3>1
    <3>2. ASSUME NEW left \in {DumpLocks, {}},
                 dump' = [dump EXCEPT !.at = "write", !.left = left]
          PROVE  dump' \in Dumps
      <4>1. left \in SUBSET DumpLocks
        OBVIOUS
      <4> QED BY <1>3, <3>2, <4>1
    <3> QED BY <1>7, <3>1, <3>2 DEF Wd!Suspends
  <2>2. Dumping' /\ suspended' \in Presenters \cup {NoOne}
    BY <1>1, <1>3, <1>4, <1>7 DEF Wd!Suspends, Dumping
  <2> QED BY <1>1, <1>2, <1>7, <2>1, <2>2 DEF Wd!Suspends, WdInv, Wd!WatchdogTypeOK
<1>8. CASE Wd!Writes
  <2>1. dump' \in Dumps
    BY <1>3, <1>8 DEF Wd!Writes
  <2>2. Dumping'
    BY <1>1, <1>3, <1>4, <1>8 DEF Wd!Writes, Dumping
  <2> QED BY <1>1, <1>2, <1>8, <2>1, <2>2 DEF Wd!Writes, WdInv, Wd!WatchdogTypeOK
<1>9. CASE Wd!Resumes
  <2>1. dump' \in Dumps
    BY <1>3, <1>9 DEF Wd!Resumes
  <2>2. Dumping' /\ suspended' = NoOne
    BY <1>1, <1>3, <1>4, <1>9 DEF Wd!Resumes, Dumping
  <2> QED BY <1>1, <1>2, <1>9, <2>1, <2>2 DEF Wd!Resumes, WdInv, Wd!WatchdogTypeOK
<1>10. QED BY <1>5, <1>6, <1>7, <1>8, <1>9 DEF Wd!DumpStep

LEMMA WdStep ==
    ASSUME Wd!WatchdogAssumption, WdInv, [Wd!Next]_watchdog PROVE WdInv'
<1>1. CASE UNCHANGED watchdog
  BY <1>1 DEF watchdog, WdInv, Wd!WatchdogTypeOK, Handled, Dumping
<1>2. CASE Wd!Next
  BY <1>2, LocksKeep, DuplicatesKeep, ReplacesKeep, ClosesKeep, DumpKeeps DEF Wd!Next
<1>3. QED BY <1>1, <1>2

\* Whoever presents, and however the swaps that replace and close the watched
\* handle fall between the steps of a dump, the dump resumes the thread it
\* suspended through a handle that is still open (watchdog.c:31).
THEOREM HandleSafety == HostSpec => []HandleStays
<1>1. HostInit => WdInv
  BY HostAssumption, WdInit DEF HostInit
<1>2. WdInv /\ [HostNext]_hostVars => WdInv'
  BY HostAssumption, PlaySteps, WdStep
<1>3. WdInv => HandleStays
  BY DEF WdInv, Handled, Dumping, HandleStays, Wd!HandleStays
<1>4. QED BY <1>1, <1>2, <1>3, PTL DEF HostSpec

-----------------------------------------------------------------------------
(* The types of the shell, and those of all the machines of this module. *)

\* No count is above the samples there were: all that was counted is in moved,
\* and a record was posted from edges that were in it.
Under(e) == \A s \in Switches, n \in Sh!Kinds : e[s][n] <= samples
ShellBound ==
    /\ samples \in 0 .. MaxSamples /\ Under(moved) /\ Under(record.edges)
    /\ {runs, testing} \subseteq BOOLEAN
    /\ shpc \in {"top", "coins", "capcoin", "lock", "spend", "service",
                 "capservice", "post", "hand", "done"}

\* What EdgeInv says of the parts of moved.
LEMMA PartsUnder ==
    ASSUME EdgeInv, samples \in Nat, Under(moved)
    PROVE  Under(edges) /\ Under(heard.edges)
<1>1. /\ EdgeType /\ edges \in Counts /\ heard.edges \in Counts /\ moved \in Counts
      /\ Sh!Unread \in Counts
  BY UnreadType DEF EdgeInv, EdgeType
<1>2. SUFFICES ASSUME NEW s \in Switches, NEW n \in Sh!Kinds
               PROVE  edges[s][n] <= samples /\ heard.edges[s][n] <= samples
  BY DEF Under
<1>3. /\ edges[s][n] \in Nat /\ heard.edges[s][n] \in Nat
      /\ Sh!Unread[s][n] \in Nat /\ moved[s][n] \in Nat /\ moved[s][n] <= samples
  BY <1>1 DEF Counts, Under
<1>4. CASE shpc = "hand"
  <2>1. moved[s][n] = heard.edges[s][n] + edges[s][n]
    BY <1>1, <1>4, PlusType DEF EdgeInv
  <2> QED BY <1>3, <2>1
<1>5. CASE shpc # "hand"
  <2>1. Sh!Plus(edges, Sh!Unread) \in Counts
        /\ Sh!Plus(edges, Sh!Unread)[s][n] = edges[s][n] + Sh!Unread[s][n]
    BY <1>1, PlusType
  <2>2. moved[s][n] = heard.edges[s][n] + Sh!Plus(edges, Sh!Unread)[s][n]
    BY <1>1, <1>5, <2>1, PlusType DEF EdgeInv
  <2> QED BY <1>3, <2>1, <2>2
<1>6. QED BY <1>4, <1>5

LEMMA BoundStart == ASSUME Sh!ShellAssumption, Sh!Init PROVE ShellBound
<1>1. /\ runs = TRUE /\ shpc = "top" /\ testing = FALSE /\ samples = 0
      /\ moved = Sh!None /\ record.edges = Sh!None /\ MaxSamples \in Nat
  BY DEF Sh!ShellAssumption, Sh!Init
<1>2. \A s \in Switches, n \in Sh!Kinds : Sh!None[s][n] = 0
  BY DEF Sh!None
<1>3. ASSUME NEW s \in Switches, NEW n \in Sh!Kinds
      PROVE  moved[s][n] <= samples /\ record.edges[s][n] <= samples
  <2>1. moved[s][n] = 0 /\ record.edges[s][n] = 0
    BY <1>1, <1>2
  <2> QED BY <1>1, <2>1
<1>4. Under(moved) /\ Under(record.edges)
  BY <1>3 DEF Under
<1>5. samples \in 0 .. MaxSamples
  BY <1>1
<1>6. QED BY <1>1, <1>4, <1>5 DEF ShellBound

LEMMA SampleBound ==
    ASSUME Sh!ShellAssumption, EdgeInv, ShellBound,
           NEW now \in SUBSET Switches, Sh!Sample(now)
    PROVE  ShellBound'
<1> DEFINE moves == [s \in Switches |->
              [close |-> IF s \in now \ level THEN 1 ELSE 0,
               open |-> IF s \in level \ now THEN 1 ELSE 0]]
<1>1. /\ moved' = Sh!Plus(moved, moves) /\ samples' = samples + 1
      /\ samples < MaxSamples /\ shpc' = "coins" /\ UNCHANGED <<runs, record>>
      /\ testing' \in BOOLEAN
  BY DEF Sh!Sample, Sh!At, ShellBound
<1>2. moves \in Counts
  BY DEF Counts, Sh!Kinds
<1>3. \A s \in Switches, n \in Sh!Kinds : moves[s][n] \in {0, 1}
  BY DEF Sh!Kinds
<1>4. moved \in Counts /\ record.edges \in Counts /\ samples \in 0 .. MaxSamples
  BY DEF EdgeInv, EdgeType, ShellBound
<1> HIDE DEF moves
<1>5. ASSUME NEW s \in Switches, NEW n \in Sh!Kinds
      PROVE  moved'[s][n] <= samples + 1 /\ record.edges[s][n] <= samples + 1
  <2>1. moved'[s][n] = moved[s][n] + moves[s][n]
    BY <1>1, <1>2, <1>4, PlusType
  <2>2. moved[s][n] \in Nat /\ moved[s][n] <= samples
        /\ record.edges[s][n] \in Nat /\ record.edges[s][n] <= samples
    BY <1>4 DEF Counts, ShellBound, Under
  <2>3. moves[s][n] = 0 \/ moves[s][n] = 1
    BY <1>3
  <2> QED BY <1>4, <2>1, <2>2, <2>3
<1>6. Under(moved)' /\ Under(record.edges)'
  BY <1>1, <1>5 DEF Under
<1>7. samples' \in 0 .. MaxSamples
  BY <1>1, <1>4 DEF Sh!ShellAssumption
<1>8. QED BY <1>1, <1>6, <1>7 DEF ShellBound

LEMMA BoundStep ==
    ASSUME Sh!ShellAssumption, EdgeInv, ShellBound, [Sh!Next]_shell PROVE ShellBound'
<1>1. CASE UNCHANGED shell
  BY <1>1 DEF shell, ShellBound, Under
<1>2. ASSUME NEW now \in SUBSET Switches, Sh!Sample(now) PROVE ShellBound'
  BY <1>2, SampleBound
<1>3. CASE Sh!Post
  <2>1. /\ record' = [level |-> level, edges |-> edges] /\ shpc' = "hand"
        /\ UNCHANGED <<runs, testing, moved, samples>>
    BY <1>3 DEF Sh!Post, Sh!At
  <2>2. Under(edges)
    BY PartsUnder DEF ShellBound, Sh!ShellAssumption
  <2> QED BY <2>1, <2>2 DEF ShellBound, Under
<1>4. CASE Sh!Leave \/ Sh!SkipSample \/ Sh!AddCoin \/ Sh!CapCoin \/ Sh!CoinsDone
           \/ Sh!Lock \/ (\E c \in Sh!Slots : Sh!Spend(c)) \/ Sh!Spent \/ Sh!NoSpending
  <2>1. /\ UNCHANGED <<runs, testing, record, moved, samples>>
        /\ shpc' \in {"done", "lock", "capcoin", "coins", "spend", "service"}
    BY <1>4 DEF Sh!Leave, Sh!SkipSample, Sh!AddCoin, Sh!CapCoin, Sh!CoinsDone,
                Sh!Lock, Sh!Spend, Sh!Spent, Sh!NoSpending, Sh!At
  <2> QED BY <2>1 DEF ShellBound, Under
<1>5. CASE Sh!AddService \/ Sh!CapService \/ Sh!NoService \/ Sh!NoPost \/ Sh!HandOver
  <2>1. /\ UNCHANGED <<runs, testing, record, moved, samples>>
        /\ shpc' \in {"capservice", "post", "top"}
    BY <1>5 DEF Sh!AddService, Sh!CapService, Sh!NoService, Sh!NoPost,
                Sh!HandOver, Sh!At
  <2> QED BY <2>1 DEF ShellBound, Under
<1>6. CASE Sh!Stop
  <2>1. /\ UNCHANGED <<shpc, testing, record, moved, samples>> /\ runs' = FALSE
    BY <1>6 DEF Sh!Stop
  <2> QED BY <2>1 DEF ShellBound, Under
<1>7. CASE Sh!GameStep
  <2>1. UNCHANGED <<runs, shpc, testing, record, moved, samples>>
    BY <1>7 DEF Sh!GameStep, Sh!GooseCopies, Sh!GooseRaises, Sh!ReadPaid,
                Sh!AskSpending, Sh!SeesAnswer, Sh!Ask, Sh!board
  <2> QED BY <2>1 DEF ShellBound, Under
<1>8. QED BY <1>1, <1>2, <1>3, <1>4, <1>5, <1>6, <1>7 DEF Sh!Next, Sh!ShellStep

LEMMA ShellTyped ==
    ASSUME Sh!ShellAssumption, EdgeInv, CreditInv, ShellBound PROVE Sh!ShellTypeOK
<1>1. samples \in Nat /\ samples <= MaxSamples /\ MaxSamples \in Nat
  BY DEF ShellBound, Sh!ShellAssumption
<1>2. /\ edges \in Counts /\ record.edges \in Counts /\ heard.edges \in Counts
      /\ moved \in Counts
  BY DEF EdgeInv, EdgeType
<1>3. Under(edges) /\ Under(record.edges) /\ Under(heard.edges) /\ Under(moved)
  BY <1>1, PartsUnder DEF ShellBound
<1>4. ASSUME NEW e \in Counts, Under(e)
      PROVE  e \in [Switches -> [Sh!Kinds -> 0 .. MaxSamples]]
  <2>1. \A s \in Switches, n \in Sh!Kinds : e[s][n] \in 0 .. MaxSamples
    BY <1>1, <1>4 DEF Counts, Under
  <2> QED BY <2>1 DEF Counts
<1>5. {edges, record.edges, heard.edges, moved}
          \subseteq [Switches -> [Sh!Kinds -> 0 .. MaxSamples]]
  BY <1>2, <1>3, <1>4
<1>6. spend \in 0 .. Price \cup {Nothing}
  BY DEF CreditInv, Asking
<1>7. put \in Nat
  <2>1. /\ Sh!Total \in Nat /\ paidFor \in Nat /\ Price \in Nat
        /\ put = Sh!Total + Sh!Taken + paidFor
    BY TakenType DEF CreditInv, CreditType
  <2>2. Sh!Taken \in Nat
    BY <1>6, <2>1 DEF Sh!Taken
  <2> QED BY <2>1, <2>2
<1>8. QED BY <1>5, <1>6, <1>7 DEF Sh!ShellTypeOK, ShellBound, EdgeInv, EdgeType,
                                  CreditInv, CreditType

\* The values of the voices, the watchdog, the interrupt mask and the shell.
PlayTyped ==
    VoiceInv /\ WdInv /\ IInv /\ EdgeInv /\ CreditInv /\ ShellBound

LEMMA PlayTypesStart == ASSUME HostInit PROVE PlayTyped
BY HostAssumption, VoiceInit, WdInit, Starts, EdgesInit, CreditsInit, BoundStart
   DEF HostInit, PlayTyped

LEMMA PlayTypesStep == ASSUME PlayTyped, [HostNext]_hostVars PROVE PlayTyped'
BY HostAssumption, PlaySteps, VoiceStep, WdStep, Inductive, EdgesStep, CreditsStep,
   BoundStep DEF PlayTyped

LEMMA PlayTypesSay ==
    ASSUME PlayTyped
    PROVE  Vo!VoicesTypeOK /\ Wd!WatchdogTypeOK /\ TypeOK /\ Sh!ShellTypeOK
BY HostAssumption, ShellTyped DEF PlayTyped, VoiceInv, WdInv, IInv
=============================================================================
