-------------------------- MODULE HostFiles_proofs ---------------------------
(* What the host's machines for files keep, for every number of writes,    *)
(* hunks, slots, decoders and folders: the save file, the disk image's     *)
(* cache and the titles the importer places.                               *)
EXTENDS MCHost, WellFoundedInduction, TLAPS

\* A step of the host is a step of each machine, or leaves it alone.
LEMMA FileSteps ==
    ASSUME [HostNext]_hostVars
    PROVE  [Nv!Next]_nvram /\ [Ch!Next]_cache /\ [Im!Next]_import
BY DEF HostNext, hostVars, Saving, Excluding, Decoding, Placing, Sounding,
       Watching, Masking, Mixing, Serving, nvram, cache, import

-----------------------------------------------------------------------------
(* The save file. *)

\* A file of settings is not there, or has no more pieces than a block.
Writes == 0 .. MaxWrites
File(f) == f = Absent \/ (f \in Seq(Writes) /\ Len(f) <= 2)
InFile == {"put1", "put2", "close"}

\* A thread that writes the temporary file has it open, and while one has, the
\* file is there.
NvTyped ==
    /\ Nv!NvTypeOK
    /\ \A t \in NvThreads : npc[t] \in InFile => t \in using
    /\ using # {} => temp # Absent

LEMMA LoadedWrites ==
    ASSUME MaxWrites \in Nat, NEW f, File(f)
    PROVE  Nv!Loaded(f) \in [Nv!Piece -> Writes]
BY DEF Nv!Loaded, Nv!Piece, File, Writes

LEMMA PutAtFile ==
    ASSUME MaxWrites \in Nat, Nv!NvAssumption, NEW f, File(f), f # Absent,
           NEW i \in Nv!Piece, NEW v \in Writes
    PROVE  File(Nv!PutAt(f, i, v)) /\ Nv!PutAt(f, i, v) # Absent
<1> DEFINE n == IF Len(f) < i THEN i ELSE Len(f)
<1>1. f \in Seq(Writes) /\ Len(f) \in Nat /\ Len(f) <= 2 /\ i \in {1, 2}
  BY DEF File, Nv!Piece
<1>2. n \in Nat /\ n <= 2
  BY <1>1
<1>3. \A j \in 1 .. n : (IF j = i THEN v ELSE IF j <= Len(f) THEN f[j] ELSE 0) \in Writes
  BY <1>1 DEF Writes
<1>4. Nv!PutAt(f, i, v) \in [1 .. n -> Writes]
  BY <1>3 DEF Nv!PutAt
<1> HIDE DEF n
<1>5. Nv!PutAt(f, i, v) \in Seq(Writes) /\ Len(Nv!PutAt(f, i, v)) = n
  BY <1>2, <1>4
<1>6. Nv!PutAt(f, i, v) \in Seq(Nat)
  BY <1>2, <1>4 DEF Writes
<1>7. QED BY <1>2, <1>5, <1>6 DEF File, Nv!NvAssumption

LEMMA NvTypes ==
    ASSUME Nv!NvTypeOK
    PROVE  /\ mem \in [Nv!Piece -> Writes] /\ last \in Writes /\ dirty \in BOOLEAN
           /\ File(save) /\ File(temp) /\ using \subseteq NvThreads
           /\ npc \in [NvThreads -> Nv!NvPlace] /\ leaver \in NvThreads \cup {NvNobody}
           /\ met \in BOOLEAN
BY DEF Nv!NvTypeOK, Writes, File

LEMMA NvTypesStart == ASSUME Nv!NvAssumption, Nv!Init PROVE NvTyped
<1>1. MaxWrites \in Nat
  BY DEF Nv!NvAssumption
<1>2. mem \in [Nv!Piece -> Writes]
  BY <1>1, LoadedWrites DEF Nv!Init, File
<1>3. /\ last \in Writes /\ dirty \in BOOLEAN /\ File(save) /\ File(temp)
      /\ using \subseteq NvThreads /\ npc \in [NvThreads -> Nv!NvPlace]
      /\ leaver \in NvThreads \cup {NvNobody}
      /\ met \in BOOLEAN
  <2>1. File(Absent) /\ 0 \in Writes /\ "out" \in Nv!NvPlace
    BY <1>1 DEF File, Writes, Nv!NvPlace
  <2> QED BY <2>1 DEF Nv!Init
<1>4. Nv!NvTypeOK
  BY <1>2, <1>3 DEF Nv!NvTypeOK, Writes, File
<1>5. QED BY <1>4 DEF NvTyped, Nv!Init, InFile

LEMMA NvWriteTypes ==
    ASSUME Nv!NvAssumption, NvTyped,
           Nv!WriteBegins \/ (\E i \in Nv!Piece : Nv!Copy(i)) \/ Nv!Mark
    PROVE  NvTyped'
<1>1. Writer \in NvThreads /\ MaxWrites \in Nat
  BY DEF Nv!NvAssumption
<1>2. /\ mem \in [Nv!Piece -> Writes] /\ last \in Writes /\ dirty \in BOOLEAN
      /\ File(save) /\ File(temp) /\ using \subseteq NvThreads
      /\ npc \in [NvThreads -> Nv!NvPlace] /\ leaver \in NvThreads \cup {NvNobody}
      /\ met \in BOOLEAN
  BY NvTypes DEF NvTyped
<1>3. UNCHANGED <<save, temp, using, leaver>>
  BY DEF Nv!WriteBegins, Nv!Copy, Nv!Mark
<1>4. mem' \in [Nv!Piece -> Writes] /\ last' \in Writes /\ dirty' \in BOOLEAN
  <2>1. CASE Nv!WriteBegins
    BY <1>1, <1>2, <2>1 DEF Nv!WriteBegins, Writes
  <2>2. ASSUME NEW i \in Nv!Piece, Nv!Copy(i)
        PROVE  mem' \in [Nv!Piece -> Writes] /\ UNCHANGED <<last, dirty>>
    BY <1>2, <2>2 DEF Nv!Copy
  <2>3. CASE Nv!Mark
    BY <1>2, <2>3 DEF Nv!Mark
  <2> QED BY <1>2, <2>1, <2>2, <2>3
<1>5. \E p \in {"copy1", "copy2", "mark", "open"} : npc' = [npc EXCEPT ![Writer] = p]
  BY DEF Nv!WriteBegins, Nv!Copy, Nv!Mark, Nv!Goto
<1>6. /\ npc' \in [NvThreads -> Nv!NvPlace]
      /\ \A t \in NvThreads : npc'[t] \in InFile => npc[t] \in InFile
  BY <1>1, <1>2, <1>5 DEF Nv!NvPlace, Nv!Stored, InFile
<1>6a. met' \in BOOLEAN
  BY <1>2 DEF Nv!WriteBegins, Nv!Copy, Nv!Mark, Nv!Enters
<1>7. Nv!NvTypeOK'
  BY <1>2, <1>3, <1>4, <1>6, <1>6a DEF Nv!NvTypeOK, Writes, File
<1>8. QED BY <1>3, <1>6, <1>7 DEF NvTyped

LEMMA NvPutTypes ==
    ASSUME Nv!NvAssumption, NvTyped, NEW t \in NvThreads, NEW i \in Nv!Piece,
           Nv!Put(t, i)
    PROVE  NvTyped'
<1>1. MaxWrites \in Nat
  BY DEF Nv!NvAssumption
<1>2. /\ mem \in [Nv!Piece -> Writes] /\ last \in Writes /\ dirty \in BOOLEAN
      /\ File(save) /\ File(temp) /\ using \subseteq NvThreads
      /\ npc \in [NvThreads -> Nv!NvPlace] /\ leaver \in NvThreads \cup {NvNobody}
      /\ met \in BOOLEAN
  BY NvTypes DEF NvTyped
<1>3. npc[t] \in InFile /\ t \in using /\ temp # Absent
  BY DEF Nv!Put, NvTyped, InFile
<1>4. /\ UNCHANGED <<mem, dirty, save, using, leaver, last, met>>
      /\ temp' = Nv!PutAt(temp, i, mem[i])
      /\ \E p \in {"put2", "close"} : npc' = [npc EXCEPT ![t] = p]
  BY DEF Nv!Put, Nv!Goto
<1>5. File(temp') /\ temp' # Absent
  BY <1>1, <1>2, <1>3, <1>4, PutAtFile
<1>6. /\ npc' \in [NvThreads -> Nv!NvPlace]
      /\ \A u \in NvThreads : npc'[u] \in InFile => npc[u] \in InFile
  BY <1>2, <1>3, <1>4 DEF Nv!NvPlace, Nv!Stored, InFile
<1>7. Nv!NvTypeOK'
  BY <1>2, <1>4, <1>5, <1>6 DEF Nv!NvTypeOK, Writes, File
<1>8. QED BY <1>4, <1>5, <1>6, <1>7 DEF NvTyped

\* The rest of nv_store, and the flush at the exit.
LEMMA NvStoreTypes ==
    ASSUME Nv!NvAssumption, NvTyped, NEW t \in NvThreads,
           Nv!Open(t) \/ Nv!PutFails(t) \/ Nv!Close(t) \/ Nv!Replace(t)
           \/ Nv!Discard(t) \/ Nv!Clean(t) \/ Nv!Flush(t)
    PROVE  NvTyped'
<1>1. /\ mem \in [Nv!Piece -> Writes] /\ last \in Writes /\ dirty \in BOOLEAN
      /\ File(save) /\ File(temp) /\ using \subseteq NvThreads
      /\ npc \in [NvThreads -> Nv!NvPlace] /\ leaver \in NvThreads \cup {NvNobody}
      /\ met \in BOOLEAN
  BY NvTypes DEF NvTyped
<1>2. /\ UNCHANGED <<mem, last>> /\ dirty' \in BOOLEAN
      /\ leaver' \in NvThreads \cup {NvNobody} /\ met' \in BOOLEAN
  BY <1>1 DEF Nv!Open, Nv!PutFails, Nv!Close, Nv!Replace, Nv!Discard, Nv!Clean,
              Nv!Flush, Nv!Enters
<1>3. /\ \E p \in Nv!NvPlace : npc' = [npc EXCEPT ![t] = p]
      /\ npc' \in [NvThreads -> Nv!NvPlace]
      /\ \A u \in NvThreads \ {t} : npc'[u] = npc[u]
  <2>1. Nv!Back(t) \in Nv!NvPlace
    BY DEF Nv!Back, Nv!NvPlace
  <2>2. \E p \in Nv!NvPlace : npc' = [npc EXCEPT ![t] = p]
    BY <2>1 DEF Nv!Open, Nv!PutFails, Nv!Close, Nv!Replace, Nv!Discard, Nv!Clean,
                Nv!Flush, Nv!Goto, Nv!NvPlace, Nv!Stored
  <2> QED BY <1>1, <2>2
<1>4. File(save') /\ File(temp')
  <2>1. File(<<>>) /\ File(Absent)
    BY DEF File
  <2>2. save' \in {save, temp} /\ temp' \in {temp, Absent, <<>>}
    BY DEF Nv!Open, Nv!PutFails, Nv!Close, Nv!Replace, Nv!Discard, Nv!Clean, Nv!Flush
  <2> QED BY <1>1, <2>1, <2>2
<1>5. CASE Nv!Open(t)
  <2>1. \/ temp' = <<>> /\ using' = using \cup {t}
        \/ UNCHANGED <<temp, using>> /\ npc'[t] = Nv!Back(t)
    BY <1>1, <1>5 DEF Nv!Open, Nv!Goto
  <2>2. Nv!Back(t) \notin InFile
    BY DEF Nv!Back, InFile
  <2>3. <<>> \in Seq(Nat) /\ Absent \notin Seq(Nat)
    BY DEF Nv!NvAssumption
  <2>4. /\ \A u \in NvThreads : npc'[u] \in InFile => u \in using'
        /\ using' # {} => temp' # Absent
        /\ using' \subseteq NvThreads
    BY <1>1, <1>3, <2>1, <2>2, <2>3 DEF NvTyped
  <2> QED BY <1>1, <1>2, <1>3, <1>4, <2>4 DEF NvTyped, Nv!NvTypeOK, Writes, File
<1>6. CASE Nv!PutFails(t) \/ Nv!Close(t)
  <2>1. /\ using' = using \ {t} /\ UNCHANGED temp /\ npc'[t] \notin InFile
    BY <1>1, <1>6 DEF Nv!PutFails, Nv!Close, Nv!Goto, InFile
  <2>2. /\ \A u \in NvThreads : npc'[u] \in InFile => u \in using'
        /\ using' # {} => temp' # Absent
        /\ using' \subseteq NvThreads
    <3>1. using' # {} => using # {}
      BY <2>1
    <3> QED BY <1>1, <1>3, <2>1, <3>1 DEF NvTyped
  <2> QED BY <1>1, <1>2, <1>3, <1>4, <2>2 DEF NvTyped, Nv!NvTypeOK, Writes, File
<1>7. CASE Nv!Replace(t) \/ Nv!Discard(t) \/ Nv!Clean(t) \/ Nv!Flush(t)
  <2>1. /\ UNCHANGED using
        /\ using # {} => UNCHANGED temp
        /\ npc'[t] \notin InFile
    BY <1>1, <1>7 DEF Nv!Replace, Nv!Discard, Nv!Clean, Nv!Flush, Nv!Goto, Nv!Back,
                      InFile
  <2>2. /\ \A u \in NvThreads : npc'[u] \in InFile => u \in using'
        /\ using' # {} => temp' # Absent
        /\ using' \subseteq NvThreads
    BY <1>1, <1>3, <2>1 DEF NvTyped
  <2> QED BY <1>1, <1>2, <1>3, <1>4, <2>2 DEF NvTyped, Nv!NvTypeOK, Writes, File
<1>8. QED BY <1>5, <1>6, <1>7

LEMMA NvRestartTypes ==
    ASSUME Nv!NvAssumption, NvTyped, Nv!Restart PROVE NvTyped'
<1>1. /\ last \in Writes /\ File(save) /\ File(temp) /\ MaxWrites \in Nat
  BY NvTypes DEF NvTyped, Nv!NvAssumption
<1>2. mem' \in [Nv!Piece -> Writes]
  BY <1>1, LoadedWrites DEF Nv!Restart
<1>3. Nv!NvTypeOK'
  BY <1>1, <1>2 DEF Nv!Restart, Nv!NvTypeOK, Nv!NvPlace, Writes, File
<1>4. QED BY <1>3 DEF NvTyped, Nv!Restart, InFile

LEMMA NvTypesStep ==
    ASSUME Nv!NvAssumption, NvTyped, [Nv!Next]_nvram PROVE NvTyped'
<1>1. CASE UNCHANGED nvram
  BY <1>1 DEF nvram, NvTyped, Nv!NvTypeOK
<1>2. CASE Nv!Next
  BY <1>2, NvWriteTypes, NvPutTypes, NvStoreTypes, NvRestartTypes
     DEF Nv!Next, Nv!Store
<1>3. QED BY <1>1, <1>2

IsWhole(m) == m[1] = last /\ m[2] = last

Inside(t) == npc[t] \notin {"out", "gone"}

\* The block is the newest write whenever it is being stored or still waits
\* to be.
Newest ==
    /\ npc[Writer] = "copy2" => mem[1] = last
    /\ \A t \in NvThreads : npc[t] \in {"mark"} \cup Nv!Stored => IsWhole(mem)
    /\ dirty /\ (\A t \in NvThreads : ~Inside(t)) => IsWhole(mem)

\* The temporary file is as far as the thread that stores.
Written ==
    \A t \in NvThreads :
        /\ npc[t] = "put1" => temp = <<>>
        /\ npc[t] = "put2" => temp = <<last>>
        /\ npc[t] \in {"close", "replace"} => temp = Nv!Whole(last)

\* Both hold as long as one thread at a time has been inside.
SaveInv ==
    /\ \A t \in NvThreads : npc[t] \in {"copy1", "copy2", "mark"} => t = Writer
    /\ ~met => /\ \A t, u \in NvThreads : Inside(t) /\ Inside(u) => t = u
               /\ Newest /\ Written

LEMMA SaveInit == ASSUME Nv!NvAssumption, Nv!Init PROVE SaveInv
BY DEF Nv!NvAssumption, Nv!Init, SaveInv, Newest, Written, Inside, Nv!Stored

\* nv_write_block.
LEMMA WriteKeeps ==
    ASSUME Nv!NvAssumption, NvTyped, SaveInv,
           Nv!WriteBegins \/ (\E i \in Nv!Piece : Nv!Copy(i)) \/ Nv!Mark
    PROVE  SaveInv'
<1>1. /\ Writer \in NvThreads /\ npc \in [NvThreads -> Nv!NvPlace]
      /\ mem \in [Nv!Piece -> Writes]
  BY NvTypes DEF NvTyped, Nv!NvAssumption
<1>2. CASE Nv!WriteBegins
  <2>1. \A t \in NvThreads : npc'[t] = IF t = Writer THEN "copy1" ELSE npc[t]
    BY <1>1, <1>2 DEF Nv!WriteBegins, Nv!Goto
  <2>2. ~met' => ~met /\ \A t \in NvThreads : ~Inside(t)
    BY <1>2 DEF Nv!WriteBegins, Nv!Enters, Inside
  <2> QED BY <1>1, <2>1, <2>2 DEF SaveInv, Newest, Written, Inside, Nv!Stored
<1>3. ASSUME NEW i \in Nv!Piece, Nv!Copy(i) PROVE SaveInv'
  <2>1. \A t \in NvThreads :
          npc'[t] = IF t # Writer THEN npc[t] ELSE IF i = 1 THEN "copy2" ELSE "mark"
    BY <1>1, <1>3 DEF Nv!Copy, Nv!Goto
  <2>2. /\ npc[Writer] = (IF i = 1 THEN "copy1" ELSE "copy2")
        /\ UNCHANGED <<dirty, temp, last, met>>
        /\ \A j \in {1, 2} : mem'[j] = IF j = i THEN last ELSE mem[j]
    BY <1>1, <1>3 DEF Nv!Copy, Nv!Piece
  <2>3. ~met => \A t \in NvThreads : Inside(t) => t = Writer
    BY <1>1, <2>2 DEF SaveInv, Inside
  <2>4. i \in {1, 2}
    BY DEF Nv!Piece
  <2>5. ~met => Newest'
    BY <1>1, <2>1, <2>2, <2>3, <2>4
       DEF SaveInv, Newest, Inside, IsWhole, Nv!Stored
  <2>6. ~met => Written'
    BY <1>1, <2>1, <2>2 DEF SaveInv, Written
  <2> QED BY <1>1, <2>1, <2>2, <2>3, <2>5, <2>6 DEF SaveInv, Inside
<1>4. CASE Nv!Mark
  <2>1. \A t \in NvThreads : npc'[t] = IF t = Writer THEN "open" ELSE npc[t]
    BY <1>1, <1>4 DEF Nv!Mark, Nv!Goto
  <2>2. npc[Writer] = "mark" /\ UNCHANGED <<mem, temp, last, met>>
    BY <1>4 DEF Nv!Mark
  <2> QED BY <1>1, <2>1, <2>2 DEF SaveInv, Newest, Written, Inside, IsWhole,
                                  Nv!Stored
<1>5. QED BY <1>2, <1>3, <1>4

\* One thread goes on inside nv_store, or comes out of it.
LEMMA StoreMoves ==
    ASSUME NvTyped, SaveInv, NEW u \in NvThreads, npc[u] \in Nv!Stored,
           NEW p \in Nv!Stored \cup {"out", "gone"},
           npc' = [npc EXCEPT ![u] = p],
           UNCHANGED <<mem, last, met>>, dirty' \in {dirty, FALSE},
           ~met => /\ p = "put1" => temp' = <<>>
                   /\ p = "put2" => temp' = <<last>>
                   /\ p \in {"close", "replace"} => temp' = Nv!Whole(last)
    PROVE  SaveInv'
<1>1. \A t \in NvThreads : npc'[t] = IF t = u THEN p ELSE npc[t]
  BY NvTypes DEF NvTyped
<1>2. ~met => \A t \in NvThreads : Inside(t) => t = u
  BY DEF SaveInv, Inside, Nv!Stored
<1>3. ~met => IsWhole(mem)
  BY DEF SaveInv, Newest
<1>4. ~met => Newest'
  BY <1>1, <1>2, <1>3, NvTypes DEF NvTyped, Newest, Inside, IsWhole, Nv!Stored,
     Nv!NvAssumption, SaveInv
<1>5. ~met => Written'
  BY <1>1, <1>2 DEF Written, Inside, SaveInv
<1>6. /\ \A t \in NvThreads : npc'[t] \in {"copy1", "copy2", "mark"} => t = Writer
      /\ ~met => \A t, v \in NvThreads : Inside(t)' /\ Inside(v)' => t = v
  BY <1>1, <1>2 DEF SaveInv, Inside, Nv!Stored
<1>7. QED BY <1>4, <1>5, <1>6 DEF SaveInv

\* The pieces go into the temporary file in their order.
LEMMA PutKeeps ==
    ASSUME Nv!NvAssumption, NvTyped, SaveInv, NEW u \in NvThreads,
           NEW i \in Nv!Piece, Nv!Put(u, i)
    PROVE  SaveInv'
<1>1. /\ npc[u] = (IF i = 1 THEN "put1" ELSE "put2")
      /\ temp' = Nv!PutAt(temp, i, mem[i])
      /\ npc' = [npc EXCEPT ![u] = IF i = 1 THEN "put2" ELSE "close"]
      /\ UNCHANGED <<mem, dirty, last, met>>
  BY DEF Nv!Put, Nv!Goto
<1>2. i \in {1, 2} /\ last \in Nat
  BY NvTypes DEF Nv!Piece, NvTyped, Writes, Nv!NvAssumption
<1>3. ~met => IsWhole(mem) /\ temp = (IF i = 1 THEN <<>> ELSE <<last>>)
  BY <1>1, <1>2 DEF SaveInv, Newest, Written, Nv!Stored
<1>4. CASE i = 1
  <2>1. Nv!PutAt(<<>>, 1, last) = <<last>>
    BY <1>2 DEF Nv!PutAt
  <2>2. ~met => temp' = <<last>>
    BY <1>1, <1>3, <1>4, <2>1 DEF IsWhole
  <2>3. npc[u] = "put1" /\ npc' = [npc EXCEPT ![u] = "put2"]
    BY <1>1, <1>4
  <2> QED BY <1>1, <2>2, <2>3, StoreMoves DEF Nv!Stored
<1>5. CASE i = 2
  <2>1. Nv!PutAt(<<last>>, 2, last) = <<last, last>>
    BY <1>2 DEF Nv!PutAt
  <2>2. ~met => temp' = Nv!Whole(last)
    BY <1>1, <1>3, <1>5, <2>1 DEF IsWhole, Nv!Whole
  <2>3. npc[u] = "put2" /\ npc' = [npc EXCEPT ![u] = "close"]
    BY <1>1, <1>5
  <2> QED BY <1>1, <2>2, <2>3, StoreMoves DEF Nv!Stored
<1>6. QED BY <1>2, <1>4, <1>5

\* The rest of nv_store.
LEMMA StoreKeeps ==
    ASSUME NvTyped, SaveInv, NEW u \in NvThreads,
           \/ Nv!Open(u) \/ Nv!PutFails(u) \/ Nv!Close(u)
           \/ Nv!Replace(u) \/ Nv!Discard(u) \/ Nv!Clean(u)
    PROVE  SaveInv'
<1> DEFINE After(p) == npc' = [npc EXCEPT ![u] = p]
<1>1. Nv!Back(u) \in {"out", "gone"}
  BY DEF Nv!Back
<1>2. UNCHANGED <<mem, last, met>> /\ dirty' \in {dirty, FALSE}
      /\ npc[u] \in Nv!Stored
  BY DEF Nv!Open, Nv!PutFails, Nv!Close, Nv!Replace, Nv!Discard, Nv!Clean,
         Nv!Stored
<1>3. CASE After("put1") /\ temp' = <<>>
  BY <1>2, <1>3, StoreMoves DEF Nv!Stored
<1>4. CASE After("discard") \/ After("clean") \/ After(Nv!Back(u))
  BY <1>1, <1>2, <1>4, StoreMoves DEF Nv!Stored
<1>5. CASE npc[u] = "close" /\ UNCHANGED temp /\ After("replace")
  <2>1. ~met => temp' = Nv!Whole(last)
    BY <1>5 DEF SaveInv, Written
  <2> QED BY <1>2, <1>5, <2>1, StoreMoves DEF Nv!Stored
<1>6. \/ After("put1") /\ temp' = <<>>
      \/ After("discard") \/ After("clean") \/ After(Nv!Back(u))
      \/ npc[u] = "close" /\ UNCHANGED temp /\ After("replace")
  BY DEF Nv!Open, Nv!PutFails, Nv!Close, Nv!Replace, Nv!Discard, Nv!Clean,
         Nv!Goto
<1>7. QED BY <1>3, <1>4, <1>5, <1>6

\* The flush at the exit stores only what still waits to be.
LEMMA FlushKeeps ==
    ASSUME Nv!NvAssumption, NvTyped, SaveInv, NEW u \in NvThreads, Nv!Flush(u)
    PROVE  SaveInv'
<1>1. \A t \in NvThreads :
        npc'[t] = IF t # u THEN npc[t] ELSE IF dirty THEN "open" ELSE "gone"
  BY NvTypes DEF NvTyped, Nv!Flush, Nv!Goto
<1>2. /\ npc[u] = "out" /\ UNCHANGED <<mem, dirty, temp, last>>
      /\ ~met' => ~met
      /\ ~met' /\ dirty => \A t \in NvThreads : ~Inside(t)
  BY DEF Nv!Flush, Nv!Enters, Inside
<1>3. CASE dirty
  <2>1. ~met' => IsWhole(mem)
    BY <1>2, <1>3 DEF SaveInv, Newest
  <2>2. ~met' => Newest' /\ Written'
    BY <1>1, <1>2, <1>3, <2>1 DEF Newest, Written, Inside, IsWhole, Nv!Stored
  <2> QED BY <1>1, <1>2, <1>3, <2>2 DEF SaveInv, Inside
<1>4. CASE ~dirty
  <2>1. \A t \in NvThreads : npc'[t] = IF t = u THEN "gone" ELSE npc[t]
    BY <1>1, <1>4
  <2>2. ~dirty'
    BY <1>2, <1>4
  <2>3. ~met' => Newest'
    <3> SUFFICES ASSUME ~met' PROVE Newest'
      OBVIOUS
    <3>1. Newest /\ UNCHANGED <<mem, last>>
      BY <1>2 DEF SaveInv
    <3>2. npc'[Writer] = "copy2" => mem'[1] = last'
      BY <1>2, <2>1, <3>1 DEF SaveInv, Newest, Nv!NvAssumption
    <3>3. \A t \in NvThreads :
             npc'[t] \in {"mark"} \cup Nv!Stored => IsWhole(mem)'
      BY <2>1, <3>1 DEF Newest, IsWhole, Nv!Stored
    <3> QED BY <2>2, <3>2, <3>3 DEF Newest
  <2>4. ~met' => Written'
    BY <1>2, <2>1 DEF SaveInv, Written
  <2> QED BY <1>2, <2>1, <2>3, <2>4 DEF SaveInv, Inside
<1>5. QED BY <1>3, <1>4

LEMMA SaveStep ==
    ASSUME Nv!NvAssumption, NvTyped, SaveInv, [Nv!Next]_nvram PROVE SaveInv'
<1>1. CASE UNCHANGED nvram
  BY <1>1 DEF nvram, SaveInv, Newest, Written, Inside, IsWhole
<1>2. CASE Nv!WriteBegins \/ (\E i \in Nv!Piece : Nv!Copy(i)) \/ Nv!Mark
  BY <1>2, WriteKeeps
<1>3. ASSUME NEW u \in NvThreads, Nv!Store(u) \/ Nv!Flush(u) PROVE SaveInv'
  BY <1>3, PutKeeps, StoreKeeps, FlushKeeps DEF Nv!Store
<1>4. CASE Nv!Restart
  BY <1>4 DEF Nv!Restart, Nv!NvAssumption, SaveInv, Newest, Written, Inside,
              Nv!Stored
<1>5. QED BY <1>1, <1>2, <1>3, <1>4 DEF Nv!Next

\* The one step that touches the file puts the newest block there.
LEMMA ReplacesByNewest ==
    ASSUME SaveInv, Nv!Next, save' # save, ~met PROVE save' = Nv!Whole(last)
<1>1. PICK u \in NvThreads : Nv!Replace(u)
  BY DEF Nv!Next, Nv!WriteBegins, Nv!Copy, Nv!Mark, Nv!Store, Nv!Open, Nv!Put, Nv!PutFails, Nv!Close,
         Nv!Discard, Nv!Clean, Nv!Flush, Nv!Restart
<1>2. QED BY <1>1 DEF Nv!Replace, SaveInv, Written

\* Whatever fails, wherever the process ends and whichever threads leave: as
\* long as two threads have not been in nvram.c at once, a save replaces the
\* file by the block of the newest write or leaves it as it was (nv_store,
\* nv_load).
THEOREM SaveSafety == HostSpec => SavesNewest
<1>1. Nv!NvAssumption
  BY HostAssumption
<1>2. HostInit => NvTyped /\ SaveInv
  BY <1>1, NvTypesStart, SaveInit DEF HostInit
<1>3. NvTyped /\ SaveInv /\ [HostNext]_hostVars => (NvTyped /\ SaveInv)'
  BY <1>1, FileSteps, NvTypesStep, SaveStep
<1>4. SaveInv /\ [HostNext]_hostVars =>
          [save' # save /\ ~met => save' = Nv!Whole(last)]_nvram
  BY FileSteps, ReplacesByNewest
<1>5. QED BY <1>2, <1>3, <1>4, PTL DEF HostSpec, SavesNewest, Nv!SavesNewest,
                                        nvram, Nv!nvVars

-----------------------------------------------------------------------------
(* The disk image's cache. *)

LEMMA NatMin ==
    ASSUME NEW T, T \subseteq Nat, T # {} PROVE \E x \in T : \A y \in T : x <= y
<1>1. \E x \in T : \A y \in T : ~(<<y, x>> \in OpToRel(<, Nat))
  BY NatLessThanWellFounded, WFMin
<1>2. PICK x \in T : \A y \in T : ~(<<y, x>> \in OpToRel(<, Nat))
  BY <1>1
<1>3. \A y \in T : ~(y < x)
  BY <1>2 DEF OpToRel
<1>4. QED BY <1>3

\* A slot that waits for its decoding is held by exactly one: it is queued
\* once, or one decoder or the reader decodes into it.
ReaderDecodes(s) == rd.at = "decode" /\ rd.slot = s
ReaderUses(s) == rd.at = "using" /\ rd.slot = s

SlotRecord == [hunk : Hunks \cup {Torn}, pins : Int,
               state : {"free", "pending", "ready", "failed"}]
DecoderPlace == [at : {"up", "asleep", "decoding", "ended"},
                 slot : Ch!Slots \cup {NoSlot}]
ReaderPlace == [at : Ch!ReaderPlaces, hunk : Hunks, slot : Ch!Slots \cup {NoSlot}]

\* The slots and the ways to one: by age, by hunk.
SlotType ==
    /\ slot \in [Ch!Slots -> SlotRecord]
    /\ bytes \in [Ch!Slots -> Hunks \cup {Torn}]
    /\ where \in [Hunks -> Ch!Slots \cup {NoSlot}]
Ranked ==
    /\ lru \in [Ch!Slots -> Ch!Slots]
    /\ \A s \in Ch!Slots : \E i \in Ch!Slots : lru[i] = s
PlanType ==
    /\ plan \in Seq(Hunks) /\ planAt \in Nat \ {0} /\ planSub \in Nat \ {0}
ThreadType ==
    /\ todo \in Seq(Ch!Slots)
    /\ dpc \in [Decoders -> DecoderPlace]
    /\ rd \in ReaderPlace
ChdType == SlotType /\ Ranked /\ PlanType /\ ThreadType

\* What a hunk is looked up by is the slot that was taken for it.
Indexed == \A h \in Hunks : where[h] # NoSlot => slot[where[h]].hunk = h

\* Only the reader holds a slot that is decoded, and its bytes are the hunk's.
SlotHeld ==
    \A s \in Ch!Slots :
        /\ slot[s].state = "pending" => slot[s].pins = 1
        /\ slot[s].state = "ready" =>
              /\ bytes[s] = slot[s].hunk
              /\ slot[s].pins = IF ReaderUses(s) THEN 1 ELSE 0
        /\ slot[s].state \in {"free", "failed"} => slot[s].pins = 0

\* Who has a slot that is pending: the queue, a decoder or the reader.
QueueOwns ==
    \A i \in 1 .. Len(todo) :
        /\ slot[todo[i]].state = "pending" /\ ~ReaderDecodes(todo[i])
        /\ \A j \in 1 .. Len(todo) : todo[i] = todo[j] => i = j
DecoderOwns(d) ==
    /\ dpc[d].slot \in Ch!Slots /\ slot[dpc[d].slot].state = "pending"
    /\ ~ReaderDecodes(dpc[d].slot)
    /\ \A i \in 1 .. Len(todo) : todo[i] # dpc[d].slot
    /\ \A e \in Decoders :
          dpc[e].at = "decoding" /\ dpc[e].slot = dpc[d].slot => d = e
DecodersOwn == \A d \in Decoders : dpc[d].at = "decoding" => DecoderOwns(d)
ReaderOwns ==
    rd.at \in {"decode", "using"} =>
        /\ rd.slot \in Ch!Slots
        /\ slot[rd.slot].state = IF rd.at = "decode" THEN "pending" ELSE "ready"
        /\ slot[rd.slot].hunk = rd.hunk
OneOwner == QueueOwns /\ DecodersOwn /\ ReaderOwns

ChdInv == ChdType /\ Indexed /\ SlotHeld /\ OneOwner

LEMMA ChdInit == ASSUME Ch!ChdAssumption, Ch!Init PROVE ChdInv
<1>1. SlotType /\ PlanType /\ ThreadType
  BY DEF Ch!ChdAssumption, Ch!Init, SlotType, PlanType, ThreadType, SlotRecord,
         DecoderPlace, ReaderPlace, Ch!ReaderPlaces
<1>2. Ranked
  BY DEF Ch!Init, Ranked, Ch!Slots
<1>3. Indexed /\ SlotHeld /\ OneOwner
  BY DEF Ch!Init, Indexed, SlotHeld, OneOwner, QueueOwns, DecodersOwn, ReaderOwns
<1>4. QED BY <1>1, <1>2, <1>3 DEF ChdInv, ChdType

\* The oldest slot that may be taken is one.
LEMMA OldestTakeable ==
    ASSUME Ch!ChdAssumption, Ranked, Ch!CanTake PROVE Ch!Oldest \in Ch!Slots /\ Ch!Takeable(Ch!Oldest)
<1> DEFINE T == {i \in Ch!Slots : Ch!Takeable(lru[i])}
<1>1. PICK s \in Ch!Slots : Ch!Takeable(s)
  BY DEF Ch!CanTake
<1>2. PICK i \in Ch!Slots : lru[i] = s
  BY DEF Ranked
<1>3. T \subseteq Nat /\ i \in T
  BY <1>1, <1>2 DEF Ch!Slots
<1>4. PICK m \in T : \A j \in T : m <= j
  BY <1>3, NatMin
<1>5. \A j \in 1 .. m - 1 : j \in Ch!Slots /\ ~Ch!Takeable(lru[j])
  BY <1>4 DEF Ch!Slots, Ch!ChdAssumption
<1>6. \E n \in Ch!Slots : Ch!Takeable(lru[n]) /\ \A j \in 1 .. n - 1 : ~Ch!Takeable(lru[j])
  BY <1>4, <1>5
<1>7. PICK n \in Ch!Slots : Ch!Oldest = lru[n] /\ Ch!Takeable(lru[n])
  BY <1>6 DEF Ch!Oldest
<1>8. QED BY <1>7 DEF Ranked

LEMMA TouchedType ==
    ASSUME Ch!ChdAssumption, Ranked, NEW s \in Ch!Slots
    PROVE  /\ Ch!Touched(s) \in [Ch!Slots -> Ch!Slots]
           /\ \A t \in Ch!Slots : \E i \in Ch!Slots : Ch!Touched(s)[i] = t
<1>1. Ch!Place(s) \in Ch!Slots /\ lru[Ch!Place(s)] = s
  BY DEF Ranked, Ch!Place
<1>2. Ch!Touched(s) \in [Ch!Slots -> Ch!Slots]
  <2>1. ASSUME NEW i \in Ch!Slots, i < NSlots PROVE lru[i + 1] \in Ch!Slots
    <3>1. i + 1 \in Ch!Slots
      BY <2>1 DEF Ch!Slots, Ch!ChdAssumption
    <3>2. QED BY <3>1 DEF Ranked
  <2>2. QED BY <2>1 DEF Ch!Touched, Ranked
<1>3. ASSUME NEW t \in Ch!Slots PROVE \E i \in Ch!Slots : Ch!Touched(s)[i] = t
  <2>1. CASE t = s
    <3>1. NSlots \in Ch!Slots /\ Ch!Touched(s)[NSlots] = s
      BY <1>1 DEF Ch!Touched, Ch!Slots, Ch!ChdAssumption
    <3>2. QED BY <2>1, <3>1
  <2>2. CASE t # s
    <3>1. PICK j \in Ch!Slots : lru[j] = t
      BY DEF Ranked
    <3>2. j # Ch!Place(s)
      BY <1>1, <2>2, <3>1
    <3>3. CASE j < Ch!Place(s)
      BY <1>1, <3>1, <3>3 DEF Ch!Touched
    <3>4. CASE j > Ch!Place(s)
      <4>1. j - 1 \in Ch!Slots /\ ~(j - 1 < Ch!Place(s)) /\ j - 1 < NSlots
        BY <1>1, <3>4 DEF Ch!Slots, Ch!ChdAssumption
      <4>2. Ch!Touched(s)[j - 1] = lru[j - 1 + 1]
        BY <4>1 DEF Ch!Touched
      <4>3. j - 1 + 1 = j
        BY DEF Ch!Slots
      <4>4. QED BY <3>1, <4>1, <4>2, <4>3
    <3>5. QED BY <1>1, <3>2, <3>3, <3>4 DEF Ch!Slots
  <2>3. QED BY <2>1, <2>2
<1>4. QED BY <1>2, <1>3

\* What slot_take leaves: the slot it took is h's, and no other changed.
LEMMA SlotTaken ==
    ASSUME Ch!ChdAssumption, SlotType, Ranked, Indexed, NEW h \in Hunks, Ch!Take(h)
    PROVE  /\ Ch!Oldest \in Ch!Slots
           /\ slot[Ch!Oldest].state # "pending" /\ slot[Ch!Oldest].pins = 0
           /\ slot' \in [Ch!Slots -> SlotRecord]
           /\ slot'[Ch!Oldest] = [hunk |-> h, state |-> "pending", pins |-> 1]
           /\ \A s \in Ch!Slots : s # Ch!Oldest => slot'[s] = slot[s]
           /\ where' \in [Hunks -> Ch!Slots \cup {NoSlot}]
           /\ Ranked' /\ Indexed'
<1>1. Ch!Oldest \in Ch!Slots /\ Ch!Takeable(Ch!Oldest)
  BY OldestTakeable DEF Ch!Take
<1>2. Ranked'
  BY <1>1, TouchedType DEF Ch!Take, Ranked
<1>3. slot' = [slot EXCEPT ![Ch!Oldest] = [hunk |-> h, state |-> "pending", pins |-> 1]]
  BY DEF Ch!Take
<1>4. [hunk |-> h, state |-> "pending", pins |-> 1] \in SlotRecord
  BY DEF SlotRecord
<1>5. /\ slot' \in [Ch!Slots -> SlotRecord]
      /\ slot'[Ch!Oldest] = [hunk |-> h, state |-> "pending", pins |-> 1]
      /\ \A s \in Ch!Slots : s # Ch!Oldest => slot'[s] = slot[s]
  BY <1>1, <1>3, <1>4 DEF SlotType
<1>6. where' \in [Hunks -> Ch!Slots \cup {NoSlot}]
  BY <1>1 DEF Ch!Take, SlotType
<1>7. Indexed'
  <2>1. SUFFICES ASSUME NEW g \in Hunks, where'[g] # NoSlot
                 PROVE  slot'[where'[g]].hunk = g
    BY DEF Indexed
  <2>2. CASE g = h
    BY <1>5, <2>2 DEF Ch!Take
  <2>3. CASE g # h
    <3>1. where'[g] = where[g] /\ g # slot[Ch!Oldest].hunk
      BY <2>1, <2>3 DEF Ch!Take
    <3>2. where[g] \in Ch!Slots /\ slot[where[g]].hunk = g
      BY <2>1, <3>1 DEF SlotType, Indexed
    <3>3. QED BY <1>5, <3>1, <3>2
  <2>4. QED BY <2>2, <2>3
<1>8. QED BY <1>1, <1>2, <1>5, <1>6, <1>7 DEF Ch!Takeable

\* Queue and decoders keep what they own while the pending slots stay so and
\* the reader begins to decode none of them.
LEMMA OwnersStand ==
    ASSUME ThreadType, QueueOwns, DecodersOwn, UNCHANGED <<todo, dpc>>,
           \A s \in Ch!Slots : slot[s].state = "pending" /\ ~ReaderDecodes(s) =>
                slot'[s].state = "pending" /\ ~ReaderDecodes(s)'
    PROVE  QueueOwns' /\ DecodersOwn'
<1>1. \A i \in 1 .. Len(todo) : todo[i] \in Ch!Slots
  BY DEF ThreadType
<1>2. QueueOwns'
  BY <1>1 DEF QueueOwns
<1>3. ASSUME NEW d \in Decoders, dpc'[d].at = "decoding" PROVE DecoderOwns(d)'
  <2>1. DecoderOwns(d)
    BY <1>3 DEF DecodersOwn
  <2>2. QED BY <2>1 DEF DecoderOwns
<1>4. QED BY <1>2, <1>3 DEF DecodersOwn

LEMMA FoundKeeps == ASSUME Ch!ChdAssumption, ChdInv, Ch!Found PROVE ChdInv'
<1> DEFINE w == where[rd.hunk]
<1>1. /\ SlotType /\ Ranked /\ PlanType /\ ThreadType /\ Indexed /\ SlotHeld
      /\ QueueOwns /\ DecodersOwn /\ ReaderOwns
  BY DEF ChdInv, ChdType, OneOwner
<1>2. /\ slot' = [slot EXCEPT ![w].pins = @ + 1] /\ lru' = Ch!Touched(w)
      /\ rd' = [rd EXCEPT !.at = "using", !.slot = w]
      /\ UNCHANGED <<bytes, where, todo, plan, planAt, planSub, dpc>>
      /\ rd.at \in {"look", "submit"} /\ w # NoSlot /\ slot[w].state = "ready"
  BY DEF Ch!Found, Ch!Turn, Ch!SubmitDone, Ch!State, Ch!Held
<1>3. rd.hunk \in Hunks /\ w \in Ch!Slots
  BY <1>1, <1>2 DEF ThreadType, SlotType, ReaderPlace
<1>4. slot[w].hunk = rd.hunk /\ slot[w].pins = 0
  BY <1>1, <1>2, <1>3 DEF Indexed, SlotHeld, ReaderUses
<1>5. slot[w] \in SlotRecord
  BY <1>1, <1>3 DEF SlotType
<1>6. [slot[w] EXCEPT !.pins = @ + 1] \in SlotRecord
  BY <1>5 DEF SlotRecord
<1>7. /\ slot' \in [Ch!Slots -> SlotRecord]
      /\ slot'[w].hunk = rd.hunk /\ slot'[w].state = "ready" /\ slot'[w].pins = 1
      /\ \A s \in Ch!Slots : s # w => slot'[s] = slot[s]
  BY <1>1, <1>2, <1>3, <1>4, <1>5, <1>6 DEF SlotType, SlotRecord
<1>8. SlotType' /\ PlanType' /\ ThreadType'
  BY <1>1, <1>2, <1>3, <1>7
     DEF SlotType, PlanType, ThreadType, ReaderPlace, Ch!ReaderPlaces
<1>9. Ranked'
  <2>1. /\ Ch!Touched(w) \in [Ch!Slots -> Ch!Slots]
        /\ \A t \in Ch!Slots : \E i \in Ch!Slots : Ch!Touched(w)[i] = t
    BY <1>1, <1>3, TouchedType
  <2>2. QED BY <1>2, <2>1 DEF Ranked
<1>10. rd'.at = "using" /\ rd'.slot = w /\ rd'.hunk = rd.hunk
  BY <1>1, <1>2 DEF ThreadType, ReaderPlace
<1>11. Indexed'
  BY <1>1, <1>2, <1>3, <1>4, <1>7 DEF Indexed, SlotType
<1>12. SlotHeld'
  BY <1>1, <1>2, <1>3, <1>4, <1>7, <1>10 DEF SlotHeld, ReaderUses
<1>13. QueueOwns' /\ DecodersOwn'
  BY <1>1, <1>2, <1>7, <1>10, OwnersStand DEF ReaderDecodes
<1>14. ReaderOwns'
  BY <1>3, <1>7, <1>10 DEF ReaderOwns
<1>15. QED
  BY <1>8, <1>9, <1>11, <1>12, <1>13, <1>14 DEF ChdInv, ChdType, OneOwner

\* Steps of the reader that change no slot.
LEMMA ReaderStands ==
    ASSUME Ch!ChdAssumption, ChdInv, PlanType', rd' \in ReaderPlace,
           rd.at \notin {"decode", "using"}, rd'.at \notin {"decode", "using"},
           UNCHANGED <<slot, bytes, lru, where, todo, dpc>>
    PROVE  ChdInv'
<1>1. /\ SlotType /\ Ranked /\ ThreadType /\ Indexed /\ SlotHeld
      /\ QueueOwns /\ DecodersOwn
  BY DEF ChdInv, ChdType, OneOwner
<1>2. SlotType' /\ Ranked' /\ ThreadType' /\ Indexed'
  BY <1>1 DEF SlotType, Ranked, ThreadType, Indexed
<1>3. SlotHeld' /\ ReaderOwns'
  BY <1>1 DEF SlotHeld, ReaderUses, ReaderOwns
<1>4. QueueOwns' /\ DecodersOwn'
  BY <1>1, OwnersStand DEF ReaderDecodes
<1>5. QED BY <1>2, <1>3, <1>4 DEF ChdInv, ChdType, OneOwner

LEMMA ReaderKeeps ==
    ASSUME Ch!ChdAssumption, ChdInv,
           \/ Ch!Sleeps \/ Ch!FoundBad \/ Ch!Joined
           \/ (\E p \in Plans : Ch!Plan(p)) \/ (\E h \in Hunks : Ch!Get(h))
    PROVE  ChdInv'
<1>1. PlanType /\ rd \in ReaderPlace
  BY DEF ChdInv, ChdType, ThreadType
<1>2. CASE Ch!Sleeps \/ Ch!FoundBad \/ Ch!Joined
  <2>1. /\ \E place \in {"asleep", "idle", "closed"} : rd' = [rd EXCEPT !.at = place]
        /\ rd.at \notin {"decode", "using"}
        /\ UNCHANGED <<slot, bytes, lru, where, todo, plan, planAt, planSub, dpc>>
    BY <1>2 DEF Ch!Sleeps, Ch!FoundBad, Ch!Joined, Ch!Turn, Ch!SubmitDone
  <2>2. PlanType'
    BY <1>1, <2>1 DEF PlanType
  <2>3. rd' \in ReaderPlace /\ rd'.at \notin {"decode", "using"}
    BY <1>1, <2>1 DEF ReaderPlace, Ch!ReaderPlaces
  <2>4. QED BY <2>1, <2>2, <2>3, ReaderStands
<1>3. ASSUME NEW p \in Plans, Ch!Plan(p) PROVE ChdInv'
  <2>1. PlanType'
    BY <1>3 DEF Ch!Plan, PlanType, Ch!ChdAssumption
  <2>2. QED BY <1>1, <1>3, <2>1, ReaderStands DEF Ch!Plan
<1>4. ASSUME NEW h \in Hunks, Ch!Get(h) PROVE ChdInv'
  <2>1. /\ rd.at = "idle"
        /\ \E place \in {"submit", "look"} :
              rd' = [rd EXCEPT !.at = place, !.hunk = h]
        /\ UNCHANGED <<slot, bytes, lru, where, todo, plan, dpc>>
    BY <1>4 DEF Ch!Get
  <2>2. \/ UNCHANGED <<planAt, planSub>>
        \/ \E i \in planAt .. Len(plan) :
              planAt' = i /\ planSub' = IF planSub < i THEN i ELSE planSub
    BY <1>4 DEF Ch!Get, Ch!Planned
  <2>3. PlanType'
    BY <1>1, <2>1, <2>2 DEF PlanType
  <2>4. rd' \in ReaderPlace /\ rd'.at \notin {"decode", "using"}
    BY <1>1, <2>1 DEF ReaderPlace, Ch!ReaderPlaces
  <2>5. QED BY <2>1, <2>3, <2>4, ReaderStands
<1>5. QED BY <1>2, <1>3, <1>4

LEMMA DecodedKeeps == ASSUME Ch!ChdAssumption, ChdInv, Ch!Decoded PROVE ChdInv'
<1> DEFINE w == rd.slot
           end == Ch!Outcome(w)
<1>1. /\ SlotType /\ Ranked /\ PlanType /\ ThreadType /\ Indexed /\ SlotHeld
      /\ QueueOwns /\ DecodersOwn /\ ReaderOwns
  BY DEF ChdInv, ChdType, OneOwner
<1>2. /\ rd.at = "decode" /\ bytes' = [bytes EXCEPT ![w] = rd.hunk]
      /\ slot' = [slot EXCEPT ![w].state = end,
                              ![w].pins = IF end = "ready" THEN 1 ELSE 0]
      /\ rd' = [rd EXCEPT !.at = IF end = "ready" THEN "using" ELSE "idle"]
      /\ UNCHANGED <<lru, where, todo, plan, planAt, planSub, dpc>>
  BY DEF Ch!Decoded
<1>3. w \in Ch!Slots /\ slot[w].state = "pending" /\ slot[w].hunk = rd.hunk
  BY <1>1, <1>2 DEF ReaderOwns
<1>4. end \in {"ready", "failed"} /\ slot[w] \in SlotRecord /\ rd \in ReaderPlace
  BY <1>1, <1>3 DEF Ch!Outcome, SlotType, ThreadType
<1>5. /\ slot'[w].hunk = rd.hunk /\ slot'[w].state = end
      /\ slot'[w].pins = IF end = "ready" THEN 1 ELSE 0
  BY <1>1, <1>2, <1>3, <1>4 DEF SlotType, SlotRecord
<1>6. /\ slot' \in [Ch!Slots -> SlotRecord]
      /\ \A s \in Ch!Slots : s # w => slot'[s] = slot[s]
  BY <1>1, <1>2, <1>3, <1>4 DEF SlotType, SlotRecord
<1>7. /\ rd' \in ReaderPlace /\ rd'.slot = w /\ rd'.hunk = rd.hunk
      /\ rd'.at = IF end = "ready" THEN "using" ELSE "idle"
  BY <1>2, <1>4 DEF ReaderPlace, Ch!ReaderPlaces
<1>8. SlotType' /\ Ranked' /\ PlanType' /\ ThreadType'
  BY <1>1, <1>2, <1>4, <1>5, <1>6, <1>7 DEF SlotType, Ranked, PlanType, ThreadType, ReaderPlace
<1>9. Indexed'
  BY <1>1, <1>2, <1>3, <1>5, <1>6 DEF Indexed, SlotType
<1>10. SlotHeld'
  BY <1>1, <1>2, <1>3, <1>4, <1>5, <1>6, <1>7 DEF SlotHeld, ReaderUses, SlotType
<1>11. QueueOwns' /\ DecodersOwn'
  BY <1>1, <1>2, <1>5, <1>6, <1>7, OwnersStand DEF ReaderDecodes
<1>12. ReaderOwns'
  BY <1>3, <1>5, <1>6, <1>7 DEF ReaderOwns
<1>13. QED BY <1>8, <1>9, <1>10, <1>11, <1>12 DEF ChdInv, ChdType, OneOwner

LEMMA PutKeepsCache == ASSUME Ch!ChdAssumption, ChdInv, Ch!Put PROVE ChdInv'
<1> DEFINE w == rd.slot
<1>1. /\ SlotType /\ Ranked /\ PlanType /\ ThreadType /\ Indexed /\ SlotHeld
      /\ QueueOwns /\ DecodersOwn /\ ReaderOwns
  BY DEF ChdInv, ChdType, OneOwner
<1>2. /\ rd.at = "using" /\ slot' = [slot EXCEPT ![w].pins = @ - 1]
      /\ rd' = [rd EXCEPT !.at = "idle", !.slot = NoSlot]
      /\ UNCHANGED <<bytes, lru, where, todo, plan, planAt, planSub, dpc>>
  BY DEF Ch!Put
<1>3. w \in Ch!Slots /\ slot[w].state = "ready" /\ slot[w].pins = 1
  BY <1>1, <1>2 DEF ReaderOwns, SlotHeld, ReaderUses
<1>4. slot[w] \in SlotRecord /\ rd \in ReaderPlace
  BY <1>1, <1>3 DEF SlotType, ThreadType
<1>5. [slot[w] EXCEPT !.pins = @ - 1] \in SlotRecord
  BY <1>4 DEF SlotRecord
<1>6. /\ slot' \in [Ch!Slots -> SlotRecord]
      /\ slot'[w].hunk = slot[w].hunk /\ slot'[w].state = "ready"
      /\ slot'[w].pins = 0
      /\ \A s \in Ch!Slots : s # w => slot'[s] = slot[s]
  BY <1>1, <1>2, <1>3, <1>4, <1>5 DEF SlotType, SlotRecord
<1>7. rd' \in ReaderPlace /\ rd'.at = "idle"
  BY <1>2, <1>4 DEF ReaderPlace, Ch!ReaderPlaces
<1>8. SlotType' /\ Ranked' /\ PlanType' /\ ThreadType'
  BY <1>1, <1>2, <1>6, <1>7 DEF SlotType, Ranked, PlanType, ThreadType
<1>9. Indexed'
  BY <1>1, <1>2, <1>3, <1>6 DEF Indexed, SlotType
<1>10. SlotHeld'
  BY <1>1, <1>2, <1>3, <1>6, <1>7 DEF SlotHeld, ReaderUses
<1>11. QueueOwns' /\ DecodersOwn'
  BY <1>1, <1>2, <1>3, <1>6, <1>7, OwnersStand DEF ReaderDecodes
<1>12. ReaderOwns'
  BY <1>7 DEF ReaderOwns
<1>13. QED BY <1>8, <1>9, <1>10, <1>11, <1>12 DEF ChdInv, ChdType, OneOwner

\* Threads that go to sleep, wake or end own what they owned.
LEMMA CloseKeeps == ASSUME Ch!ChdAssumption, ChdInv, Ch!Close PROVE ChdInv'
<1>1. /\ SlotType /\ Ranked /\ PlanType /\ ThreadType /\ Indexed /\ SlotHeld
      /\ QueueOwns /\ DecodersOwn /\ ReaderOwns
  BY DEF ChdInv, ChdType, OneOwner
<1>2. /\ rd.at = "idle" /\ rd' = [rd EXCEPT !.at = "closing"]
      /\ UNCHANGED <<slot, bytes, lru, where, todo, plan, planAt, planSub>>
      /\ dpc' = [d \in Decoders |-> IF d \in Ch!Sleepers
                    THEN [dpc[d] EXCEPT !.at = "up"] ELSE dpc[d]]
  BY DEF Ch!Close
<1>3. rd' \in ReaderPlace /\ rd'.at = "closing"
  BY <1>1, <1>2 DEF ThreadType, ReaderPlace, Ch!ReaderPlaces
<1>4. /\ dpc' \in [Decoders -> DecoderPlace]
      /\ \A d \in Decoders : dpc'[d].at = "decoding" =>
            dpc[d].at = "decoding" /\ dpc'[d].slot = dpc[d].slot
  BY <1>1, <1>2 DEF ThreadType, DecoderPlace, Ch!Sleepers
<1>5. SlotType' /\ Ranked' /\ PlanType' /\ ThreadType' /\ Indexed'
  BY <1>1, <1>2, <1>3, <1>4 DEF SlotType, Ranked, PlanType, ThreadType, Indexed
<1>6. SlotHeld' /\ ReaderOwns' /\ QueueOwns'
  BY <1>1, <1>2, <1>3 DEF SlotHeld, ReaderUses, ReaderOwns, QueueOwns, ReaderDecodes
<1>7. ASSUME NEW d \in Decoders, dpc'[d].at = "decoding" PROVE DecoderOwns(d)'
  <2>1. DecoderOwns(d) /\ dpc'[d].slot = dpc[d].slot
    BY <1>1, <1>4, <1>7 DEF DecodersOwn
  <2>2. QED BY <1>2, <1>3, <1>4, <2>1 DEF DecoderOwns, ReaderDecodes
<1>8. QED BY <1>5, <1>6, <1>7 DEF ChdInv, ChdType, OneOwner, DecodersOwn

LEMMA DecodesItselfKeeps == ASSUME Ch!ChdAssumption, ChdInv, Ch!DecodesItself PROVE ChdInv'
<1>1. /\ SlotType /\ Ranked /\ PlanType /\ ThreadType /\ Indexed /\ SlotHeld
      /\ QueueOwns /\ DecodersOwn /\ ReaderOwns
  BY DEF ChdInv, ChdType, OneOwner
<1>2. /\ rd.at \in {"look", "submit"} /\ Ch!Take(rd.hunk)
      /\ bytes' = [bytes EXCEPT ![Ch!Oldest] = Torn]
      /\ rd' = [rd EXCEPT !.at = "decode", !.slot = Ch!Oldest]
      /\ UNCHANGED <<todo, plan, planAt, planSub, dpc>>
  BY DEF Ch!DecodesItself, Ch!Turn, Ch!SubmitDone
<1>3. rd.hunk \in Hunks
  BY <1>1 DEF ThreadType, ReaderPlace
<1>4. /\ Ch!Oldest \in Ch!Slots
      /\ slot[Ch!Oldest].state # "pending" /\ slot[Ch!Oldest].pins = 0
      /\ slot' \in [Ch!Slots -> SlotRecord]
      /\ slot'[Ch!Oldest] = [hunk |-> rd.hunk, state |-> "pending", pins |-> 1]
      /\ \A s \in Ch!Slots : s # Ch!Oldest => slot'[s] = slot[s]
      /\ where' \in [Hunks -> Ch!Slots \cup {NoSlot}]
      /\ Ranked' /\ Indexed'
  BY <1>1, <1>2, <1>3, SlotTaken
<1>5. rd' \in ReaderPlace /\ rd'.at = "decode" /\ rd'.slot = Ch!Oldest /\ rd'.hunk = rd.hunk
  BY <1>1, <1>2, <1>4 DEF ThreadType, ReaderPlace, Ch!ReaderPlaces
<1>6. SlotType' /\ PlanType' /\ ThreadType'
  BY <1>1, <1>2, <1>4, <1>5 DEF SlotType, PlanType, ThreadType
<1>7. SlotHeld'
  BY <1>1, <1>2, <1>4, <1>5 DEF SlotHeld, ReaderUses, SlotType
<1>8. QueueOwns' /\ DecodersOwn'
  BY <1>1, <1>2, <1>4, <1>5, OwnersStand DEF ReaderDecodes
<1>9. ReaderOwns'
  BY <1>4, <1>5 DEF ReaderOwns
<1>10. QED BY <1>4, <1>6, <1>7, <1>8, <1>9 DEF ChdInv, ChdType, OneOwner

\* A slot is taken for the decoders and goes to the queue's end.
LEMMA SubmitKeeps == ASSUME Ch!ChdAssumption, ChdInv, Ch!Submit PROVE ChdInv'
<1>1. /\ SlotType /\ Ranked /\ PlanType /\ ThreadType /\ Indexed /\ SlotHeld
      /\ QueueOwns /\ DecodersOwn /\ ReaderOwns
  BY DEF ChdInv, ChdType, OneOwner
<1>2. rd.at = "submit" /\ planSub' = planSub + 1 /\ planSub <= Len(plan)
      /\ UNCHANGED <<bytes, plan, planAt, rd>>
  BY DEF Ch!Submit, Ch!ToSubmit
<1>3. PlanType' /\ plan[planSub] \in Hunks
  BY <1>1, <1>2 DEF PlanType
<1>4. CASE Ch!Held(plan[planSub])
  <2>1. UNCHANGED <<slot, lru, where, todo, dpc>>
    BY <1>4 DEF Ch!Submit
  <2>2. QED BY <1>1, <1>2, <1>3, <2>1, ReaderStands DEF ThreadType
<1>5. CASE ~Ch!Held(plan[planSub])
  <2>1. Ch!Take(plan[planSub]) /\ todo' = Append(todo, Ch!Oldest) /\ Ch!WakesOne
    BY <1>5 DEF Ch!Submit
  <2>2. /\ Ch!Oldest \in Ch!Slots
        /\ slot[Ch!Oldest].state # "pending" /\ slot[Ch!Oldest].pins = 0
        /\ slot' \in [Ch!Slots -> SlotRecord]
        /\ slot'[Ch!Oldest] = [hunk |-> plan[planSub], state |-> "pending", pins |-> 1]
        /\ \A s \in Ch!Slots : s # Ch!Oldest => slot'[s] = slot[s]
        /\ where' \in [Hunks -> Ch!Slots \cup {NoSlot}]
        /\ Ranked' /\ Indexed'
    BY <1>1, <1>3, <2>1, SlotTaken
  <2>3. /\ dpc' \in [Decoders -> DecoderPlace]
        /\ \A d \in Decoders : dpc'[d].at = "decoding" =>
              dpc[d].at = "decoding" /\ dpc'[d].slot = dpc[d].slot
    <3>1. CASE UNCHANGED dpc
      BY <1>1, <3>1 DEF ThreadType
    <3>2. ASSUME NEW e \in Decoders, dpc' = [dpc EXCEPT ![e].at = "up"]
          PROVE  /\ dpc' \in [Decoders -> DecoderPlace]
                 /\ \A d \in Decoders : dpc'[d].at = "decoding" =>
                       dpc[d].at = "decoding" /\ dpc'[d].slot = dpc[d].slot
      BY <1>1, <3>2 DEF ThreadType, DecoderPlace
    <3>3. QED BY <2>1, <3>1, <3>2 DEF Ch!WakesOne, Ch!Sleepers
  <2>4. todo \in Seq(Ch!Slots) /\ \A i \in 1 .. Len(todo) : todo[i] \in Ch!Slots
    BY <1>1 DEF ThreadType
  <2>5. /\ todo' \in Seq(Ch!Slots) /\ Len(todo') = Len(todo) + 1
        /\ todo'[Len(todo) + 1] = Ch!Oldest
        /\ \A i \in 1 .. Len(todo) : todo'[i] = todo[i]
    BY <2>1, <2>2, <2>4
  <2>6. SlotType' /\ ThreadType'
    BY <1>1, <1>2, <2>2, <2>3, <2>5 DEF SlotType, ThreadType
  <2>7. SlotHeld'
    BY <1>1, <1>2, <2>2 DEF SlotHeld, ReaderUses
  <2>8. \A i \in 1 .. Len(todo) : todo[i] # Ch!Oldest /\ slot'[todo[i]].state = "pending"
    BY <1>1, <2>2, <2>4 DEF QueueOwns
  <2>9. \A s : ~ReaderDecodes(s)'
    BY <1>2 DEF ReaderDecodes
  <2>10. QueueOwns'
    <3>1. ASSUME NEW i \in 1 .. Len(todo') PROVE slot'[todo'[i]].state = "pending"
      BY <2>2, <2>4, <2>5, <2>8
    <3>2. ASSUME NEW i \in 1 .. Len(todo'), NEW j \in 1 .. Len(todo'),
                 todo'[i] = todo'[j]
          PROVE  i = j
      <4>1. Len(todo) \in Nat
        BY <2>4
      <4>2. CASE i \in 1 .. Len(todo) /\ j \in 1 .. Len(todo)
        BY <1>1, <2>5, <3>2, <4>2 DEF QueueOwns
      <4>3. CASE i \notin 1 .. Len(todo) \/ j \notin 1 .. Len(todo)
        BY <2>5, <2>8, <3>2, <4>1, <4>3
      <4>4. QED BY <4>2, <4>3
    <3>3. QED BY <2>9, <3>1, <3>2 DEF QueueOwns
  <2>11. ASSUME NEW d \in Decoders, dpc'[d].at = "decoding" PROVE DecoderOwns(d)'
    <3>1. DecoderOwns(d) /\ dpc'[d].slot = dpc[d].slot
      BY <1>1, <2>3, <2>11 DEF DecodersOwn
    <3>2. dpc[d].slot \in Ch!Slots /\ dpc[d].slot # Ch!Oldest /\ slot'[dpc[d].slot].state = "pending"
      BY <2>2, <3>1 DEF DecoderOwns
    <3>3. \A i \in 1 .. Len(todo') : todo'[i] # dpc'[d].slot
      BY <2>4, <2>5, <3>1, <3>2 DEF DecoderOwns
    <3>4. \A e \in Decoders :
             dpc'[e].at = "decoding" /\ dpc'[e].slot = dpc'[d].slot => d = e
      BY <2>3, <3>1 DEF DecoderOwns
    <3>5. QED BY <2>9, <3>1, <3>2, <3>3, <3>4 DEF DecoderOwns
  <2>12. ReaderOwns'
    BY <1>2 DEF ReaderOwns
  <2>13. QED
    BY <1>3, <2>2, <2>6, <2>7, <2>10, <2>11, <2>12
       DEF ChdInv, ChdType, OneOwner, DecodersOwn
<1>6. QED BY <1>4, <1>5

LEMMA BeginsKeeps ==
    ASSUME Ch!ChdAssumption, ChdInv, NEW d \in Decoders, Ch!Begins(d) PROVE ChdInv'
<1> DEFINE w == Head(todo)
<1>1. /\ SlotType /\ Ranked /\ PlanType /\ ThreadType /\ Indexed /\ SlotHeld
      /\ QueueOwns /\ DecodersOwn /\ ReaderOwns
  BY DEF ChdInv, ChdType, OneOwner
<1>2. /\ todo # <<>> /\ dpc[d].at = "up"
      /\ dpc' = [dpc EXCEPT ![d] = [at |-> "decoding", slot |-> w]]
      /\ todo' = Tail(todo) /\ bytes' = [bytes EXCEPT ![w] = Torn]
      /\ UNCHANGED <<slot, lru, where, plan, planAt, planSub, rd>>
  BY DEF Ch!Begins
<1>3. /\ Len(todo) \in Nat \ {0} /\ w = todo[1] /\ w \in Ch!Slots
      /\ todo' \in Seq(Ch!Slots) /\ Len(todo') = Len(todo) - 1
      /\ \A i \in 1 .. Len(todo') : i + 1 \in 1 .. Len(todo) /\ todo'[i] = todo[i + 1]
  BY <1>1, <1>2 DEF ThreadType
<1>4. slot[w].state = "pending" /\ ~ReaderDecodes(w)
      /\ \A i \in 1 .. Len(todo') : todo'[i] # w
  BY <1>1, <1>3 DEF QueueOwns
<1>5. /\ dpc' \in [Decoders -> DecoderPlace]
      /\ dpc'[d].at = "decoding" /\ dpc'[d].slot = w
      /\ \A e \in Decoders : e # d => dpc'[e] = dpc[e]
  BY <1>1, <1>2, <1>3 DEF ThreadType, DecoderPlace
<1>6. SlotType' /\ Ranked' /\ PlanType' /\ ThreadType' /\ Indexed'
  BY <1>1, <1>2, <1>3, <1>5 DEF SlotType, Ranked, PlanType, ThreadType, Indexed
<1>7. SlotHeld'
  BY <1>1, <1>2, <1>3, <1>4 DEF SlotHeld, ReaderUses, SlotType
<1>8. QueueOwns'
  BY <1>1, <1>2, <1>3 DEF QueueOwns, ReaderDecodes
<1>9. ReaderOwns'
  BY <1>1, <1>2 DEF ReaderOwns
<1>10. DecodersOwn'
  <2>1. ASSUME NEW e \in Decoders, e # d, dpc[e].at = "decoding"
        PROVE  DecoderOwns(e) /\ dpc[e].slot # w
    BY <1>1, <1>3, <2>1 DEF DecodersOwn, DecoderOwns
  <2>2. DecoderOwns(d)'
    BY <1>2, <1>3, <1>4, <1>5, <2>1 DEF DecoderOwns, ReaderDecodes
  <2>3. ASSUME NEW e \in Decoders, e # d, dpc[e].at = "decoding"
        PROVE  DecoderOwns(e)'
    BY <1>2, <1>3, <1>5, <2>1, <2>3 DEF DecoderOwns, ReaderDecodes
  <2>4. QED BY <1>5, <2>2, <2>3 DEF DecodersOwn
<1>11. QED BY <1>6, <1>7, <1>8, <1>9, <1>10 DEF ChdInv, ChdType, OneOwner

LEMMA FinishesKeeps ==
    ASSUME Ch!ChdAssumption, ChdInv, NEW d \in Decoders, Ch!Finishes(d) PROVE ChdInv'
<1> DEFINE w == dpc[d].slot
<1>1. /\ SlotType /\ Ranked /\ PlanType /\ ThreadType /\ Indexed /\ SlotHeld
      /\ QueueOwns /\ DecodersOwn /\ ReaderOwns
  BY DEF ChdInv, ChdType, OneOwner
<1>2. /\ dpc[d].at = "decoding" /\ rd.at # "submit"
      /\ bytes' = [bytes EXCEPT ![w] = slot[w].hunk]
      /\ slot' = [slot EXCEPT ![w].state = Ch!Outcome(w), ![w].pins = @ - 1]
      /\ rd' = IF rd.at = "asleep" THEN [rd EXCEPT !.at = "look"] ELSE rd
      /\ dpc' = [dpc EXCEPT ![d] = [at |-> "up", slot |-> NoSlot]]
      /\ UNCHANGED <<lru, where, todo, plan, planAt, planSub>>
  BY DEF Ch!Finishes, Ch!Wakes, Ch!LockFree
<1>3. DecoderOwns(d) /\ w \in Ch!Slots
  BY <1>1, <1>2 DEF DecodersOwn, DecoderOwns
<1>4. /\ slot[w].state = "pending" /\ slot[w].pins = 1 /\ slot[w] \in SlotRecord
      /\ Ch!Outcome(w) \in {"ready", "failed"}
  BY <1>1, <1>3 DEF DecoderOwns, SlotHeld, SlotType, Ch!Outcome
<1>5. /\ slot'[w].hunk = slot[w].hunk /\ slot'[w].state = Ch!Outcome(w)
      /\ slot'[w].pins = 0
  BY <1>1, <1>2, <1>3, <1>4 DEF SlotType, SlotRecord
<1>6. /\ slot' \in [Ch!Slots -> SlotRecord]
      /\ \A s \in Ch!Slots : s # w => slot'[s] = slot[s]
  BY <1>1, <1>2, <1>3, <1>4 DEF SlotType, SlotRecord
<1>7. /\ rd' \in ReaderPlace /\ rd'.slot = rd.slot /\ rd'.hunk = rd.hunk
      /\ rd.at \in {"decode", "using"} <=> rd'.at \in {"decode", "using"}
      /\ rd.at \in {"decode", "using"} => rd' = rd
  BY <1>1, <1>2 DEF ThreadType, ReaderPlace, Ch!ReaderPlaces
<1>8. /\ dpc' \in [Decoders -> DecoderPlace] /\ dpc'[d].at = "up"
      /\ \A e \in Decoders : e # d => dpc'[e] = dpc[e]
  BY <1>1, <1>2 DEF ThreadType, DecoderPlace
<1>9. rd.at \in {"decode", "using"} => rd.slot # w
  BY <1>1, <1>3, <1>4 DEF ReaderOwns, DecoderOwns, ReaderDecodes
<1>10. SlotType' /\ Ranked' /\ PlanType' /\ ThreadType'
  <2>1. slot[w].hunk \in Hunks \cup {Torn}
    BY <1>4 DEF SlotRecord
  <2>2. QED
    BY <1>1, <1>2, <1>3, <1>5, <1>6, <1>7, <1>8, <2>1
       DEF SlotType, Ranked, PlanType, ThreadType
<1>11. Indexed'
  BY <1>1, <1>2, <1>3, <1>5, <1>6 DEF Indexed, SlotType
<1>12. SlotHeld'
  BY <1>1, <1>2, <1>3, <1>4, <1>5, <1>6, <1>7, <1>9 DEF SlotHeld, ReaderUses, SlotType
<1>13. QueueOwns'
  <2>1. \A i \in 1 .. Len(todo) : todo[i] \in Ch!Slots /\ todo[i] # w
    BY <1>1, <1>3 DEF ThreadType, DecoderOwns
  <2>2. \A s \in Ch!Slots : ReaderDecodes(s)' => ReaderDecodes(s)
    BY <1>7 DEF ReaderDecodes
  <2>3. QED BY <1>1, <1>2, <1>5, <1>6, <2>1, <2>2 DEF QueueOwns
<1>14. DecodersOwn'
  <2>1. ASSUME NEW e \in Decoders, e # d, dpc[e].at = "decoding"
        PROVE  DecoderOwns(e)'
    <3>1. DecoderOwns(e) /\ dpc[e].slot # w
      BY <1>1, <1>3, <2>1 DEF DecodersOwn, DecoderOwns
    <3>2. slot'[dpc[e].slot].state = "pending"
      BY <1>5, <1>6, <3>1 DEF DecoderOwns
    <3>3. ~ReaderDecodes(dpc[e].slot)'
      BY <1>7, <1>8, <2>1, <3>1 DEF DecoderOwns, ReaderDecodes
    <3>4. QED BY <1>2, <1>8, <2>1, <3>1, <3>2, <3>3 DEF DecoderOwns
  <2>2. QED BY <1>8, <2>1 DEF DecodersOwn
<1>15. ReaderOwns'
  BY <1>1, <1>5, <1>6, <1>7, <1>9 DEF ReaderOwns
<1>16. QED
  BY <1>10, <1>11, <1>12, <1>13, <1>14, <1>15 DEF ChdInv, ChdType, OneOwner

LEMMA RestsKeeps ==
    ASSUME Ch!ChdAssumption, ChdInv, NEW d \in Decoders, Ch!Rests(d) PROVE ChdInv'
<1>1. /\ SlotType /\ Ranked /\ PlanType /\ ThreadType /\ Indexed /\ SlotHeld
      /\ QueueOwns /\ DecodersOwn /\ ReaderOwns
  BY DEF ChdInv, ChdType, OneOwner
<1>2. /\ \E place \in {"ended", "asleep"} : dpc' = [dpc EXCEPT ![d].at = place]
      /\ UNCHANGED <<slot, bytes, lru, where, todo, plan, planAt, planSub, rd>>
  BY DEF Ch!Rests
<1>3. /\ dpc' \in [Decoders -> DecoderPlace]
      /\ \A e \in Decoders : dpc'[e].at = "decoding" =>
            dpc[e].at = "decoding" /\ dpc'[e].slot = dpc[e].slot
  BY <1>1, <1>2 DEF ThreadType, DecoderPlace
<1>4. SlotType' /\ Ranked' /\ PlanType' /\ ThreadType' /\ Indexed'
  BY <1>1, <1>2, <1>3 DEF SlotType, Ranked, PlanType, ThreadType, Indexed
<1>5. SlotHeld' /\ ReaderOwns' /\ QueueOwns'
  BY <1>1, <1>2 DEF SlotHeld, ReaderUses, ReaderOwns, QueueOwns, ReaderDecodes
<1>6. ASSUME NEW e \in Decoders, dpc'[e].at = "decoding" PROVE DecoderOwns(e)'
  <2>1. DecoderOwns(e) /\ dpc'[e].slot = dpc[e].slot
    BY <1>1, <1>3, <1>6 DEF DecodersOwn
  <2>2. QED BY <1>2, <1>3, <2>1 DEF DecoderOwns, ReaderDecodes
<1>7. QED BY <1>4, <1>5, <1>6 DEF ChdInv, ChdType, OneOwner, DecodersOwn

LEMMA ChdStep == ASSUME Ch!ChdAssumption, ChdInv, [Ch!Next]_cache PROVE ChdInv'
<1>1. CASE UNCHANGED cache
  <2>1. UNCHANGED <<slot, bytes, lru, where, todo, plan, planAt, planSub, dpc, rd>>
    BY <1>1 DEF cache
  <2>2. ChdType' /\ Indexed' /\ SlotHeld'
    BY <2>1 DEF ChdInv, ChdType, SlotType, Ranked, PlanType, ThreadType, Indexed,
                SlotHeld, ReaderUses
  <2>3. OneOwner'
    BY <2>1 DEF ChdInv, OneOwner, QueueOwns, DecodersOwn, DecoderOwns, ReaderOwns,
                ReaderDecodes
  <2>4. QED BY <2>2, <2>3 DEF ChdInv
<1>2. CASE Ch!Reading \/ Ch!Put \/ Ch!Close
  BY <1>2, SubmitKeeps, FoundKeeps, ReaderKeeps, DecodesItselfKeeps,
     DecodedKeeps, PutKeepsCache, CloseKeeps DEF Ch!Reading
<1>3. CASE (\E p \in Plans : Ch!Plan(p)) \/ (\E h \in Hunks : Ch!Get(h))
  BY <1>3, ReaderKeeps
<1>4. ASSUME NEW d \in Decoders, Ch!DecoderStep(d) PROVE ChdInv'
  BY <1>4, RestsKeeps, BeginsKeeps, FinishesKeeps DEF Ch!DecoderStep
<1>5. QED BY <1>1, <1>2, <1>3, <1>4 DEF Ch!Next

LEMMA RightSlot == ChdInv => Ch!RightHunk
BY DEF ChdInv, OneOwner, ReaderOwns, SlotHeld, Ch!RightHunk

\* However the decodings, the reads and the plan of the reads ahead interleave,
\* what a read returns is its hunk, or an error (chd_read_hunk, decode_worker).
THEOREM ReadSafety == HostSpec => []RightHunk
<1>1. HostInit => ChdInv
  BY HostAssumption, ChdInit DEF HostInit
<1>2. ChdInv /\ [HostNext]_hostVars => ChdInv'
  BY HostAssumption, FileSteps, ChdStep
<1>3. ChdInv => RightHunk
  BY RightSlot DEF RightHunk
<1>4. QED BY <1>1, <1>2, <1>3, PTL DEF HostSpec

-----------------------------------------------------------------------------
(* The importer. *)

OneFault == Im!ImportAssumption /\ MaxFaults <= 1

\* What the user's folders hold in d is whole.
Intact(d) == \A i \in had : d[i] \in {"game", "new"}
Swapped(i) == dest[i] = "new" /\ old[i] = found[i]

Folder == {"none", "game", "new"}
HeldType == dest \in [Im!Ks -> Folder] /\ found \in [Im!Ks -> Folder] /\ had \subseteq Im!Ks
AsideType == part \in [Im!Ks -> Im!Contents] /\ old \in [Im!Ks -> Im!Contents]
FaultType == faults \in {0, 1}
AtType == ipc \in Im!ImportPlaces /\ k \in 0 .. Folders
FromOne == ipc # "unwind" => k # 0
PlaceType == HeldType /\ AsideType /\ FaultType /\ AtType /\ FromOne

\* Between two swaps every folder is whole where it is, or behind its old name.
Resting ==
    /\ ipc \in {"create", "write", "verify", "drop", "clean"} => dest = found
    /\ ipc \in {"idle", "create", "write", "verify", "clean"} =>
          \A i \in had : dest[i] \in {"game", "new"} \/ old[i] \in {"game", "new"}
    /\ ipc = "idle" /\ whole => Im!AllOrNone

\* Until a fault nothing old is left over and what was found is whole.
Faultless ==
    faults = 0 =>
        /\ Intact(found)
        /\ ipc \in {"idle", "create", "write", "verify", "drop", "clean"} =>
              \A i \in Im!Ks : old[i] = "none"
        /\ ipc = "retire" => \A i \in 1 .. k - 1 : old[i] = "none"

\* An old folder that could not be removed is the one fault, of this attempt.
OneTorn(S) ==
    \A i \in S : old[i] = "torn" =>
        /\ faults = 1 /\ Intact(found)
        /\ \A j \in S : old[j] = "torn" => i = j

Dropping ==
    ipc = "drop" =>
        /\ \A i \in Im!Ks : part[i] = "new"
        /\ \A i \in 1 .. k - 1 : old[i] \in {"none", "torn"}
        /\ OneTorn(1 .. k - 1)

\* Folders below k are swapped, those above it still to be.
Swapping ==
    ipc \in {"out", "in"} =>
        /\ OneTorn(Im!Ks)
        /\ \A i \in 1 .. k - 1 :
              /\ dest[i] = "new"
              /\ old[i] = found[i] \/ (found[i] = "none" /\ old[i] = "torn")
        /\ \A i \in k .. Folders : part[i] = "new"
        /\ \A i \in k + 1 .. Folders : dest[i] = found[i] /\ old[i] \in {"none", "torn"}
        /\ ipc = "out" => dest[k] = found[k] /\ old[k] \in {"none", "torn"}
        /\ ipc = "in" =>
              /\ dest[k] = "none"
              /\ old[k] = found[k] \/ (found[k] = "none" /\ old[k] = "torn")

\* Folders up to k are swapped, those above it as they were.
Unwinding ==
    ipc \in {"unwind", "back"} =>
        /\ faults = 1 /\ Intact(found)
        /\ \A i \in 1 .. k - 1 : Swapped(i)
        /\ \A i \in k + 1 .. Folders : dest[i] = found[i]
        /\ ipc = "unwind" /\ k > 0 => Swapped(k)
        /\ ipc = "back" => dest[k] = "none" /\ old[k] = found[k]

Finishing == ipc = "retire" => \A i \in Im!Ks : dest[i] = "new"

ImpInv ==
    /\ PlaceType /\ Resting /\ Faultless /\ Dropping /\ Swapping /\ Unwinding
    /\ Finishing

LEMMA ImportInit == ASSUME OneFault, Im!Init PROVE ImpInv
<1>1. 1 \in 0 .. Folders
  BY DEF OneFault, Im!ImportAssumption
<1>2. HeldType
  <2>1. dest \in [Im!Ks -> {"none", "game"}] /\ {"none", "game"} \subseteq Folder
    BY DEF Im!Init, Folder
  <2>2. dest \in [Im!Ks -> Folder]
    BY <2>1
  <2>3. QED BY <2>2 DEF Im!Init, HeldType
<1>3. AsideType
  <2>1. "none" \in Im!Contents
    BY DEF Im!Contents
  <2>2. QED BY <2>1 DEF Im!Init, AsideType
<1>4. FaultType /\ AtType /\ FromOne
  BY <1>1 DEF Im!Init, FaultType, AtType, FromOne, Im!ImportPlaces
<1>5. Resting /\ Faultless
  BY DEF Im!Init, Resting, Faultless, Im!AllOrNone, Intact, Im!Ks
<1>6. QED
  BY <1>2, <1>3, <1>4, <1>5
     DEF Im!Init, ImpInv, PlaceType, Dropping, Swapping, Unwinding, Finishing

\* What the parts of the invariant say of the numbers and the kinds of content.
LEMMA ImportFacts ==
    ASSUME OneFault, ImpInv
    PROVE  /\ Folders \in Nat \ {0} /\ k \in Int /\ faults \in {0, 1}
           /\ HeldType /\ AsideType /\ FaultType /\ AtType
           /\ ipc # "unwind" => k \in 1 .. Folders /\ k \in Im!Ks
           /\ Im!Fault => faults = 0 /\ faults' = 1
           /\ \A i \in 1 .. Folders : i \in Im!Ks
           /\ \A i \in Im!Ks : i \in 1 .. Folders /\ i \in Int
<1>1. /\ Folders \in Nat \ {0} /\ MaxFaults \in Nat /\ MaxFaults <= 1
      /\ HeldType /\ AsideType /\ FaultType /\ AtType /\ FromOne
  BY DEF OneFault, Im!ImportAssumption, ImpInv, PlaceType
<1>2. k \in 0 .. Folders /\ faults \in {0, 1}
  BY <1>1 DEF AtType, FaultType
<1>3. Im!Fault => faults = 0 /\ faults' = 1
  BY <1>1, <1>2 DEF Im!Fault
<1>4. ipc # "unwind" => k \in 1 .. Folders
  BY <1>1, <1>2 DEF FromOne
<1>5. QED BY <1>1, <1>2, <1>3, <1>4 DEF Im!Ks

LEMMA ImportInts ==
    ASSUME OneFault, ImpInv
    PROVE  /\ Folders \in Nat \ {0} /\ k \in Int /\ k \in 0 .. Folders
           /\ ipc # "unwind" => k \in 1 .. Folders
  BY ImportFacts DEF AtType

LEMMA SetAside ==
    ASSUME NEW f \in [Im!Ks -> Im!Contents], NEW j \in Im!Ks, NEW v \in Im!Contents
    PROVE  /\ [f EXCEPT ![j] = v] \in [Im!Ks -> Im!Contents]
           /\ [f EXCEPT ![j] = v][j] = v
           /\ \A i \in Im!Ks : i # j => [f EXCEPT ![j] = v][i] = f[i]
  OBVIOUS

LEMMA SetFolder ==
    ASSUME NEW f \in [Im!Ks -> Folder], NEW j \in Im!Ks, NEW v \in Folder
    PROVE  /\ [f EXCEPT ![j] = v] \in [Im!Ks -> Folder]
           /\ [f EXCEPT ![j] = v][j] = v
           /\ \A i \in Im!Ks : i # j => [f EXCEPT ![j] = v][i] = f[i]
  OBVIOUS

LEMMA Kinds ==
    /\ "none" \in Im!Contents /\ "torn" \in Im!Contents /\ "new" \in Im!Contents
    /\ "none" \in Folder /\ "new" \in Folder /\ Folder \subseteq Im!Contents
    /\ "torn" \notin Folder
  BY DEF Folder, Im!Contents

\* The places of an attempt.
LEMMA PlaceStep ==
    ASSUME NEW p \in Im!ImportPlaces, p # "unwind", NEW i \in 1 .. Folders,
           Folders \in Nat, Im!Goto(p, i)
    PROVE  AtType' /\ FromOne'
  BY DEF Im!Goto, AtType, FromOne

\* The copies beside the folders: no folder the game is in changes.
LEMMA WritingKeeps ==
    ASSUME OneFault, ImpInv, Im!Begin \/ Im!Create \/ Im!Write \/ Im!Verify PROVE ImpInv'
<1>0. /\ Folders \in Nat \ {0} /\ k \in Int /\ k \in 0 .. Folders
      /\ ipc # "unwind" => k \in 1 .. Folders
  BY ImportInts
<1>1. /\ Folders \in Nat \ {0} /\ 1 \in 1 .. Folders /\ faults \in {0, 1}
      /\ HeldType /\ AsideType /\ FaultType
      /\ ipc # "unwind" => k \in 1 .. Folders /\ k \in Im!Ks
      /\ Im!Fault => faults = 0 /\ faults' = 1
  BY ImportFacts
<1>2. Resting /\ Faultless
  BY DEF ImpInv
<1>3. CASE Im!Begin
  <2>1. /\ ipc = "idle" /\ found' = dest /\ whole' = TRUE /\ Im!Goto("create", 1)
        /\ ipc' = "create" /\ UNCHANGED <<dest, part, old, had, faults>>
    BY <1>3 DEF Im!Begin, Im!Goto
  <2>2. AtType' /\ FromOne'
    BY <1>1, <2>1, PlaceStep DEF Im!ImportPlaces
  <2>3. PlaceType'
    BY <1>1, <2>1, <2>2 DEF PlaceType, HeldType, AsideType, FaultType
  <2>4. Resting'
    BY <1>2, <2>1 DEF Resting
  <2>5. faults = 0 => Intact(found)'
    <3>1. SUFFICES ASSUME faults = 0, NEW i \in had
                   PROVE  dest[i] \in {"game", "new"}
      BY <2>1 DEF Intact
    <3>2. old[i] = "none"
      BY <1>1, <1>2, <2>1, <3>1 DEF Faultless, HeldType
    <3>3. QED BY <1>2, <2>1, <3>1, <3>2 DEF Resting
  <2>6. Faultless'
    BY <1>2, <2>1, <2>5 DEF Faultless
  <2>7. QED
    BY <2>1, <2>3, <2>4, <2>6 DEF ImpInv, Dropping, Swapping, Unwinding, Finishing
<1>4. CASE Im!Create \/ Im!Write
  <2>1. /\ ipc \in {"create", "write"} /\ UNCHANGED <<dest, old, found, had, whole>>
        /\ k \in 1 .. Folders /\ k \in Im!Ks
    BY <1>1, <1>4 DEF Im!Create, Im!Write, Im!Same
  <2>2. PICK p \in {"create", "write", "verify", "clean"}, i \in 1 .. Folders : Im!Goto(p, i)
    BY <1>1, <1>4, <2>1 DEF Im!Create, Im!Write, Im!After
  <2>3. AtType' /\ FromOne' /\ ipc' = p
    BY <1>1, <2>2, PlaceStep DEF Im!ImportPlaces, Im!Goto
  <2>4. AsideType'
    BY <1>1, <1>4, <2>1, SetAside, Kinds DEF Im!Create, Im!Write, AsideType
  <2>5. faults' \in {0, 1} /\ (faults' = 0 => faults = 0)
    BY <1>1, <1>4 DEF Im!Create, Im!Write
  <2>6. PlaceType'
    BY <1>1, <2>1, <2>3, <2>4, <2>5 DEF PlaceType, HeldType, FaultType
  <2>7. Resting' /\ Faultless'
    BY <1>2, <2>1, <2>2, <2>3, <2>5 DEF Resting, Faultless, Intact
  <2>8. QED
    BY <2>2, <2>3, <2>6, <2>7 DEF ImpInv, Dropping, Swapping, Unwinding, Finishing
<1>5. CASE Im!Verify
  <2>1. /\ ipc = "verify" /\ UNCHANGED <<dest, part, old, faults, found, had, whole>>
        /\ k' = 1 /\ ipc' \in {"drop", "clean"}
        /\ ipc' = "drop" => \A i \in Im!Ks : part[i] = "new"
    BY <1>5 DEF Im!Verify, Im!Goto, Im!Same
  <2>2. AtType' /\ FromOne'
    <3>1. k' = 1 /\ ipc' \in {"drop", "clean"}
      BY <2>1
    <3>2. QED BY <3>1, <1>0 DEF AtType, FromOne, Im!ImportPlaces
  <2>3. PlaceType'
    BY <1>1, <2>1, <2>2 DEF PlaceType, HeldType, AsideType, FaultType
  <2>4. Resting' /\ Faultless'
    BY <1>2, <2>1 DEF Resting, Faultless, Intact
  <2>5. Dropping'
    BY <2>1 DEF Dropping, OneTorn
  <2>6. QED
    BY <2>1, <2>3, <2>4, <2>5 DEF ImpInv, Swapping, Unwinding, Finishing
<1>6. QED BY <1>3, <1>4, <1>5

\* What both removals of an old folder do.
LEMMA DropOldStep ==
    ASSUME OneFault, ImpInv, NEW here \in Im!ImportPlaces, here # "unwind",
           NEW next \in Im!ImportPlaces, next # "unwind", Im!DropOld(here, next)
    PROVE  /\ ipc = here /\ k \in 1 .. Folders /\ k \in Im!Ks
           /\ UNCHANGED <<dest, part, found, had, whole>>
           /\ ipc' = IF k < Folders THEN here ELSE next
           /\ k' = IF k < Folders THEN k + 1 ELSE 1
           /\ \A i \in Im!Ks : i # k => old'[i] = old[i]
           /\ \/ old'[k] = "none" /\ faults' = faults
              \/ old'[k] = "torn" /\ faults = 0 /\ faults' = 1
           /\ PlaceType'
<1>1. /\ Folders \in Nat \ {0} /\ faults \in {0, 1}
      /\ HeldType /\ AsideType /\ FaultType
      /\ ipc # "unwind" => k \in 1 .. Folders /\ k \in Im!Ks
      /\ Im!Fault => faults = 0 /\ faults' = 1
  BY ImportFacts
<1>2. /\ ipc = here /\ k \in 1 .. Folders /\ k \in Im!Ks
      /\ UNCHANGED <<dest, part, found, had, whole>> /\ Im!After(here, next)
  BY <1>1 DEF Im!DropOld, Im!Same
<1>3. \/ old' = [old EXCEPT ![k] = "none"] /\ faults' = faults
      \/ old' = [old EXCEPT ![k] = "torn"] /\ faults = 0 /\ faults' = 1
  BY <1>1 DEF Im!DropOld
<1>4. /\ old' \in [Im!Ks -> Im!Contents]
      /\ \A i \in Im!Ks : i # k => old'[i] = old[i]
      /\ \/ old'[k] = "none" /\ faults' = faults
         \/ old'[k] = "torn" /\ faults = 0 /\ faults' = 1
  <2>1. old \in [Im!Ks -> Im!Contents] /\ k \in Im!Ks
    BY <1>1, <1>2 DEF AsideType
  <2>2. CASE old' = [old EXCEPT ![k] = "none"] /\ faults' = faults
    BY <2>1, <2>2, SetAside, Kinds
  <2>3. CASE old' = [old EXCEPT ![k] = "torn"] /\ faults = 0 /\ faults' = 1
    BY <2>1, <2>3, SetAside, Kinds
  <2>4. QED BY <1>3, <2>2, <2>3
<1>5. /\ ipc' = IF k < Folders THEN here ELSE next
      /\ k' = IF k < Folders THEN k + 1 ELSE 1
  BY <1>2 DEF Im!After, Im!Goto
<1>6. AtType' /\ FromOne'
  BY <1>1, <1>2, <1>5 DEF AtType, FromOne
<1>7. PlaceType'
  BY <1>1, <1>2, <1>4, <1>6 DEF PlaceType, HeldType, AsideType, FaultType
<1>8. QED BY <1>2, <1>4, <1>5, <1>7

\* The removals of what an earlier attempt, and then this one, put aside.
LEMMA DropKeeps == ASSUME OneFault, ImpInv, Im!DropOld("drop", "out") PROVE ImpInv'
<1>0. /\ Folders \in Nat \ {0} /\ k \in Int /\ k \in 0 .. Folders
      /\ ipc # "unwind" => k \in 1 .. Folders
  BY ImportInts
<1>1. /\ ipc = "drop" /\ k \in 1 .. Folders /\ k \in Im!Ks
      /\ UNCHANGED <<dest, part, found, had, whole>>
      /\ ipc' = IF k < Folders THEN "drop" ELSE "out"
      /\ k' = IF k < Folders THEN k + 1 ELSE 1
      /\ \A i \in Im!Ks : i # k => old'[i] = old[i]
      /\ \/ old'[k] = "none" /\ faults' = faults
         \/ old'[k] = "torn" /\ faults = 0 /\ faults' = 1
      /\ PlaceType'
  BY DropOldStep DEF Im!ImportPlaces
<1>2. /\ Folders \in Nat \ {0} /\ \A i \in 1 .. Folders : i \in Im!Ks
      /\ \A i \in Im!Ks : i \in 1 .. Folders
  BY ImportFacts
<1>3. Resting /\ Faultless /\ Dropping
  BY DEF ImpInv
<1>4. /\ dest = found /\ \A i \in Im!Ks : part[i] = "new"
      /\ faults = 0 => Intact(found) /\ \A i \in Im!Ks : old[i] = "none"
      /\ \A i \in 1 .. k - 1 : old[i] \in {"none", "torn"}
      /\ OneTorn(1 .. k - 1)
  BY <1>1, <1>3 DEF Resting, Faultless, Dropping
<1>5. Intact(found)' <=> Intact(found)
  BY <1>1 DEF Intact
<1>6. \A i \in 1 .. k : i \in Im!Ks /\ (i = k \/ (i # k /\ i \in 1 .. k - 1))
  BY <1>1, <1>2
<1>7. \A i \in 1 .. k : old'[i] \in {"none", "torn"}
  BY <1>1, <1>4, <1>6
<1>8. ASSUME NEW S, S = 1 .. k PROVE OneTorn(S)'
  <2>1. CASE old'[k] = "none" /\ faults' = faults
    <3>1. \A i \in S : old'[i] = "torn" => i \in 1 .. k - 1 /\ old[i] = "torn"
      BY <1>1, <1>6, <1>8, <2>1
    <3>2. QED BY <1>4, <1>5, <2>1, <3>1 DEF OneTorn, Intact
  <2>2. CASE old'[k] = "torn" /\ faults = 0 /\ faults' = 1
    <3>1. \A i \in S : old'[i] = "torn" => i = k
      BY <1>1, <1>4, <1>6, <1>8, <2>2
    <3>2. QED BY <1>4, <1>5, <2>2, <3>1 DEF OneTorn, Intact
  <2>3. QED BY <1>1, <2>1, <2>2
<1>9. Faultless'
  <2>1. ipc' \in {"drop", "out"}
    BY <1>1
  <2>2. faults' = 0 => faults = 0 /\ \A i \in Im!Ks : old'[i] = "none"
    BY <1>1, <1>4
  <2>3. QED BY <1>4, <1>5, <2>1, <2>2 DEF Faultless
<1>10. Resting'
  BY <1>1, <1>4 DEF Resting
<1>11. CASE k < Folders
  <2>1. ipc' = "drop" /\ k' - 1 = k
    BY <1>1, <1>11
  <2>2. Dropping'
    <3>1. \A i \in Im!Ks : part'[i] = "new"
      BY <1>1, <1>4
    <3>2. OneTorn(1 .. k - 1)'
      <4>1. PICK S : S = 1 .. k /\ OneTorn(S)'
        BY <1>8
      <4>2. QED BY <2>1, <4>1
    <3>3. QED BY <1>7, <2>1, <3>1, <3>2 DEF Dropping
  <2>3. QED
    BY <1>1, <1>9, <1>10, <2>1, <2>2 DEF ImpInv, Swapping, Unwinding, Finishing
<1>12. CASE k = Folders
  <2>1. ipc' = "out" /\ k' = 1 /\ 1 .. k = Im!Ks
    BY <1>1, <1>12 DEF Im!Ks
  <2>2. OneTorn(Im!Ks)'
    BY <1>8, <2>1
  <2>3. /\ \A i \in Im!Ks : old'[i] \in {"none", "torn"}
        /\ \A i \in Im!Ks : part'[i] = "new" /\ dest'[i] = found'[i]
    BY <1>1, <1>4, <1>7, <2>1
  <2>4. 1 \in Im!Ks /\ \A i \in 1 .. k' - 1 : FALSE
    BY <1>2, <2>1
  <2>5. (\A i \in k' .. Folders : i \in Im!Ks) /\ (\A i \in k' + 1 .. Folders : i \in Im!Ks)
    BY <1>2, <2>1
  <2>6. Swapping'
    BY <2>1, <2>2, <2>3, <2>4, <2>5 DEF Swapping
  <2>7. QED
    BY <1>1, <1>9, <1>10, <2>1, <2>6 DEF ImpInv, Dropping, Unwinding, Finishing
<1>13. QED BY <1>1, <1>2, <1>11, <1>12

LEMMA DropLastKeeps ==
    ASSUME OneFault, ImpInv, Im!DropOld("retire", "idle") PROVE ImpInv'
<1>0. /\ Folders \in Nat \ {0} /\ k \in Int /\ k \in 0 .. Folders
      /\ ipc # "unwind" => k \in 1 .. Folders
  BY ImportInts
<1>1. /\ ipc = "retire" /\ k \in 1 .. Folders /\ k \in Im!Ks
      /\ UNCHANGED <<dest, part, found, had, whole>>
      /\ ipc' = IF k < Folders THEN "retire" ELSE "idle"
      /\ k' = IF k < Folders THEN k + 1 ELSE 1
      /\ \A i \in Im!Ks : i # k => old'[i] = old[i]
      /\ \/ old'[k] = "none" /\ faults' = faults
         \/ old'[k] = "torn" /\ faults = 0 /\ faults' = 1
      /\ PlaceType'
  BY DropOldStep DEF Im!ImportPlaces
<1>2. /\ Folders \in Nat \ {0} /\ HeldType /\ \A i \in 1 .. Folders : i \in Im!Ks
      /\ \A i \in Im!Ks : i \in 1 .. Folders
  BY ImportFacts
<1>3. Faultless /\ \A i \in Im!Ks : dest[i] = "new"
  BY <1>1 DEF ImpInv, Finishing
<1>4. Resting'
  <2>1. Im!AllOrNone'
    BY <1>1, <1>3 DEF Im!AllOrNone
  <2>2. \A i \in had' : dest'[i] \in {"game", "new"}
    BY <1>1, <1>2, <1>3, ImportFacts DEF HeldType
  <2>3. QED BY <1>1, <2>1, <2>2 DEF Resting
<1>5. Finishing'
  BY <1>1, <1>3 DEF Finishing
<1>6. faults' = 0 => Intact(found)' /\ \A i \in 1 .. k : old'[i] = "none"
  <2>1. SUFFICES ASSUME faults' = 0
                 PROVE  Intact(found)' /\ \A i \in 1 .. k : old'[i] = "none"
    OBVIOUS
  <2>2. faults = 0 /\ old'[k] = "none"
    <3>1. old'[k] = "none" \/ faults' = 1
      BY <1>1
    <3>2. faults' = faults \/ faults' = 1
      BY <1>1
    <3>3. QED BY <2>1, <3>1, <3>2
  <2>3. Intact(found) /\ \A i \in 1 .. k - 1 : old[i] = "none"
    BY <1>1, <1>3, <2>2 DEF Faultless
  <2>4. \A i \in 1 .. k : i \in Im!Ks /\ (i = k \/ (i # k /\ i \in 1 .. k - 1))
    BY <1>1, <1>0 DEF Im!Ks
  <2>5. QED BY <1>1, <2>2, <2>3, <2>4 DEF Intact
<1>7. Faultless'
  <2>1. CASE k < Folders
    <3>1. ipc' = "retire" /\ k' = k + 1
      BY <1>1, <2>1
    <3>2. k' - 1 = k
      BY <3>1, <1>0
    <3>3. QED BY <1>6, <3>1, <3>2 DEF Faultless
  <2>2. CASE k = Folders
    <3>1. ipc' = "idle"
      BY <1>1, <2>2, <1>0
    <3>2. 1 .. k = Im!Ks
      BY <2>2 DEF Im!Ks
    <3>3. QED BY <1>6, <3>1, <3>2 DEF Faultless
  <2>3. QED BY <1>1, <1>2, <2>1, <2>2
<1>8. ipc' \in {"retire", "idle"}
  BY <1>1
<1>9. QED
  BY <1>1, <1>4, <1>5, <1>7, <1>8 DEF ImpInv, Dropping, Swapping, Unwinding

\* The two renames of the swap.
LEMMA OutKeeps == ASSUME OneFault, ImpInv, Im!Out PROVE ImpInv'
<1>0. /\ Folders \in Nat \ {0} /\ k \in Int /\ k \in 0 .. Folders
      /\ ipc # "unwind" => k \in 1 .. Folders
  BY ImportInts
<1>1. /\ Folders \in Nat \ {0} /\ faults \in {0, 1}
      /\ HeldType /\ AsideType /\ FaultType /\ AtType
      /\ ipc # "unwind" => k \in 1 .. Folders /\ k \in Im!Ks
      /\ Im!Fault => faults = 0 /\ faults' = 1
      /\ \A i \in 1 .. Folders : i \in Im!Ks
      /\ \A i \in Im!Ks : i \in 1 .. Folders /\ i \in Int
  BY ImportFacts
<1>2. /\ ipc = "out" /\ k \in 1 .. Folders /\ k \in Im!Ks
      /\ UNCHANGED <<part, found, had, whole>>
  BY <1>1 DEF Im!Out, Im!Same
<1>3. /\ OneTorn(Im!Ks)
      /\ \A i \in 1 .. k - 1 :
            /\ dest[i] = "new"
            /\ old[i] = found[i] \/ (found[i] = "none" /\ old[i] = "torn")
      /\ \A i \in k .. Folders : part[i] = "new"
      /\ \A i \in k + 1 .. Folders : dest[i] = found[i] /\ old[i] \in {"none", "torn"}
      /\ dest[k] = found[k] /\ old[k] \in {"none", "torn"}
  BY <1>2 DEF ImpInv, Swapping
<1>4. Faultless
  BY DEF ImpInv
<1>5. \A i \in 1 .. k - 1 : i \in Im!Ks /\ i # k
  BY <1>1, <1>2
<1>6. \A i \in k + 1 .. Folders : i \in Im!Ks /\ i # k
  BY <1>1, <1>2
<1>7. Intact(found)' <=> Intact(found)
  BY <1>2 DEF Intact
<1>8. faults' = 0 => faults = 0
  BY <1>1 DEF Im!Out
<1>9. CASE dest[k] = "none" /\ Im!Goto("in", k) /\ UNCHANGED <<dest, old, faults>>
  <2>1. ipc' = "in" /\ k' = k
    BY <1>9 DEF Im!Goto
  <2>2. PlaceType'
    <3>1. AtType' /\ FromOne'
      BY <1>1, <1>2, <1>9, PlaceStep DEF Im!ImportPlaces
    <3>2. QED
      BY <1>1, <1>2, <1>9, <3>1 DEF PlaceType, HeldType, AsideType, FaultType
  <2>3. Faultless' /\ Resting'
    BY <1>4, <1>7, <1>8, <2>1 DEF Faultless, Resting
  <2>4. OneTorn(Im!Ks)'
    BY <1>3, <1>7, <1>9 DEF OneTorn
  <2>5. /\ dest'[k] = "none"
        /\ old'[k] = found'[k] \/ (found'[k] = "none" /\ old'[k] = "torn")
    BY <1>2, <1>3, <1>9
  <2>6. Swapping'
    BY <1>2, <1>3, <1>9, <2>1, <2>4, <2>5 DEF Swapping
  <2>7. QED BY <2>1, <2>2, <2>3, <2>6 DEF ImpInv, Dropping, Unwinding, Finishing
<1>10. CASE /\ dest[k] # "none" /\ old[k] = "none"
            /\ old' = [old EXCEPT ![k] = dest[k]]
            /\ dest' = [dest EXCEPT ![k] = "none"]
            /\ Im!Goto("in", k) /\ UNCHANGED faults
  <2>1. ipc' = "in" /\ k' = k /\ faults' = faults
    BY <1>10 DEF Im!Goto
  <2>2. dest \in [Im!Ks -> Folder] /\ old \in [Im!Ks -> Im!Contents] /\ dest[k] \in Folder
    BY <1>1, <1>2 DEF HeldType, AsideType
  <2>3. /\ dest' \in [Im!Ks -> Folder] /\ dest'[k] = "none"
        /\ \A i \in Im!Ks : i # k => dest'[i] = dest[i]
    BY <1>2, <1>10, <2>2, SetFolder, Kinds
  <2>4. /\ old' \in [Im!Ks -> Im!Contents] /\ old'[k] = dest[k] /\ old'[k] # "torn"
        /\ \A i \in Im!Ks : i # k => old'[i] = old[i]
    BY <1>2, <1>10, <2>2, SetAside, Kinds
  <2>5. PlaceType'
    <3>1. AtType' /\ FromOne'
      BY <1>1, <1>2, <1>10, PlaceStep DEF Im!ImportPlaces
    <3>2. QED
      BY <1>1, <1>2, <2>1, <2>3, <2>4, <3>1
         DEF PlaceType, HeldType, AsideType, FaultType
  <2>6. Faultless' /\ Resting'
    BY <1>4, <1>7, <2>1 DEF Faultless, Resting
  <2>7. OneTorn(Im!Ks)'
    <3>1. \A i \in Im!Ks : old'[i] = "torn" => old[i] = "torn"
      BY <2>4
    <3>2. QED BY <1>3, <1>7, <2>1, <3>1 DEF OneTorn
  <2>8. \A i \in 1 .. k - 1 :
            /\ dest'[i] = "new"
            /\ old'[i] = found'[i] \/ (found'[i] = "none" /\ old'[i] = "torn")
    BY <1>2, <1>3, <1>5, <2>3, <2>4
  <2>9. \A i \in k + 1 .. Folders : dest'[i] = found'[i] /\ old'[i] \in {"none", "torn"}
    BY <1>2, <1>3, <1>6, <2>3, <2>4
  <2>10. Swapping'
    BY <1>2, <1>3, <2>1, <2>3, <2>4, <2>7, <2>8, <2>9 DEF Swapping
  <2>11. QED BY <2>1, <2>5, <2>6, <2>10 DEF ImpInv, Dropping, Unwinding, Finishing
<1>11. CASE /\ dest[k] # "none"
            /\ Im!Fault \/ (old[k] # "none" /\ UNCHANGED faults)
            /\ Im!Goto("unwind", k - 1) /\ UNCHANGED <<dest, old>>
  <2>1. ipc' = "unwind" /\ k' = k - 1 /\ k' \in 0 .. Folders
    <3>1. ipc' = "unwind" /\ k' = k - 1
      BY <1>11 DEF Im!Goto
    <3>2. k \in 1 .. Folders
      BY <1>2
    <3>3. QED BY <1>0, <3>1, <3>2
  <2>2. /\ faults' = 1 /\ Intact(found)
        /\ \A i \in 1 .. k - 1 : old[i] # "torn"
    <3>1. CASE Im!Fault
      <4>1. faults = 0 /\ faults' = 1
        BY <1>1, <3>1
      <4>2. QED BY <1>3, <1>4, <1>5, <4>1 DEF Faultless, OneTorn
    <3>2. CASE old[k] # "none" /\ UNCHANGED faults
      <4>1. old[k] = "torn"
        BY <1>3, <3>2
      <4>2. QED BY <1>2, <1>3, <1>5, <3>2, <4>1 DEF OneTorn
    <3>3. QED BY <1>11, <3>1, <3>2
  <2>3. \A i \in 1 .. k - 1 : Swapped(i)'
    BY <1>2, <1>3, <1>11, <2>2 DEF Swapped
  <2>4. /\ \A i \in k + 1 .. Folders : dest'[i] = found'[i]
        /\ dest'[k] = found'[k]
    BY <1>2, <1>3, <1>11
  <2>5. PlaceType'
    <3>1. AtType' /\ FromOne'
      BY <2>1 DEF AtType, FromOne, Im!ImportPlaces
    <3>2. QED
      BY <1>1, <1>2, <1>11, <2>2, <3>1 DEF PlaceType, HeldType, AsideType, FaultType
  <2>6. Faultless' /\ Resting'
    BY <2>1, <2>2 DEF Faultless, Resting
  <2>7. /\ \A i \in 1 .. k' - 1 : i \in 1 .. k - 1
        /\ \A i \in k' + 1 .. Folders : i = k \/ i \in k + 1 .. Folders
        /\ k' > 0 => k' \in 1 .. k - 1
    BY <1>1, <1>2, <2>1
  <2>8. Unwinding'
    BY <1>7, <2>1, <2>2, <2>3, <2>4, <2>7 DEF Unwinding
  <2>9. QED BY <2>1, <2>5, <2>6, <2>8 DEF ImpInv, Dropping, Swapping, Finishing
<1>12. QED BY <1>9, <1>10, <1>11 DEF Im!Out

LEMMA InKeeps == ASSUME OneFault, ImpInv, Im!In PROVE ImpInv'
<1>0. /\ Folders \in Nat \ {0} /\ k \in Int /\ k \in 0 .. Folders
      /\ ipc # "unwind" => k \in 1 .. Folders
  BY ImportInts
<1>1. /\ Folders \in Nat \ {0} /\ faults \in {0, 1}
      /\ HeldType /\ AsideType /\ FaultType /\ AtType
      /\ ipc # "unwind" => k \in 1 .. Folders /\ k \in Im!Ks
      /\ Im!Fault => faults = 0 /\ faults' = 1
      /\ \A i \in 1 .. Folders : i \in Im!Ks
      /\ \A i \in Im!Ks : i \in 1 .. Folders /\ i \in Int
  BY ImportFacts
<1>2. /\ ipc = "in" /\ k \in 1 .. Folders /\ k \in Im!Ks
      /\ UNCHANGED <<old, found, had, whole>>
  BY <1>1 DEF Im!In, Im!Same
<1>3. /\ OneTorn(Im!Ks)
      /\ \A i \in 1 .. k - 1 :
            /\ dest[i] = "new"
            /\ old[i] = found[i] \/ (found[i] = "none" /\ old[i] = "torn")
      /\ \A i \in k .. Folders : part[i] = "new"
      /\ \A i \in k + 1 .. Folders : dest[i] = found[i] /\ old[i] \in {"none", "torn"}
      /\ dest[k] = "none"
      /\ old[k] = found[k] \/ (found[k] = "none" /\ old[k] = "torn")
  BY <1>2 DEF ImpInv, Swapping
<1>4. Faultless
  BY DEF ImpInv
<1>5. \A i \in 1 .. k - 1 : i \in Im!Ks /\ i # k
  BY <1>1, <1>2
<1>6. \A i \in k + 1 .. Folders : i \in Im!Ks /\ i # k /\ i \in k .. Folders
  BY <1>1, <1>2
<1>7. Intact(found)' <=> Intact(found)
  BY <1>2 DEF Intact
<1>8. CASE /\ dest' = [dest EXCEPT ![k] = part[k]]
           /\ part' = [part EXCEPT ![k] = "none"]
           /\ IF k < Folders THEN Im!Goto("out", k + 1) ELSE Im!Goto("retire", 1)
           /\ UNCHANGED faults
  <2>1. part[k] = "new" /\ faults' = faults
    <3>1. k \in k .. Folders
      BY <1>1, <1>2
    <3>2. QED BY <1>3, <1>8, <3>1
  <2>2. /\ dest' \in [Im!Ks -> Folder] /\ dest'[k] = "new"
        /\ \A i \in Im!Ks : i # k => dest'[i] = dest[i]
    <3>1. dest \in [Im!Ks -> Folder]
      BY <1>1 DEF HeldType
    <3>2. QED BY <1>2, <1>8, <2>1, <3>1, SetFolder, Kinds
  <2>3. /\ part' \in [Im!Ks -> Im!Contents] /\ \A i \in Im!Ks : i # k => part'[i] = part[i]
    <3>1. part \in [Im!Ks -> Im!Contents]
      BY <1>1 DEF AsideType
    <3>2. QED BY <1>2, <1>8, <3>1, SetAside, Kinds
  <2>4. OneTorn(Im!Ks)'
    BY <1>2, <1>3, <1>7, <2>1 DEF OneTorn
  <2>5. HeldType' /\ AsideType' /\ FaultType'
    BY <1>1, <1>2, <2>1, <2>2, <2>3 DEF HeldType, AsideType, FaultType
  <2>6. CASE k < Folders
    <3>1. ipc' = "out" /\ k' = k + 1
      BY <1>8, <2>6 DEF Im!Goto
    <3>2. AtType' /\ FromOne'
      BY <1>1, <1>2, <2>6, <3>1 DEF AtType, FromOne, Im!ImportPlaces
    <3>3. Faultless' /\ Resting'
      BY <1>4, <1>7, <2>1, <3>1 DEF Faultless, Resting
    <3>4. \A i \in 1 .. k :
              /\ dest'[i] = "new"
              /\ old'[i] = found'[i] \/ (found'[i] = "none" /\ old'[i] = "torn")
      <4>1. \A i \in 1 .. k : i = k \/ i \in 1 .. k - 1
        BY <1>1, <1>2
      <4>2. QED BY <1>2, <1>3, <1>5, <2>2, <4>1
    <3>5. \A i \in k + 1 .. Folders : /\ part'[i] = "new" /\ dest'[i] = found'[i]
                                      /\ old'[i] \in {"none", "torn"}
      BY <1>2, <1>3, <1>6, <2>2, <2>3
    <3>6. /\ k' - 1 = k /\ k' \in k + 1 .. Folders
          /\ \A i \in k' + 1 .. Folders : i \in k + 1 .. Folders
      BY <1>1, <1>2, <2>6, <3>1
    <3>7. Swapping'
      <4>1. \A i \in 1 .. k' - 1 :
              /\ dest'[i] = "new"
              /\ old'[i] = found'[i] \/ (found'[i] = "none" /\ old'[i] = "torn")
        BY <3>4, <3>6
      <4>2. QED BY <2>4, <3>1, <3>5, <3>6, <4>1 DEF Swapping
    <3>8. QED
      BY <2>5, <3>1, <3>2, <3>3, <3>7
         DEF ImpInv, PlaceType, Dropping, Unwinding, Finishing
  <2>7. CASE k = Folders
    <3>1. ipc' = "retire" /\ k' = 1
      BY <1>1, <1>2, <1>8, <2>7 DEF Im!Goto
    <3>2. AtType' /\ FromOne'
      BY <1>1, <1>2, <2>7, <3>1 DEF AtType, FromOne, Im!ImportPlaces
    <3>3. \A i \in Im!Ks : i = k \/ i \in 1 .. k - 1
      BY <1>1, <1>2, <2>7
    <3>4. Finishing'
      BY <1>3, <1>5, <2>2, <3>3 DEF Finishing
    <3>5. Faultless' /\ Resting'
      <4>1. \A i \in 1 .. k' - 1 : FALSE
        BY <3>1
      <4>2. faults' = 0 => Intact(found)'
        BY <1>4, <1>7, <2>1 DEF Faultless
      <4>3. QED BY <3>1, <4>1, <4>2 DEF Faultless, Resting
    <3>6. QED
      BY <2>5, <3>1, <3>2, <3>4, <3>5
         DEF ImpInv, PlaceType, Dropping, Swapping, Unwinding
  <2>8. QED BY <1>1, <1>2, <2>6, <2>7
<1>9. CASE Im!Fault /\ Im!Goto("back", k) /\ UNCHANGED <<dest, part>>
  <2>1. ipc' = "back" /\ k' = k /\ faults = 0 /\ faults' = 1
    BY <1>1, <1>9 DEF Im!Goto
  <2>2. Intact(found) /\ \A i \in Im!Ks : old[i] # "torn"
    BY <1>3, <1>4, <2>1 DEF Faultless, OneTorn
  <2>3. \A i \in 1 .. k - 1 : Swapped(i)'
    BY <1>2, <1>3, <1>5, <1>9, <2>2 DEF Swapped
  <2>4. PlaceType'
    <3>1. AtType' /\ FromOne'
      BY <1>1, <1>2, <2>1 DEF AtType, FromOne, Im!ImportPlaces
    <3>2. QED
      BY <1>1, <1>2, <1>9, <2>1, <3>1 DEF PlaceType, HeldType, AsideType, FaultType
  <2>5. Faultless' /\ Resting'
    BY <2>1 DEF Faultless, Resting
  <2>6. dest'[k] = "none" /\ old'[k] = found'[k]
    BY <1>2, <1>3, <1>9, <2>2
  <2>7. Unwinding'
    BY <1>2, <1>3, <1>7, <1>9, <2>1, <2>2, <2>3, <2>6 DEF Unwinding
  <2>8. QED BY <2>1, <2>4, <2>5, <2>7 DEF ImpInv, Dropping, Swapping, Finishing
<1>10. QED BY <1>8, <1>9 DEF Im!In

\* The way back, on which nothing fails any more.
LEMMA UnwindsKeeps == ASSUME OneFault, ImpInv, Im!Unwinds PROVE ImpInv'
<1>0. /\ Folders \in Nat \ {0} /\ k \in Int /\ k \in 0 .. Folders
      /\ ipc # "unwind" => k \in 1 .. Folders
  BY ImportInts
<1>1. /\ Folders \in Nat \ {0} /\ k \in 0 .. Folders
      /\ HeldType /\ AsideType /\ FaultType /\ AtType
      /\ Im!Fault => faults = 0
      /\ \A i \in 1 .. Folders : i \in Im!Ks
  BY ImportFacts DEF AtType
<1>2. /\ ipc = "unwind" /\ k \in 1 .. Folders /\ k \in Im!Ks /\ ipc' = "back" /\ k' = k
      /\ UNCHANGED <<old, found, had, whole>>
  BY <1>1 DEF Im!Unwinds, Im!Same, Im!Goto
<1>3. /\ faults = 1 /\ Intact(found)
      /\ \A i \in 1 .. k - 1 : Swapped(i)
      /\ Swapped(k)
      /\ \A i \in k + 1 .. Folders : dest[i] = found[i]
  BY <1>1, <1>2 DEF ImpInv, Unwinding
<1>4. /\ part' = [part EXCEPT ![k] = dest[k]] /\ dest' = [dest EXCEPT ![k] = "none"]
      /\ faults' = 1
  BY <1>1, <1>3 DEF Im!Unwinds
<1>5. dest \in [Im!Ks -> Folder] /\ part \in [Im!Ks -> Im!Contents] /\ dest[k] \in Im!Contents
  BY <1>1, <1>2, Kinds DEF HeldType, AsideType
<1>6. /\ dest' \in [Im!Ks -> Folder] /\ dest'[k] = "none"
      /\ \A i \in Im!Ks : i # k => dest'[i] = dest[i]
  BY <1>2, <1>4, <1>5, SetFolder, Kinds
<1>7. part' \in [Im!Ks -> Im!Contents]
  BY <1>2, <1>4, <1>5, SetAside
<1>8. PlaceType'
  <2>1. AtType' /\ FromOne'
    BY <1>1, <1>2 DEF AtType, FromOne, Im!ImportPlaces
  <2>2. QED
    BY <1>1, <1>2, <1>4, <1>6, <1>7, <2>1
       DEF PlaceType, HeldType, AsideType, FaultType
<1>9. Faultless' /\ Resting'
  BY <1>2, <1>4 DEF Faultless, Resting
<1>10. /\ \A i \in 1 .. k - 1 : i \in Im!Ks /\ i # k
       /\ \A i \in k + 1 .. Folders : i \in Im!Ks /\ i # k
  BY <1>1, <1>2
<1>11. Intact(found)' /\ \A i \in 1 .. k - 1 : Swapped(i)'
  BY <1>2, <1>3, <1>6, <1>10 DEF Intact, Swapped
<1>12. old'[k] = found'[k] /\ \A i \in k + 1 .. Folders : dest'[i] = found'[i]
  BY <1>2, <1>3, <1>6, <1>10 DEF Swapped
<1>13. Unwinding'
  BY <1>2, <1>4, <1>6, <1>11, <1>12 DEF Unwinding
<1>14. QED BY <1>2, <1>8, <1>9, <1>13 DEF ImpInv, Dropping, Swapping, Finishing

LEMMA BackKeeps == ASSUME OneFault, ImpInv, Im!Back PROVE ImpInv'
<1>0. /\ Folders \in Nat \ {0} /\ k \in Int /\ k \in 0 .. Folders
      /\ ipc # "unwind" => k \in 1 .. Folders
  BY ImportInts
<1>1. /\ Folders \in Nat \ {0} /\ HeldType /\ AsideType /\ FaultType
      /\ ipc # "unwind" => k \in 1 .. Folders /\ k \in Im!Ks
      /\ Im!Fault => faults = 0
      /\ \A i \in 1 .. Folders : i \in Im!Ks
  BY ImportFacts
<1>2. /\ ipc = "back" /\ k \in 1 .. Folders /\ k \in Im!Ks
      /\ ipc' = "unwind" /\ k' = k - 1
      /\ UNCHANGED <<part, found, had, whole>>
  BY <1>1 DEF Im!Back, Im!Same, Im!Goto
<1>3. /\ faults = 1 /\ Intact(found)
      /\ \A i \in 1 .. k - 1 : Swapped(i)
      /\ \A i \in k + 1 .. Folders : dest[i] = found[i]
      /\ dest[k] = "none" /\ old[k] = found[k]
  BY <1>2 DEF ImpInv, Unwinding
<1>4. faults' = 1
  BY <1>1, <1>3 DEF Im!Back
<1>5. dest \in [Im!Ks -> Folder] /\ old \in [Im!Ks -> Im!Contents] /\ found[k] \in Folder
  BY <1>1, <1>2 DEF HeldType, AsideType
<1>6. /\ dest' \in [Im!Ks -> Folder] /\ old' \in [Im!Ks -> Im!Contents] /\ dest'[k] = found[k]
      /\ \A i \in Im!Ks : i # k => dest'[i] = dest[i] /\ old'[i] = old[i]
  <2>1. CASE /\ dest' = [dest EXCEPT ![k] = old[k]]
             /\ old' = [old EXCEPT ![k] = "none"]
    BY <1>2, <1>3, <1>5, <2>1, SetFolder, SetAside, Kinds
  <2>2. CASE old[k] = "none" /\ UNCHANGED <<dest, old>>
    BY <1>3, <1>5, <2>2
  <2>3. QED BY <1>1, <1>3, <2>1, <2>2 DEF Im!Back
<1>7. PlaceType'
  <2>1. AtType' /\ FromOne'
    BY <1>1, <1>2 DEF AtType, FromOne, Im!ImportPlaces
  <2>2. QED
    BY <1>1, <1>2, <1>4, <1>6, <2>1 DEF PlaceType, HeldType, AsideType, FaultType
<1>8. Faultless' /\ Resting'
  BY <1>2, <1>4 DEF Faultless, Resting
<1>9. \A i \in 1 .. k - 1 : i \in Im!Ks /\ i # k
  BY <1>1, <1>2
<1>10. Intact(found)' /\ \A i \in 1 .. k - 1 : Swapped(i)'
  BY <1>2, <1>3, <1>6, <1>9 DEF Intact, Swapped
<1>11. /\ \A i \in k + 1 .. Folders : i \in Im!Ks /\ i # k
       /\ \A i \in k' + 1 .. Folders : i = k \/ i \in k + 1 .. Folders
       /\ \A i \in 1 .. k' - 1 : i \in 1 .. k - 1
       /\ k' > 0 => k' \in 1 .. k - 1
  BY <1>1, <1>2
<1>12. \A i \in k' + 1 .. Folders : dest'[i] = found'[i]
  BY <1>2, <1>3, <1>6, <1>11
<1>13. Unwinding'
  BY <1>2, <1>4, <1>10, <1>11, <1>12 DEF Unwinding
<1>14. QED BY <1>2, <1>7, <1>8, <1>13 DEF ImpInv, Dropping, Swapping, Finishing

LEMMA CleanKeeps == ASSUME OneFault, ImpInv, Im!Clean PROVE ImpInv'
<1>0. /\ Folders \in Nat \ {0} /\ k \in Int /\ k \in 0 .. Folders
      /\ ipc # "unwind" => k \in 1 .. Folders
  BY ImportInts
<1>1. /\ Folders \in Nat \ {0} /\ 1 \in 1 .. Folders
      /\ HeldType /\ AsideType /\ FaultType
      /\ ipc # "unwind" => k \in 1 .. Folders /\ k \in Im!Ks
      /\ \A i \in Im!Ks : i \in 1 .. Folders
  BY ImportFacts
<1>2. Resting /\ Faultless /\ Unwinding
  BY DEF ImpInv
<1>3. UNCHANGED <<dest, old, faults, found, had, whole>>
  BY DEF Im!Clean, Im!Same
<1>4. Intact(found)' <=> Intact(found)
  BY <1>3 DEF Intact
<1>5. CASE ipc = "unwind" /\ k = 0 /\ Im!Goto("clean", 1) /\ UNCHANGED part
  <2>1. ipc' = "clean" /\ k' = 1
    BY <1>5 DEF Im!Goto
  <2>2. faults = 1 /\ Intact(found)
    BY <1>2, <1>5 DEF Unwinding
  <2>3. dest = found
    <3>1. \A i \in Im!Ks : i \in k + 1 .. Folders
      BY <1>1, <1>5
    <3>2. \A i \in Im!Ks : dest[i] = found[i]
      BY <1>2, <1>5, <3>1 DEF Unwinding
    <3>3. QED BY <1>1, <3>2 DEF HeldType
  <2>4. PlaceType'
    <3>1. AtType' /\ FromOne'
      BY <1>1, <1>5, PlaceStep DEF Im!ImportPlaces
    <3>2. QED
      BY <1>1, <1>3, <1>5, <3>1 DEF PlaceType, HeldType, AsideType, FaultType
  <2>5. Resting'
    <3>1. \A i \in had : dest[i] \in {"game", "new"}
      BY <2>2, <2>3 DEF Intact
    <3>2. QED BY <1>3, <2>1, <2>3, <3>1 DEF Resting
  <2>6. Faultless'
    BY <1>3, <2>1, <2>2 DEF Faultless
  <2>7. QED
    BY <2>1, <2>4, <2>5, <2>6 DEF ImpInv, Dropping, Swapping, Unwinding, Finishing
<1>6. CASE /\ ipc = "clean" /\ part' = [part EXCEPT ![k] = "none"]
           /\ Im!After("clean", "idle")
  <2>1. PICK p \in {"clean", "idle"}, i \in 1 .. Folders : Im!Goto(p, i)
    BY <1>1, <1>6 DEF Im!After
  <2>2. AtType' /\ FromOne' /\ ipc' = p
    BY <1>1, <2>1, PlaceStep DEF Im!ImportPlaces, Im!Goto
  <2>3. PlaceType'
    BY <1>1, <1>3, <1>6, <2>2, SetAside, Kinds
       DEF PlaceType, HeldType, AsideType, FaultType
  <2>4. Im!AllOrNone'
    BY <1>2, <1>3, <1>6 DEF Resting, Im!AllOrNone
  <2>5. Faultless' /\ Resting'
    BY <1>2, <1>3, <1>4, <1>6, <2>1, <2>2, <2>4 DEF Faultless, Resting
  <2>6. QED
    BY <2>1, <2>2, <2>3, <2>5 DEF ImpInv, Dropping, Swapping, Unwinding, Finishing
<1>7. QED BY <1>5, <1>6 DEF Im!Clean

\* Swapping or swapping back, a folder or its old name holds what is whole.
LEMMA SwapHolds ==
    ASSUME OneFault, ImpInv, Intact(found), NEW i \in had,
           ipc \in {"out", "in", "unwind", "back", "retire"}
    PROVE  dest[i] \in {"game", "new"} \/ old[i] \in {"game", "new"}
<1>0. /\ Folders \in Nat \ {0} /\ k \in Int /\ k \in 0 .. Folders
      /\ ipc # "unwind" => k \in 1 .. Folders
  BY ImportInts
<1>1. /\ i \in Im!Ks /\ i \in 1 .. Folders /\ k \in 0 .. Folders
      /\ found[i] \in {"game", "new"} /\ Folders \in Nat
      /\ ipc # "unwind" => k \in 1 .. Folders
  BY ImportFacts DEF HeldType, AtType, Intact
<1>2. CASE i < k
  <2>1. i \in 1 .. k - 1
    BY <1>1, <1>2
  <2>2. QED
    BY <1>1, <2>1 DEF ImpInv, Swapping, Unwinding, Swapped, Finishing
<1>3. CASE i = k
  <2>1. k > 0
    BY <1>1, <1>3
  <2>2. QED
    BY <1>1, <1>3, <2>1 DEF ImpInv, Swapping, Unwinding, Swapped, Finishing
<1>4. CASE i > k
  <2>1. i \in k + 1 .. Folders
    BY <1>1, <1>4
  <2>2. QED
    BY <1>1, <2>1 DEF ImpInv, Swapping, Unwinding, Finishing
<1>5. QED BY <1>1, <1>2, <1>3, <1>4

\* Swapping, a folder is new or its copy is.
LEMMA SwapCopies ==
    ASSUME OneFault, ImpInv, NEW i \in had, ipc \in {"out", "in", "retire"}
    PROVE  dest[i] = "new" \/ part[i] = "new"
<1>0. /\ Folders \in Nat \ {0} /\ k \in Int /\ k \in 0 .. Folders
      /\ ipc # "unwind" => k \in 1 .. Folders
  BY ImportInts
<1>1. i \in Im!Ks /\ i \in 1 .. Folders /\ k \in 1 .. Folders /\ Folders \in Nat
  BY ImportFacts DEF HeldType
<1>2. i \in 1 .. k - 1 \/ i \in k .. Folders
  BY <1>1
<1>3. QED BY <1>1, <1>2 DEF ImpInv, Swapping, Finishing

\* The one fault may be the end of the process, anywhere.
LEMMA CrashKeeps == ASSUME OneFault, ImpInv, Im!Crash PROVE ImpInv'
<1>0. /\ Folders \in Nat \ {0} /\ k \in Int /\ k \in 0 .. Folders
      /\ ipc # "unwind" => k \in 1 .. Folders
  BY ImportInts
<1>1. /\ Folders \in Nat \ {0} /\ 1 \in 1 .. Folders
      /\ HeldType /\ AsideType /\ AtType
      /\ Im!Fault => faults = 0 /\ faults' = 1
  BY ImportFacts
<1>2. /\ ipc # "idle" /\ faults = 0 /\ faults' = 1 /\ Im!Goto("idle", 1)
      /\ ipc' = "idle" /\ whole' = FALSE /\ UNCHANGED <<dest, part, old, found, had>>
  BY <1>1 DEF Im!Crash, Im!Goto
<1>3. Intact(found) /\ Resting
  BY <1>2 DEF ImpInv, Faultless
<1>4. \A i \in had : dest[i] \in {"game", "new"} \/ old[i] \in {"game", "new"}
  <2>1. CASE ipc \in {"create", "write", "verify", "drop", "clean"}
    BY <1>3, <2>1 DEF Resting, Intact
  <2>2. CASE ipc \in {"out", "in", "unwind", "back", "retire"}
    BY <1>3, <2>2, SwapHolds
  <2>3. QED BY <1>1, <1>2, <2>1, <2>2 DEF AtType, Im!ImportPlaces
<1>5. PlaceType'
  <2>1. AtType' /\ FromOne'
    BY <1>1, <1>2, PlaceStep DEF Im!ImportPlaces
  <2>2. QED
    BY <1>1, <1>2, <2>1 DEF PlaceType, HeldType, AsideType, FaultType
<1>6. Faultless' /\ Resting'
  BY <1>2, <1>4 DEF Faultless, Resting
<1>7. QED BY <1>2, <1>5, <1>6 DEF ImpInv, Dropping, Swapping, Unwinding, Finishing

LEMMA ImportStep == ASSUME OneFault, ImpInv, [Im!Next]_import PROVE ImpInv'
<1>1. CASE UNCHANGED import
  <2>1. PlaceType' /\ Resting' /\ Faultless'
    BY <1>1 DEF import, ImpInv, PlaceType, HeldType, AsideType, FaultType,
                AtType, FromOne, Resting, Faultless, Im!AllOrNone, Intact
  <2>2. Dropping' /\ Swapping' /\ Unwinding' /\ Finishing'
    BY <1>1 DEF import, ImpInv, Dropping, Swapping, Unwinding, Finishing,
                OneTorn, Intact, Swapped
  <2>3. QED BY <2>1, <2>2 DEF ImpInv
<1>2. CASE Im!Next
  BY <1>2, WritingKeeps, DropKeeps, DropLastKeeps, OutKeeps, InKeeps,
     UnwindsKeeps, BackKeeps, CleanKeeps, CrashKeeps DEF Im!Next
<1>3. QED BY <1>1, <1>2

LEMMA ImportPlaced == ASSUME OneFault, ImpInv PROVE Im!Placed
<1>1. Resting /\ AtType /\ had \subseteq Im!Ks
  BY ImportFacts DEF ImpInv, HeldType
<1>2. ASSUME NEW i \in had PROVE Im!HasCopy(i)
  <2>1. SUFFICES dest[i] \in {"game", "new"} \/ part[i] \in {"game", "new"}
                    \/ old[i] \in {"game", "new"}
    BY DEF Im!HasCopy
  <2>2. CASE ipc \in {"idle", "create", "write", "verify", "clean"}
    BY <1>1, <2>2 DEF Resting
  <2>3. CASE ipc = "drop"
    BY <1>1, <2>3 DEF ImpInv, Dropping
  <2>4. CASE ipc \in {"out", "in", "unwind", "back", "retire"}
    <3>1. CASE Intact(found)
      BY <2>4, <3>1, SwapHolds
    <3>2. CASE ~Intact(found)
      <4>1. ipc \in {"out", "in", "retire"}
        BY <2>4, <3>2 DEF ImpInv, Unwinding
      <4>2. QED BY <1>1, <2>4, <3>2, <4>1, SwapCopies
    <3>3. QED BY <3>1, <3>2
  <2>5. QED BY <1>1, <2>2, <2>3, <2>4 DEF AtType, Im!ImportPlaces
<1>3. ipc = "idle" /\ whole => Im!AllOrNone
  BY <1>1 DEF Resting
<1>4. QED BY <1>2, <1>3 DEF Im!Placed

\* Where one rename or removal fails or the process ends once, no copy of the
\* user's game is lost before its successor is whole, and an attempt that ends
\* has placed the whole title or nothing of it (place in ingest.c).
THEOREM PlaceSafety == ASSUME MaxFaults <= 1 PROVE HostSpec => []Placed
<1>1. OneFault
  BY HostAssumption DEF OneFault
<1>2. HostInit => ImpInv
  BY <1>1, ImportInit DEF HostInit
<1>3. ImpInv /\ [HostNext]_hostVars => ImpInv'
  BY <1>1, FileSteps, ImportStep
<1>4. ImpInv => Placed
  BY <1>1, ImportPlaced DEF Placed
<1>5. QED BY <1>2, <1>3, <1>4, PTL DEF HostSpec
-----------------------------------------------------------------------------
(* The values of the three machines, whoever leaves and however often one  *)
(* fails.                                                                  *)

\* The chosen plan is one of those that may be given.
PlanChosen == plan \in Plans \cup {<<>>} /\ stop \in BOOLEAN

LEMMA PlanStep == ASSUME PlanChosen, [Ch!Next]_cache PROVE PlanChosen'
<1>1. CASE UNCHANGED cache
  BY <1>1 DEF cache, PlanChosen
<1>2. CASE Ch!Reading \/ Ch!Put \/ Ch!Close
  BY <1>2 DEF PlanChosen, Ch!Reading, Ch!Put, Ch!Close, Ch!Submit, Ch!Found, Ch!Sleeps,
       Ch!FoundBad, Ch!DecodesItself, Ch!Decoded, Ch!Joined, Ch!Turn
<1>3. CASE (\E p \in Plans : Ch!Plan(p)) \/ (\E h \in Hunks : Ch!Get(h))
  BY <1>3 DEF PlanChosen, Ch!Plan, Ch!Get
<1>4. ASSUME NEW d \in Decoders, Ch!DecoderStep(d) PROVE PlanChosen'
  BY <1>4 DEF PlanChosen, Ch!DecoderStep, Ch!Rests, Ch!Begins, Ch!Finishes
<1>5. QED BY <1>1, <1>2, <1>3, <1>4 DEF Ch!Next

LEMMA ChdSays == ASSUME ChdInv, PlanChosen PROVE Ch!ChdTypeOK
BY DEF ChdInv, ChdType, SlotType, Ranked, PlanType, ThreadType, SlotRecord,
       DecoderPlace, ReaderPlace, PlanChosen, Ch!ChdTypeOK

\* Only the way back goes below the first folder.
ImTyped == Im!ImportTypeOK /\ FromOne

\* Where an attempt is at step by step, and how many faults it has met.
Places == AtType /\ FromOne /\ faults \in 0 .. MaxFaults

LEMMA ImTypesStart == ASSUME Im!ImportAssumption, Im!Init PROVE ImTyped
<1>1. 1 \in 0 .. Folders /\ 0 \in 0 .. MaxFaults
  BY DEF Im!ImportAssumption
<1>2. {"none", "game"} \subseteq Im!Contents /\ "none" \in Im!Contents
  BY DEF Im!Contents
<1>3. dest \in [Im!Ks -> Im!Contents]
  BY <1>2 DEF Im!Init
<1>4. QED BY <1>1, <1>2, <1>3 DEF Im!Init, ImTyped, Im!ImportTypeOK, FromOne,
                                  Im!ImportPlaces

LEMMA AfterPlaces ==
    ASSUME Im!ImportAssumption, AtType, FromOne, ipc # "unwind",
           NEW p \in Im!ImportPlaces, NEW q \in Im!ImportPlaces,
           p # "unwind", q # "unwind", Im!After(p, q)
    PROVE  AtType' /\ FromOne'
<1>1. k \in 1 .. Folders /\ Folders \in Nat \ {0}
  BY DEF AtType, FromOne, Im!ImportAssumption
<1>2. CASE k < Folders
  <2>1. k + 1 \in 1 .. Folders
    BY <1>1, <1>2
  <2> QED BY <1>1, <1>2, <2>1, PlaceStep DEF Im!After
<1>3. CASE ~(k < Folders)
  <2>1. 1 \in 1 .. Folders
    BY <1>1
  <2> QED BY <1>1, <1>3, <2>1, PlaceStep DEF Im!After
<1>4. QED BY <1>2, <1>3

LEMMA UnwindPlaces ==
    ASSUME Im!ImportAssumption, AtType, k # 0, Im!Goto("unwind", k - 1)
    PROVE  AtType' /\ FromOne'
<1>1. k \in 0 .. Folders /\ Folders \in Nat
  BY DEF AtType, Im!ImportAssumption
<1>2. k - 1 \in 0 .. Folders
  BY <1>1
<1>3. QED BY <1>2 DEF Im!Goto, AtType, FromOne, Im!ImportPlaces

LEMMA HerePlaces ==
    ASSUME AtType, k # 0, NEW p \in Im!ImportPlaces, Im!Goto(p, k)
    PROVE  AtType' /\ FromOne'
BY DEF Im!Goto, AtType, FromOne

LEMMA FaultCounts ==
    ASSUME Im!ImportAssumption, faults \in 0 .. MaxFaults, Im!Fault \/ UNCHANGED faults
    PROVE  faults' \in 0 .. MaxFaults
BY DEF Im!Fault, Im!ImportAssumption

\* An attempt's places, one step on.
LEMMA ImPlaceStep == ASSUME Im!ImportAssumption, ImTyped, Im!Next PROVE Places'
<1>1. /\ AtType /\ FromOne /\ faults \in 0 .. MaxFaults
      /\ Folders \in Nat \ {0} /\ 1 \in 1 .. Folders
  BY DEF ImTyped, Im!ImportTypeOK, AtType, Im!ImportAssumption
<1>2. {"idle", "create", "write", "verify", "drop", "out", "in", "retire", "back",
       "clean"} \subseteq Im!ImportPlaces
  BY DEF Im!ImportPlaces
<1>3. Im!Fault \/ UNCHANGED faults
  BY DEF Im!Next, Im!Begin, Im!Create, Im!Write, Im!Verify, Im!DropOld, Im!Out, Im!In,
         Im!Unwinds, Im!Back, Im!Clean, Im!Crash
<1>4. faults' \in 0 .. MaxFaults
  BY <1>1, <1>3, FaultCounts
<1>5. CASE \/ Im!Goto("create", 1) \/ Im!Goto("clean", 1) \/ Im!Goto("drop", 1)
           \/ Im!Goto("retire", 1) \/ Im!Goto("idle", 1)
  BY <1>1, <1>2, <1>4, <1>5, PlaceStep DEF Places
<1>6. CASE /\ ipc # "unwind"
           /\ \/ Im!After("create", "write") \/ Im!After("write", "verify")
              \/ Im!After("drop", "out") \/ Im!After("retire", "idle")
              \/ Im!After("clean", "idle")
  BY <1>1, <1>2, <1>4, <1>6, AfterPlaces DEF Places
<1>7. CASE k # 0 /\ Im!Goto("unwind", k - 1)
  BY <1>1, <1>4, <1>7, UnwindPlaces DEF Places
<1>8. CASE k # 0 /\ (Im!Goto("in", k) \/ Im!Goto("back", k))
  BY <1>1, <1>2, <1>4, <1>8, HerePlaces DEF Places
<1>9. CASE ipc = "in" /\ k < Folders /\ Im!Goto("out", k + 1)
  <2>1. k \in 0 .. Folders
    BY <1>1 DEF AtType
  <2>2. k + 1 \in 1 .. Folders
    BY <1>1, <1>9, <2>1
  <2> QED BY <1>1, <1>2, <1>4, <1>9, <2>2, PlaceStep DEF Places
<1>10. ipc # "unwind" => k # 0
  BY <1>1 DEF FromOne
<1>11. CASE Im!Begin \/ Im!Verify \/ Im!Crash
  BY <1>5, <1>11 DEF Im!Begin, Im!Verify, Im!Crash
<1>12. CASE Im!Create \/ Im!Write \/ Im!DropOld("drop", "out")
            \/ Im!DropOld("retire", "idle") \/ Im!Clean
  BY <1>5, <1>6, <1>12 DEF Im!Create, Im!Write, Im!DropOld, Im!Clean
<1>13. CASE Im!Out \/ Im!In
  BY <1>5, <1>7, <1>8, <1>9, <1>10, <1>13 DEF Im!Out, Im!In
<1>14. CASE Im!Unwinds \/ Im!Back
  <2>1. Im!Unwinds => k # 0
    BY <1>1 DEF Im!Unwinds, AtType
  <2> QED BY <1>7, <1>8, <1>10, <1>14, <2>1 DEF Im!Unwinds, Im!Back
<1>15. QED BY <1>11, <1>12, <1>13, <1>14 DEF Im!Next

\* What the folders hold, one step on.
LEMMA ImHeldStep ==
    ASSUME Im!ImportAssumption, ImTyped, Im!Next
    PROVE  /\ {dest', part', old', found'} \subseteq [Im!Ks -> Im!Contents]
           /\ had' \subseteq Im!Ks /\ whole' \in BOOLEAN
<1> DEFINE Held == [Im!Ks -> Im!Contents]
<1>1. /\ dest \in Held /\ part \in Held /\ old \in Held /\ found \in Held
      /\ had \subseteq Im!Ks /\ whole \in BOOLEAN
  BY DEF ImTyped, Im!ImportTypeOK
<1>2. k # 0 => k \in Im!Ks
  BY DEF ImTyped, Im!ImportTypeOK, Im!Ks, Im!ImportAssumption
<1>3. ipc # "unwind" \/ k > 0 => k # 0
  BY DEF ImTyped, FromOne
<1>4. \A f \in Held, j \in Im!Ks, v \in Im!Contents : [f EXCEPT ![j] = v] \in Held
  BY SetAside
<1>5. \A f \in Held, j \in Im!Ks : f[j] \in Im!Contents
  OBVIOUS
<1> HIDE DEF Held
<1> DEFINE Contained == dest' \in Held /\ part' \in Held /\ old' \in Held
<1>6. had' \subseteq Im!Ks /\ whole' \in BOOLEAN /\ found' \in Held
  BY <1>1 DEF Im!Next, Im!Begin, Im!Create, Im!Write, Im!Verify, Im!DropOld, Im!Out,
              Im!In, Im!Unwinds, Im!Back, Im!Clean, Im!Crash, Im!Same
<1>7. ASSUME Im!Begin \/ Im!Verify \/ Im!Crash \/ UNCHANGED <<dest, part, old>>
      PROVE  Contained
  BY <1>1, <1>7 DEF Im!Begin, Im!Verify, Im!Crash
<1>8. ASSUME k # 0, UNCHANGED <<dest, old>>, NEW v \in {"torn", "new", "none"},
             part' = [part EXCEPT ![k] = v]
      PROVE  Contained
  BY <1>1, <1>2, <1>4, <1>8, Kinds
<1>9. ASSUME k # 0, UNCHANGED <<dest, part>>, NEW v \in {"torn", "none"},
             old' = [old EXCEPT ![k] = v]
      PROVE  Contained
  BY <1>1, <1>2, <1>4, <1>9, Kinds
<1>10. ASSUME k # 0, UNCHANGED part,
              \/ old' = [old EXCEPT ![k] = dest[k]] /\ dest' = [dest EXCEPT ![k] = "none"]
              \/ old' = [old EXCEPT ![k] = "none"] /\ dest' = [dest EXCEPT ![k] = old[k]]
       PROVE  Contained
  BY <1>1, <1>2, <1>4, <1>5, <1>10, Kinds
<1>11. ASSUME k # 0, UNCHANGED old,
              \/ part' = [part EXCEPT ![k] = dest[k]] /\ dest' = [dest EXCEPT ![k] = "none"]
              \/ part' = [part EXCEPT ![k] = "none"] /\ dest' = [dest EXCEPT ![k] = part[k]]
       PROVE  Contained
  BY <1>1, <1>2, <1>4, <1>5, <1>11, Kinds
<1>12. Contained
  <2>1. CASE Im!Begin \/ Im!Verify \/ Im!Crash
    BY <1>7, <2>1
  <2>2. CASE Im!Create \/ Im!Write \/ Im!Clean
    BY <1>3, <1>7, <1>8, <2>2 DEF Im!Create, Im!Write, Im!Clean
  <2>3. CASE Im!DropOld("drop", "out") \/ Im!DropOld("retire", "idle")
    BY <1>3, <1>9, <2>3 DEF Im!DropOld
  <2>4. CASE Im!Out \/ Im!Back
    BY <1>3, <1>7, <1>10, <2>4 DEF Im!Out, Im!Back
  <2>5. CASE Im!In \/ Im!Unwinds
    BY <1>3, <1>7, <1>11, <2>5 DEF Im!In, Im!Unwinds
  <2> QED BY <2>1, <2>2, <2>3, <2>4, <2>5 DEF Im!Next
<1>13. QED BY <1>6, <1>12 DEF Held

LEMMA ImTypesStep == ASSUME Im!ImportAssumption, ImTyped, [Im!Next]_import PROVE ImTyped'
<1>1. CASE UNCHANGED import
  BY <1>1 DEF import, ImTyped, Im!ImportTypeOK, FromOne
<1>2. CASE Im!Next
  BY <1>2, ImPlaceStep, ImHeldStep DEF ImTyped, Im!ImportTypeOK, Places, AtType
<1>3. QED BY <1>1, <1>2

\* The values of the save file, the disk image's cache and the importer.
FileTyped == NvTyped /\ ChdInv /\ PlanChosen /\ ImTyped

LEMMA FileTypesStart == ASSUME HostInit PROVE FileTyped
<1>1. PlanChosen
  BY DEF HostInit, Ch!Init, PlanChosen
<1>2. QED BY <1>1, HostAssumption, NvTypesStart, ChdInit, ImTypesStart
             DEF HostInit, FileTyped

LEMMA FileTypesStep == ASSUME FileTyped, [HostNext]_hostVars PROVE FileTyped'
BY HostAssumption, FileSteps, NvTypesStep, ChdStep, PlanStep, ImTypesStep DEF FileTyped

LEMMA FileTypesSay ==
    ASSUME FileTyped PROVE Nv!NvTypeOK /\ Ch!ChdTypeOK /\ Im!ImportTypeOK
BY ChdSays DEF FileTyped, NvTyped, ImTyped
=============================================================================
