----------------------------- MODULE NvramStore ------------------------------
(***************************************************************************)
(* The operator's settings of nvram.c: the game's block, the host's copy   *)
(* of it, and the file it is saved in by way of a temporary file and a     *)
(* replacing rename.  The process may end between any two steps, every     *)
(* call may fail, and shim_exit flushes from whichever thread reached it.  *)
(*                                                                         *)
(* A block is two pieces, so that a file and a copy can be incomplete, and *)
(* a piece is the number of the write that made it, 0 for the defaults.    *)
(* A file is Absent or the sequence of its pieces.                         *)
(***************************************************************************)
EXTENDS Integers, Sequences, FiniteSets

CONSTANTS
    NvThreads,   \* threads of the game
    Writer,      \* the one that saves the settings
    Leavers,     \* threads that may call shim_exit
    MaxWrites,   \* bound: writes of the game, over all its runs
    Absent,      \* no such file
    NvNobody     \* no thread

NvAssumption ==
    /\ Writer \in NvThreads /\ Leavers \subseteq NvThreads
    /\ NvNobody \notin NvThreads
    /\ MaxWrites \in Nat
    /\ Absent \notin Seq(Nat)

VARIABLES
    mem,      \* s_nv
    dirty,    \* s_dirty
    save,     \* the file s_path
    temp,     \* the file s_path.tmp
    using,    \* the threads that have the temporary file open
    npc,      \* where each thread is
    leaver,   \* s_exiting: the thread that runs shim_exit
    last,     \* the last write the game asked for
    met       \* history: two threads have been in nvram.c at once, so far
              \* in this run of the process

nvVars == <<mem, dirty, save, temp, using, npc, leaver, last, met>>

Piece == 1 .. 2
Whole(v) == <<v, v>>
Stored == {"open", "put1", "put2", "close", "replace", "discard", "clean"}
NvPlace == {"out", "copy1", "copy2", "mark", "gone"} \cup Stored

NvTypeOK ==
    /\ mem \in [Piece -> 0 .. MaxWrites]
    /\ dirty \in BOOLEAN
    /\ \A f \in {save, temp} :
          f = Absent \/ (f \in Seq(0 .. MaxWrites) /\ Len(f) <= 2)
    /\ using \subseteq NvThreads
    /\ npc \in [NvThreads -> NvPlace]
    /\ leaver \in NvThreads \cup {NvNobody}
    /\ last \in 0 .. MaxWrites
    /\ met \in BOOLEAN

\* What nv_load makes of the file: the pieces that are there, then zeros.
Loaded(f) ==
    [i \in Piece |-> IF f # Absent /\ i <= Len(f) THEN f[i] ELSE 0]

\* The file after a write of piece i at its place: a hole is zeros.
PutAt(f, i, v) ==
    [j \in 1 .. (IF Len(f) < i THEN i ELSE Len(f)) |->
        IF j = i THEN v ELSE IF j <= Len(f) THEN f[j] ELSE 0]

Init ==
    /\ save = Absent /\ temp = Absent
    /\ mem = Loaded(Absent) /\ dirty = FALSE
    /\ using = {} /\ npc = [t \in NvThreads |-> "out"]
    /\ leaver = NvNobody /\ last = 0 /\ met = FALSE

Goto(t, place) == npc' = [npc EXCEPT ![t] = place]

\* nv_store returns: to the game, or to shim_exit.
Back(t) == IF leaver = t THEN "gone" ELSE "out"

\* A thread enters nv_write_block or nv_store, maybe under another one.
Enters == met' = (met \/ \E t \in NvThreads : npc[t] \notin {"out", "gone"})

----------------------------------------------------------------------------
\* nv_write_block: the copy, which any other thread may watch, and the flag.
WriteBegins ==
    /\ npc[Writer] = "out" /\ last < MaxWrites
    /\ last' = last + 1
    /\ Goto(Writer, "copy1")
    /\ Enters
    /\ UNCHANGED <<mem, dirty, save, temp, using, leaver>>

Copy(i) ==
    /\ npc[Writer] = (IF i = 1 THEN "copy1" ELSE "copy2")
    /\ mem' = [mem EXCEPT ![i] = last]
    /\ Goto(Writer, IF i = 1 THEN "copy2" ELSE "mark")
    /\ UNCHANGED <<dirty, save, temp, using, leaver, last, met>>

Mark ==
    /\ npc[Writer] = "mark"
    /\ dirty' = TRUE
    /\ Goto(Writer, "open")
    /\ UNCHANGED <<mem, save, temp, using, leaver, last, met>>

----------------------------------------------------------------------------
\* nv_store, on thread t.

\* fopen "wb" truncates, and does not keep the other thread out.
Open(t) ==
    /\ npc[t] = "open"
    /\ \/ /\ temp' = <<>> /\ using' = using \cup {t}
          /\ Goto(t, "put1")
       \/ /\ UNCHANGED <<temp, using>>
          /\ Goto(t, Back(t))
    /\ UNCHANGED <<mem, dirty, save, leaver, last, met>>

Put(t, i) ==
    /\ npc[t] = (IF i = 1 THEN "put1" ELSE "put2")
    /\ temp' = PutAt(temp, i, mem[i])
    /\ Goto(t, IF i = 1 THEN "put2" ELSE "close")
    /\ UNCHANGED <<mem, dirty, save, using, leaver, last, met>>

\* A short fwrite, a failed fflush or fclose: the file is given up.
PutFails(t) ==
    /\ npc[t] \in {"put1", "put2", "close"}
    /\ using' = using \ {t}
    /\ Goto(t, "discard")
    /\ UNCHANGED <<mem, dirty, save, temp, leaver, last, met>>

Close(t) ==
    /\ npc[t] = "close"
    /\ using' = using \ {t}
    /\ Goto(t, "replace")
    /\ UNCHANGED <<mem, dirty, save, temp, leaver, last, met>>

\* A file that somebody has open can be neither renamed nor deleted.
Replace(t) ==
    /\ npc[t] = "replace"
    /\ \/ /\ temp # Absent /\ using = {}
          /\ save' = temp /\ temp' = Absent
          /\ Goto(t, "clean")
       \/ /\ UNCHANGED <<save, temp>>
          /\ Goto(t, "discard")
    /\ UNCHANGED <<mem, dirty, using, leaver, last, met>>

Discard(t) ==
    /\ npc[t] = "discard"
    /\ temp' \in IF using = {} THEN {temp, Absent} ELSE {temp}
    /\ Goto(t, Back(t))
    /\ UNCHANGED <<mem, dirty, save, using, leaver, last, met>>

Clean(t) ==
    /\ npc[t] = "clean"
    /\ dirty' = FALSE
    /\ Goto(t, Back(t))
    /\ UNCHANGED <<mem, save, temp, using, leaver, last, met>>

Store(t) ==
    \/ Open(t) \/ \E i \in Piece : Put(t, i)
    \/ PutFails(t) \/ Close(t) \/ Replace(t) \/ Discard(t) \/ Clean(t)

----------------------------------------------------------------------------
\* shim_exit, of the first thread to reach it: nvram_flush.
Flush(t) ==
    /\ t \in Leavers /\ leaver = NvNobody /\ npc[t] = "out"
    /\ leaver' = t
    /\ IF dirty THEN Goto(t, "open") /\ Enters
                ELSE Goto(t, "gone") /\ UNCHANGED met
    /\ UNCHANGED <<mem, dirty, save, temp, using, last>>

\* Mutant of Restart: a temporary file that was left behind is taken over.
RestartRecovers ==
    /\ save' = IF temp = Absent THEN save ELSE temp
    /\ mem' = Loaded(save') /\ dirty' = FALSE
    /\ using' = {} /\ npc' = [t \in NvThreads |-> "out"]
    /\ leaver' = NvNobody /\ met' = FALSE
    /\ UNCHANGED <<temp, last>>

\* The process ends, at its exit or anywhere, and the next one starts:
\* nv_load fills the block from the file.
Restart ==
    /\ mem' = Loaded(save) /\ dirty' = FALSE
    /\ using' = {} /\ npc' = [t \in NvThreads |-> "out"]
    /\ leaver' = NvNobody /\ met' = FALSE
    /\ UNCHANGED <<save, temp, last>>

Next ==
    \/ WriteBegins \/ \E i \in Piece : Copy(i)
    \/ Mark
    \/ \E t \in NvThreads : Store(t) \/ Flush(t)
    \/ Restart

Spec == Init /\ [][Next]_nvVars

----------------------------------------------------------------------------
\* Whichever threads save and leave, the file is only ever replaced by the write
\* the game asked for last, as long as two of them have not been in nvram.c at
\* once: a leftover of an earlier run or of a failed save never comes back.
SavesNewest == [][save' # save /\ ~met => save' = Whole(last)]_nvVars
=============================================================================
