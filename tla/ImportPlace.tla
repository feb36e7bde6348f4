----------------------------- MODULE ImportPlace -----------------------------
(***************************************************************************)
(* ingest.c's place: an imported title is written beside each of its       *)
(* folders (<name>.part), verified, and only then swapped in, the folder   *)
(* that was there going to <name>.old meanwhile.  A rename or a removal    *)
(* may fail and the process may end anywhere; MaxFaults bounds how often.  *)
(* Writing may fail or be cancelled as often as it likes.                  *)
(***************************************************************************)
EXTENDS Integers

CONSTANTS
    Folders,      \* nd
    MaxFaults

ImportAssumption == Folders \in Nat \ {0} /\ MaxFaults \in Nat

VARIABLES
    dest, part, old,   \* what the folders hold
    ipc, k,            \* where the attempt is, and at which folder
    found,             \* dest as this attempt found it
    had,               \* the folders the user's game was in at first
    whole,             \* no attempt is under way that a crash cut short
    faults

importVars == <<dest, part, old, ipc, k, found, had, whole, faults>>
Ks == 1 .. Folders
Contents == {"none", "torn", "game", "new"}
ImportPlaces == {"idle", "create", "write", "verify", "drop", "out", "in",
                 "retire", "unwind", "back", "clean"}

ImportTypeOK ==
    /\ dest \in [Ks -> Contents] /\ part \in [Ks -> Contents]
    /\ old \in [Ks -> Contents] /\ found \in [Ks -> Contents]
    /\ ipc \in ImportPlaces /\ k \in 0 .. Folders
    /\ had \subseteq Ks /\ whole \in BOOLEAN /\ faults \in 0 .. MaxFaults

Init ==
    /\ dest \in [Ks -> {"none", "game"}]
    /\ part = [i \in Ks |-> "none"] /\ old = part
    /\ ipc = "idle" /\ k = 1 /\ whole = TRUE /\ faults = 0
    /\ found = dest /\ had = {i \in Ks : dest[i] = "game"}

Fault == faults < MaxFaults /\ faults' = faults + 1
Goto(place, i) == ipc' = place /\ k' = i
\* The loop over the folders in this place, and what comes after it.
After(here, next) ==
    IF k < Folders THEN Goto(here, k + 1) ELSE Goto(next, 1)
Same == UNCHANGED <<found, had, whole>>

\* What is there already is refused unless it may be replaced.
Begin ==
    /\ ipc = "idle"
    /\ \E replace \in BOOLEAN : replace \/ \A i \in Ks : dest[i] = "none"
    /\ found' = dest /\ whole' = TRUE /\ Goto("create", 1)
    /\ UNCHANGED <<dest, part, old, had, faults>>

\* What is left of an earlier attempt goes first.
Create ==
    /\ ipc = "create" /\ Same
    /\ \/ /\ part' = [part EXCEPT ![k] = "torn"]
          /\ After("create", "write")
          /\ UNCHANGED faults
       \/ Fault /\ Goto("clean", 1) /\ UNCHANGED part
    /\ UNCHANGED <<dest, old>>

Write ==
    /\ ipc = "write"
    /\ \/ part' = [part EXCEPT ![k] = "new"] /\ After("write", "verify")
       \/ Goto("clean", 1) /\ UNCHANGED part
    /\ UNCHANGED <<dest, old, faults>> /\ Same

Verify ==
    /\ ipc = "verify"
    /\ Goto(IF \A i \in Ks : part[i] = "new" THEN "drop" ELSE "clean", 1)
    /\ UNCHANGED <<dest, part, old, faults>> /\ Same

\* remove_tree of old[k], before the swap and after it.
DropOld(here, next) ==
    /\ ipc = here /\ Same
    /\ \/ old' = [old EXCEPT ![k] = "none"] /\ UNCHANGED faults
       \/ old[k] # "none" /\ Fault /\ old' = [old EXCEPT ![k] = "torn"]
    /\ After(here, next)
    /\ UNCHANGED <<dest, part>>

\* The first rename: it fails when the folder is in use, or the old one stayed.
Out ==
    /\ ipc = "out" /\ Same
    /\ \/ dest[k] = "none" /\ Goto("in", k) /\ UNCHANGED <<dest, old, faults>>
       \/ /\ dest[k] # "none" /\ old[k] = "none"
          /\ old' = [old EXCEPT ![k] = dest[k]]
          /\ dest' = [dest EXCEPT ![k] = "none"]
          /\ Goto("in", k) /\ UNCHANGED faults
       \/ /\ dest[k] # "none"
          /\ Fault \/ (old[k] # "none" /\ UNCHANGED faults)
          /\ Goto("unwind", k - 1) /\ UNCHANGED <<dest, old>>
    /\ UNCHANGED part

\* The second rename; when it fails this folder's old one goes back at once.
In ==
    /\ ipc = "in" /\ Same
    /\ \/ /\ dest' = [dest EXCEPT ![k] = part[k]]
          /\ part' = [part EXCEPT ![k] = "none"]
          /\ IF k < Folders THEN Goto("out", k + 1) ELSE Goto("retire", 1)
          /\ UNCHANGED faults
       \/ Fault /\ Goto("back", k) /\ UNCHANGED <<dest, part>>
    /\ UNCHANGED old

\* Mutant of Unwinds: the folder swapped last is passed over.
UnwindsShort ==
    /\ ipc = "unwind" /\ k > 0 /\ Goto("unwind", k - 1)
    /\ UNCHANGED <<dest, part, old, faults>> /\ Same

\* The folders already swapped go back, the last one first.
Unwinds ==
    /\ ipc = "unwind" /\ k > 0 /\ Same
    /\ \/ /\ part' = [part EXCEPT ![k] = dest[k]]
          /\ dest' = [dest EXCEPT ![k] = "none"]
          /\ UNCHANGED faults
       \/ Fault /\ UNCHANGED <<dest, part>>
    /\ Goto("back", k) /\ UNCHANGED old

\* old[k] back to dest[k], when there is one and its place is free.
Back ==
    /\ ipc = "back" /\ Same
    /\ \/ /\ old[k] # "none" /\ dest[k] = "none"
          /\ dest' = [dest EXCEPT ![k] = old[k]]
          /\ old' = [old EXCEPT ![k] = "none"]
          /\ UNCHANGED faults
       \/ /\ old[k] = "none" \/ dest[k] # "none"
          /\ UNCHANGED <<dest, old, faults>>
       \/ Fault /\ UNCHANGED <<dest, old>>
    /\ Goto("unwind", k - 1) /\ UNCHANGED part

Clean ==
    /\ \/ ipc = "unwind" /\ k = 0 /\ Goto("clean", 1) /\ UNCHANGED part
       \/ /\ ipc = "clean" /\ part' = [part EXCEPT ![k] = "none"]
          /\ After("clean", "idle")
    /\ UNCHANGED <<dest, old, faults>> /\ Same

\* The process ends, and the importer is started again later.
Crash ==
    /\ ipc # "idle" /\ Fault /\ Goto("idle", 1) /\ whole' = FALSE
    /\ UNCHANGED <<dest, part, old, found, had>>

Next ==
    \/ Begin \/ Create \/ Write \/ Verify \/ DropOld("drop", "out")
    \/ Out \/ In \/ DropOld("retire", "idle")
    \/ Unwinds \/ Back \/ Clean \/ Crash
Spec == Init /\ [][Next]_importVars

----------------------------------------------------------------------------
\* A folder that held the user's game has a whole copy somewhere: the game, or
\* the title that replaces it.
HasCopy(i) == {dest[i], part[i], old[i]} \cap {"game", "new"} # {}

\* An attempt that returned changed all the title's folders or none.
AllOrNone == dest = found \/ \A i \in Ks : dest[i] = "new"

\* With one fault, a rename or removal that fails or an end of the process at
\* any point, no copy of the user's game is lost before its successor is whole,
\* and no attempt returns with the title half placed.
Placed ==
    /\ \A i \in had : HasCopy(i)
    /\ ipc = "idle" /\ whole => AllOrNone
=============================================================================
