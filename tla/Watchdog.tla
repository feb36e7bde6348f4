------------------------------ MODULE Watchdog -------------------------------
(***************************************************************************)
(* The hang watchdog of watchdog.c.  When no picture was swapped for long, *)
(* it suspends the thread that presents, writes where that thread is, and  *)
(* resumes it.  What it writes goes through locks that other threads take  *)
(* as well: those of the log's streams, and s_mask_cs, which              *)
(* audio_report_dcs_state enters.  Which thread presents may change: the   *)
(* swap replaces the handle.  How long is long is left open.               *)
(***************************************************************************)
EXTENDS Integers, FiniteSets

CONSTANTS
    Presenters,   \* threads that may swap
    Armer,        \* the one that armed the watchdog
    DumpLocks,    \* locks a report takes
    GameLocks,    \* locks a presenter takes
    NoOne,
    MaxHandles,   \* bound: handles ever made
    MaxReports    \* WATCHDOG_REPORTS

WatchdogAssumption ==
    /\ Armer \in Presenters /\ NoOne \notin Presenters
    /\ MaxHandles \in Nat \ {0} /\ MaxReports \in Nat

VARIABLES
    handles,      \* of each handle made, its thread
    opened,       \* handles that are not closed
    watched,      \* s_render_thread
    swapTid,      \* s_swap_tid
    swaps,        \* of each presenter: how far wd_note_swap is, and its handle
    owner,        \* of each lock
    dump,         \* the watchdog: how far, the handle it uses, locks to come
    suspended,
    reported

watchdogVars ==
    <<handles, opened, watched, swapTid, swaps, owner, dump, suspended, reported>>
Locks == DumpLocks \cup GameLocks
Ids == 1 .. MaxHandles

WatchdogTypeOK ==
    /\ handles \in [Ids -> Presenters \cup {NoOne}]
    /\ opened \subseteq Ids /\ watched \in Ids
    /\ swapTid \in Presenters \cup {NoOne}
    /\ swaps \in [Presenters -> [at : {"out", "replace", "close"}, handle : Ids]]
    /\ owner \in [Locks -> Presenters \cup {NoOne}]
    /\ dump \in [at : {"asleep", "lock", "suspend", "write"},
                 handle : Ids, left : SUBSET DumpLocks]
    /\ suspended \in Presenters \cup {NoOne}
    /\ reported \in 0 .. MaxReports

Init ==
    /\ handles = [i \in Ids |-> IF i = 1 THEN Armer ELSE NoOne]
    /\ opened = {1} /\ watched = 1 /\ swapTid = NoOne
    /\ swaps = [p \in Presenters |-> [at |-> "out", handle |-> 1]]
    /\ owner = [l \in Locks |-> NoOne]
    /\ dump = [at |-> "asleep", handle |-> 1, left |-> {}]
    /\ suspended = NoOne /\ reported = 0

\* s_render_lock: a dump holds it from before the suspension to its end.
RenderFree == dump.at \in {"asleep", "lock"}
Runs(p) == suspended # p
Holds(p) == \E l \in Locks : owner[l] = p

----------------------------------------------------------------------------
\* A presenter.

Takes(p, l) ==
    /\ Runs(p) /\ swaps[p].at = "out" /\ ~Holds(p) /\ owner[l] = NoOne
    /\ owner' = [owner EXCEPT ![l] = p]
    /\ UNCHANGED <<handles, opened, watched, swapTid, swaps, dump, suspended,
                   reported>>

Drops(p, l) ==
    /\ Runs(p) /\ owner[l] = p
    /\ owner' = [owner EXCEPT ![l] = NoOne]
    /\ UNCHANGED <<handles, opened, watched, swapTid, swaps, dump, suspended,
                   reported>>

Unused == {i \in Ids : handles[i] = NoOne}

\* wd_note_swap on a thread that is not the one that swapped last.
Duplicates(p) ==
    /\ Runs(p) /\ swaps[p].at = "out" /\ ~Holds(p) /\ swapTid # p
    /\ \E i \in Unused :
          /\ \A j \in Unused : i <= j
          /\ handles' = [handles EXCEPT ![i] = p]
          /\ opened' = opened \cup {i}
          /\ swaps' = [swaps EXCEPT ![p] = [at |-> "replace", handle |-> i]]
    /\ UNCHANGED <<watched, swapTid, owner, dump, suspended, reported>>

\* Mutant of Replaces: the handle is replaced without s_render_lock.
ReplacesUnlocked(p) ==
    /\ Runs(p) /\ swaps[p].at = "replace"
    /\ watched' = swaps[p].handle
    /\ swaps' = [swaps EXCEPT ![p] = [at |-> "close", handle |-> watched]]
    /\ UNCHANGED <<handles, opened, swapTid, owner, dump, suspended, reported>>

Replaces(p) ==
    /\ Runs(p) /\ swaps[p].at = "replace" /\ RenderFree
    /\ watched' = swaps[p].handle
    /\ swaps' = [swaps EXCEPT ![p] = [at |-> "close", handle |-> watched]]
    /\ UNCHANGED <<handles, opened, swapTid, owner, dump, suspended, reported>>

Closes(p) ==
    /\ Runs(p) /\ swaps[p].at = "close"
    /\ opened' = opened \ {swaps[p].handle}
    /\ swapTid' = p
    /\ swaps' = [swaps EXCEPT ![p].at = "out"]
    /\ UNCHANGED <<handles, watched, owner, dump, suspended, reported>>

----------------------------------------------------------------------------
\* The watchdog.

\* Once a second: frames resumed, or a report unless there were enough.
Looks ==
    /\ dump.at = "asleep"
    /\ \/ reported' = 0 /\ UNCHANGED dump
       \/ /\ reported < MaxReports /\ reported' = reported + 1
          /\ dump' = [dump EXCEPT !.at = "lock"]
    /\ UNCHANGED <<handles, opened, watched, swapTid, swaps, owner, suspended>>

Locked ==
    /\ dump.at = "lock"
    /\ dump' = [dump EXCEPT !.at = "suspend", !.handle = watched]
    /\ UNCHANGED <<handles, opened, watched, swapTid, swaps, owner, suspended,
                   reported>>

\* Suspending may fail, which ends the dump; without the context there is
\* nothing to write.
Suspends ==
    /\ dump.at = "suspend"
    /\ \/ /\ dump.handle \in opened /\ suspended' = handles[dump.handle]
          /\ \E left \in {DumpLocks, {}} :
                dump' = [dump EXCEPT !.at = "write", !.left = left]
       \/ UNCHANGED suspended /\ dump' = [dump EXCEPT !.at = "asleep"]
    /\ UNCHANGED <<handles, opened, watched, swapTid, swaps, owner, reported>>

\* A lock is taken and let go for each thing written.
Writes ==
    /\ dump.at = "write"
    /\ \E l \in dump.left :
          owner[l] = NoOne /\ dump' = [dump EXCEPT !.left = @ \ {l}]
    /\ UNCHANGED <<handles, opened, watched, swapTid, swaps, owner, suspended,
                   reported>>

Resumes ==
    /\ dump.at = "write" /\ dump.left = {}
    /\ suspended' = IF dump.handle \in opened THEN NoOne ELSE suspended
    /\ dump' = [dump EXCEPT !.at = "asleep"]
    /\ UNCHANGED <<handles, opened, watched, swapTid, swaps, owner, reported>>

DumpStep == Locked \/ Suspends \/ Writes \/ Resumes
Next ==
    \/ \E p \in Presenters :
          \/ \E l \in GameLocks : Takes(p, l) \/ Drops(p, l)
          \/ Duplicates(p) \/ Replaces(p) \/ Closes(p)
    \/ Looks \/ DumpStep

\* The watchdog is scheduled and gets a lock that is free again and again; a
\* thread lets go of these locks after a few instructions.
Spec ==
    /\ Init /\ [][Next]_watchdogVars
    /\ SF_watchdogVars(DumpStep)
    /\ \A p \in Presenters, l \in GameLocks : WF_watchdogVars(Drops(p, l))

----------------------------------------------------------------------------
\* A thread is suspended only while a dump is at work whose handle is open and
\* that thread's, whatever swaps replace and close meanwhile: the resume at the
\* end of the dump reaches it (dump, wd_note_swap).
HandleStays ==
    suspended # NoOne =>
        /\ dump.at = "write" /\ dump.handle \in opened
        /\ handles[dump.handle] = suspended

\* A thread that holds no lock of the report's is resumed, through a handle that
\* a swap may replace and close meanwhile (watchdog.c:31).
Resumed ==
    (\E p \in Presenters : suspended = p /\ \A l \in DumpLocks : owner[l] # p)
        ~> suspended = NoOne

\* "A dump must resume the thread it suspended" (watchdog.c:31).
AlwaysResumed == suspended # NoOne ~> suspended = NoOne
=============================================================================
