---------------------------- MODULE ReplayMemory -----------------------------
(***************************************************************************)
(* The game's memory around an in-between picture of drawreplay.c: the     *)
(* snapshot, which copies only the pages written since the buffer was last *)
(* filled; the blend, which compares only the pages written since tick N;  *)
(* the restore, which puts back only what may have changed.  All three     *)
(* trust write-watch stamps and the generation that win32_bind.c moves at  *)
(* every change to the game's reservations.                                *)
(*                                                                         *)
(* A page is a number, its address.  Heap pages come and go inside         *)
(* Windows: not watched, no generation.  A page's content is a small       *)
(* number; Half is what the blend leaves between two of them.              *)
(***************************************************************************)
EXTENDS Integers, FiniteSets

CONSTANTS
    Image,      \* pages of the image's data: always there, not watched
    Heap,       \* pages of the game's heaps
    Reserved,   \* pages of VirtualAlloc reservations
    Values,     \* contents a page may have
    Half,       \* the content of a blended page
    SideVM,     \* side threads change reservations as well
    LastTick,   \* bound: ticks
    LastGen     \* bound: the generation

Pages == Image \cup Heap \cup Reserved

ASSUME ReplayAssumption ==
    /\ Pages \subseteq Nat /\ IsFiniteSet(Pages)
    /\ Values /= {} /\ Half \notin Values
    /\ SideVM \in BOOLEAN /\ LastTick \in Nat /\ LastGen \in Nat

VARIABLES
    mem,        \* the contents of the pages
    there,      \* pages that are committed
    watch,      \* pages of reservations made with MEM_WRITE_WATCH
    wrote,      \* watched pages written since the last poll, as Windows knows
    vgen,       \* s_vgen
    op,         \* the page a side thread is reserving or releasing, and how far
    stamps,     \* s_ww: its pages, their stamps, and s_ww_vgen
    epoch,      \* s_epoch
    layout,     \* s_layout, with the generation and ranges it stands for
    ranges,     \* s_rng
    cache,      \* s_vq_rng, its watched pages and s_vq_vgen
    before,     \* s_before
    prev,       \* s_prev, and s_prev_rng
    havePrev,   \* s_have_prev_state
    held,       \* the side-thread lock is held exclusively
    rpc,        \* where the game's thread is
    job,        \* of the snapshot under way: pages to do, what it trusts
    tick,       \* ticks drawn
    truth       \* each page as it was when this tick's snapshot passed it

system == <<mem, there, watch, wrote, vgen, op>>
known == <<stamps, epoch, layout, ranges, cache>>
buffers == <<before, prev, havePrev>>
replayVars == <<system, known, buffers, held, rpc, job, tick, truth>>

NoPage == 0
NoGen == -1
Top == 2 * LastTick + 5     \* the stamp ~0u: newer than any epoch
Zeros == [p \in Pages |-> CHOOSE v \in Values : TRUE]
Buffer == [data : [Pages -> Values \cup {Half}], epoch : Nat, layout : Nat,
           ranges : SUBSET Pages, tick : Nat]

ReplayTypeOK ==
    /\ mem \in [Pages -> Values \cup {Half}]
    /\ Image \subseteq there /\ there \subseteq Pages
    /\ watch \subseteq there /\ wrote \subseteq watch
    /\ vgen \in 0 .. LastGen + 2
    /\ op \in [page : Reserved \cup {NoPage}, done : BOOLEAN]
    /\ stamps.pages \subseteq Reserved
    /\ stamps.at \in [Pages -> 0 .. Top]
    /\ {ranges, cache.ranges, layout.ranges} \subseteq SUBSET Pages
    /\ before \in Buffer /\ prev \in Buffer
    /\ havePrev \in BOOLEAN /\ held \in BOOLEAN
    /\ rpc \in {"work", "gen", "walk", "hold", "poll", "copy", "draw",
                "marked", "kept"}
    /\ job.todo \subseteq Pages
    /\ tick \in 0 .. LastTick

Empty == [data |-> Zeros, epoch |-> 0, layout |-> 0, ranges |-> {}, tick |-> 0]
NoJob == [todo |-> {}, room |-> FALSE, blend |-> FALSE, gen |-> NoGen,
          incB |-> FALSE, incP |-> FALSE, blended |-> {}]

Init ==
    /\ mem = Zeros /\ there = Image /\ watch = {} /\ wrote = {}
    /\ vgen = 0 /\ op = [page |-> NoPage, done |-> FALSE]
    /\ stamps = [pages |-> {}, at |-> [p \in Pages |-> 0], gen |-> NoGen]
    /\ epoch = 1 /\ layout = [n |-> 1, gen |-> NoGen, ranges |-> {}]
    /\ ranges = {} /\ cache = [ranges |-> {}, watch |-> {}, gen |-> NoGen]
    /\ before = Empty /\ prev = Empty /\ havePrev = FALSE
    /\ held = FALSE /\ rpc = "work" /\ job = NoJob /\ tick = 0
    /\ truth = Zeros

----------------------------------------------------------------------------
\* What the game does to its memory.

\* The game's own thread runs game code in Work and in a draw; side threads
\* run it whenever the lock lets them.
GameRuns == rpc \in {"work", "draw"} \/ ~held

Write(p, v) ==
    /\ GameRuns /\ p \in there /\ mem[p] # v
    /\ mem' = [mem EXCEPT ![p] = v]
    /\ wrote' = wrote \cup ({p} \cap watch)
    /\ UNCHANGED <<there, watch, vgen, op, known, buffers, held, rpc, job,
                   tick, truth>>

\* A new reservation is zeroed; MEM_WRITE_WATCH may not be had for it.
Reserve(p) ==
    /\ there' = there \cup {p}
    /\ watch' \in {watch, watch \cup {p}}
    /\ mem' = [mem EXCEPT ![p] = Zeros[p]]
    /\ wrote' = wrote \ {p}

Release(p) ==
    /\ there' = there \ {p}
    /\ watch' = watch \ {p} /\ wrote' = wrote \ {p}
    /\ UNCHANGED mem

\* ov_VirtualAlloc and ov_VirtualFree on the game's thread, which sees its own
\* two steps of the generation as one.  While frees are held a free is nothing.
Allocate(p) ==
    /\ rpc \in {"work", "draw"} /\ vgen < LastGen
    /\ p \in Reserved \ there
    /\ Reserve(p)
    /\ vgen' = vgen + 2
    /\ UNCHANGED <<op, known, buffers, held, rpc, job, tick, truth>>

Free(p) ==
    /\ rpc = "work" /\ vgen < LastGen
    /\ p \in Reserved \cap there
    /\ Release(p)
    /\ vgen' = vgen + 2
    /\ UNCHANGED <<op, known, buffers, held, rpc, job, tick, truth>>

\* A heap grows inside Windows, which nothing reports.
Grow(p) ==
    /\ rpc \in {"work", "draw"} /\ p \in Heap \ there
    /\ there' = there \cup {p}
    /\ UNCHANGED <<mem, watch, wrote, vgen, op, known, buffers, held, rpc, job,
                   tick, truth>>

\* The same call on a side thread: the generation moves, the reservation is
\* made, the generation moves again.
SideBegins(p) ==
    /\ SideVM /\ ~held /\ op.page = NoPage /\ vgen < LastGen
    /\ p \in Reserved \ there
    /\ op' = [page |-> p, done |-> FALSE]
    /\ vgen' = vgen + 1
    /\ UNCHANGED <<mem, there, watch, wrote, known, buffers, held, rpc, job,
                   tick, truth>>

SideChanges ==
    /\ op.page # NoPage /\ ~op.done
    /\ IF op.page \in there THEN UNCHANGED <<mem, there, watch, wrote>>
                            ELSE Reserve(op.page)
    /\ op' = [op EXCEPT !.done = TRUE]
    /\ UNCHANGED <<vgen, known, buffers, held, rpc, job, tick, truth>>

SideEnds ==
    /\ op.page # NoPage /\ op.done
    /\ op' = [page |-> NoPage, done |-> FALSE]
    /\ vgen' = vgen + 1
    /\ UNCHANGED <<mem, there, watch, wrote, known, buffers, held, rpc, job,
                   tick, truth>>

Game ==
    \/ \E p \in Pages, v \in Values : Write(p, v)
    \/ \E p \in Reserved : Allocate(p) \/ Free(p) \/ SideBegins(p)
    \/ \E p \in Heap : Grow(p)
    \/ SideChanges \/ SideEnds

----------------------------------------------------------------------------
\* Write watch.

\* ww_poll.  A region that is gone, or that is not watched any more, is
\* refused and counts as written for ever.
Polled ==
    [stamps EXCEPT !.at =
        [p \in Pages |->
            CASE p \in stamps.pages \ watch -> Top
              [] p \in stamps.pages \cap watch \cap wrote -> epoch
              [] OTHER -> stamps.at[p]]]
Unpolled == wrote \ stamps.pages

\* Mutant of Clean: a page written in the epoch itself is clean.
CleanOrSame(p, e) == p \in stamps'.pages /\ stamps'.at[p] <= e

\* ww_clean
Clean(p, e) == p \in stamps'.pages /\ stamps'.at[p] < e

\* snap_current
Current(b) ==
    /\ b.epoch # 0 /\ b.layout = layout.n
    /\ stamps.pages # {} /\ vgen = stamps.gen

\* The place of a page in a buffer of these ranges.
At(R, p) == CHOOSE i \in Pages :
                Cardinality({q \in Pages : q < i}) = Cardinality({q \in R : q < p})

----------------------------------------------------------------------------
\* build_ranges.

TickBegins ==
    /\ rpc = "work" /\ tick < LastTick
    /\ tick' = tick + 1
    /\ \E room \in BOOLEAN : job' = [NoJob EXCEPT !.room = room /\ tick > 0]
    /\ rpc' = "gen"
    /\ UNCHANGED <<system, known, buffers, held, truth>>

ReadGen ==
    /\ rpc = "gen" /\ rpc' = "walk"
    /\ job' = [job EXCEPT !.gen = vgen]
    /\ UNCHANGED <<system, known, buffers, held, tick, truth>>

\* Mutant of BuildFails: tick N's snapshot stays good.
BuildFailsKept ==
    /\ rpc = "gen" /\ rpc' = "work"
    /\ UNCHANGED <<system, known, buffers, held, job, tick, truth>>

\* More ranges or more memory than the host tracks: no snapshot of this tick.
BuildFails ==
    /\ rpc = "gen" /\ rpc' = "work"
    /\ havePrev' = FALSE
    /\ UNCHANGED <<system, known, before, prev, held, job, tick, truth>>

Reservations ==
    IF cache.gen = job.gen THEN cache
    ELSE [ranges |-> there \cap Reserved, watch |-> watch, gen |-> job.gen]

\* ww_rebuild
Rebuilt ==
    IF stamps.gen = job.gen THEN stamps
    ELSE [pages |-> Reservations.watch, at |-> [p \in Pages |-> 0],
          gen |-> job.gen]

Layout ==
    IF layout.gen = job.gen /\ layout.ranges = ranges' THEN layout
    ELSE [n |-> layout.n + 1, gen |-> job.gen, ranges |-> ranges']

Walk ==
    /\ rpc = "walk"
    /\ cache' = Reservations
    /\ ranges' = Image \cup (Heap \cap there) \cup Reservations.ranges
    /\ stamps' = Rebuilt
    /\ layout' = Layout
    /\ rpc' = IF job.room THEN "hold" ELSE "poll"
    /\ UNCHANGED <<system, epoch, buffers, held, job, tick, truth>>

\* game_hold_side_threads, once none of them is inside; frees are held too.
Hold ==
    /\ rpc = "hold" /\ op.page = NoPage
    /\ held' = TRUE /\ rpc' = "poll"
    /\ UNCHANGED <<system, known, buffers, job, tick, truth>>

----------------------------------------------------------------------------
\* snapshot, and snapshot_and_blend when there was room for an in-between.

SnapBegins ==
    /\ rpc = "poll" /\ rpc' = "copy"
    /\ stamps' = Polled /\ wrote' = Unpolled
    /\ job' = [job EXCEPT !.todo = ranges, !.blend = job.room /\ havePrev,
                          !.incB = Current(before), !.incP = Current(prev)]
    /\ UNCHANGED <<mem, there, watch, vgen, op, epoch, layout, ranges, cache,
                   buffers, held, tick, truth>>

\* Mutant of Changed: tick N's page is looked for where this tick has it.
ChangedHere(p) == p \in prev.ranges /\ prev.data[At(ranges, p)] # mem[p]

\* The page differs from tick N's, where tick N had it.
Changed(p) == p \in prev.ranges /\ prev.data[At(prev.ranges, p)] # mem[p]

Skips(p) == job.incB /\ Clean(p, before.epoch)
Blends(p) ==
    job.blend /\ ~Skips(p) /\ ~(job.incP /\ Clean(p, prev.epoch)) /\ Changed(p)

CopyPage(p) ==
    /\ rpc = "copy" /\ p \in job.todo /\ \A q \in job.todo : p <= q
    /\ UNCHANGED stamps
    /\ before' = IF Skips(p) THEN before
                 ELSE [before EXCEPT !.data[At(ranges, p)] = mem[p]]
    /\ IF Blends(p)
          THEN /\ mem' = [mem EXCEPT ![p] = Half]
               /\ wrote' = wrote \cup ({p} \cap watch)
          ELSE UNCHANGED <<mem, wrote>>
    /\ truth' = [truth EXCEPT ![p] = mem[p]]
    /\ job' = [job EXCEPT !.todo = @ \ {p},
                          !.blended = IF Blends(p) THEN @ \cup {p} ELSE @]
    /\ UNCHANGED <<there, watch, vgen, op, epoch, layout, ranges, cache, prev,
                   havePrev, held, rpc, tick>>

SnapEnds ==
    /\ rpc = "copy" /\ job.todo = {}
    /\ epoch' = epoch + 1
    /\ before' = [before EXCEPT !.epoch = epoch', !.layout = layout.n,
                                !.ranges = ranges, !.tick = tick]
    /\ rpc' = IF held THEN "draw" ELSE "kept"
    /\ UNCHANGED <<system, stamps, layout, ranges, cache, prev, havePrev, held,
                   job, tick, truth>>

----------------------------------------------------------------------------
\* After the in-between draw: mark_dirty, restore_dirty, and the release.

\* Mutant of Dirty: the stamps are those of the snapshot.
DirtyThen(inc) ==
    {p \in ranges :
        /\ ~(inc /\ p \in stamps.pages /\ stamps.at[p] < before.epoch)
        /\ mem[p] # before.data[At(ranges, p)]}

Dirty(inc) ==
    {p \in ranges : /\ ~(inc /\ Clean(p, before.epoch))
                    /\ mem[p] # before.data[At(ranges, p)]}

Restore ==
    /\ rpc = "draw" /\ rpc' = "marked"
    /\ stamps' = IF Current(before) THEN Polled ELSE stamps
    /\ LET dirty == Dirty(Current(before))
       IN  /\ mem' = [p \in Pages |-> IF p \in dirty
                          THEN before.data[At(ranges, p)] ELSE mem[p]]
           /\ wrote' = (dirty \cap watch) \cup (IF Current(before) THEN Unpolled ELSE wrote)
    /\ UNCHANGED <<there, watch, vgen, op, epoch, layout, ranges, cache,
                   buffers, held, job, tick, truth>>

Unhold ==
    /\ rpc = "marked" /\ rpc' = "kept"
    /\ held' = FALSE
    /\ UNCHANGED <<system, known, buffers, job, tick, truth>>

\* keep_prev: this tick is the next one's tick N.  The real draw follows.
KeepPrev ==
    /\ rpc = "kept" /\ rpc' = "work"
    /\ prev' = before /\ before' = prev
    /\ havePrev' = TRUE /\ job' = NoJob /\ truth' = Zeros
    /\ UNCHANGED <<system, known, held, tick>>

Next ==
    \/ Game
    \/ TickBegins \/ ReadGen \/ BuildFails \/ Walk \/ Hold
    \/ SnapBegins \/ (\E p \in Pages : CopyPage(p)) \/ SnapEnds
    \/ Restore \/ Unhold \/ KeepPrev

Spec == Init /\ [][Next]_replayVars

----------------------------------------------------------------------------
\* A snapshot that copies only the pages it thinks were written holds every
\* page as it was: the in-between draw is undone to this.
SnapshotExact ==
    rpc \in {"draw", "marked"} =>
        \A p \in ranges : before.data[At(ranges, p)] = truth[p]

\* Skipping pages makes no difference to the blend: every page that differs
\* from tick N's is blended, wherever tick N had it.
BlendExact ==
    (rpc \in {"draw", "marked"} /\ job.blend) =>
        job.blended = {p \in ranges \cap prev.ranges :
                           prev.data[At(prev.ranges, p)] # truth[p]}

\* After the restore the game's memory is what it was when the side threads
\* were stopped, whatever the blend and the in-between draw wrote.
Restored == rpc = "marked" => \A p \in ranges : mem[p] = truth[p]

\* A blend is with the tick before, never across a tick that was lost.
BlendsNeighbours ==
    (rpc \in {"copy", "draw"} /\ job.blend) => prev.tick = tick - 1

=============================================================================
