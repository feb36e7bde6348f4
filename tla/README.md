# VCThunder: models, checks and proofs

VCThunder runs the x86 code of arcade games natively on Windows. What the games
relied on the cabinet for, one processor whose interrupts could be masked, a
sound board, an I/O board on a serial line, a 333 MHz clock, battery-backed
memory, is stood in for by host threads, files and a few shared words. The
models here are about those stand-ins: who may run the game's code when, which
thread owns what, what survives a failure, and what a shutdown, a timeout or an
unlucky interleaving does to it.

`src/...` below is the repository. `PROJECT.json` maps every definition to the
lines it models and lists the hazards with the properties that cover them.

## 1. Inventory

| Part | State | Operations | Meets |
|---|---|---|---|
| Raster worker pool, `renderer/win32/thread.c` | `s_workers`, `s_gen`, `s_done`, `s_quit`, `s_fn/s_ctx`, per slot: rows, `sleeping`, event | `vgl_par_open`, `vgl_par_rows`, `vgl_par_close`, `worker_main` | called by `core/raster.c` per triangle, by `core/device.c` per surface |
| Audio mask and DCS tick, `audio.c` | `s_mask_owner`, `s_mask_nest`, `s_mask_free`; the game's own lock depth | `mask_acquire`, `mask_release`, `_EtsPicEnable`, `dcs_thread` | the game's sound library; the irq wait; the replay's side lock |
| Voices and mixer, `audio.c` | `s_voice`, `s_buffer` | play, stop, free, mix | game threads; the render thread of WASAPI |
| Offroad audio, `audio_offroad.c` | `s_voice` with cursors, `s_last_advance_ms` | the eleven driver entries, the mix, the catch-up | the same render thread; the game's status polls |
| I/O bridge, `diego.c` | `s_frame_dispatch`, `s_poll_idle/start/stop`, `s_stop`, `s_rx`, `s_due_ms`, `s_stamp_last` | `poll_thread`, `diego_frame_boundary`, `claim_frame_dispatch`, `dispatch_game_callbacks`, `diego_shutdown` | buffer swap, thread census (`loader.c`), `shim_exit` (`main.c`) |
| Wheel queue, `io_board.c` | a ring of four forces with due times, a timer | submit, deliver, close | the bridge's dispatching thread |
| cli/sti emulation, `main.c` | `s_irq_depth`, `s_irq_emulate`, `s_irq_window` | `heal_privileged`, `irq_degrade`, `game_irq_wait`, `game_irq_resync` | fault handler; tick and poll thread wait on it; buffer swap resets it |
| Virtual clock, `timebase.c` | `s_qpc0`, `s_paused`, `s_pause_qpc`, `s_pause_depth` | `synth_ticks`, `timebase_pause` | the game's `_cpuTimeStamp`; modal loops of `window.c` |
| Draw replay, `drawreplay.c`, `win32_bind.c` | snapshots and stamps of the game's memory, learnt costs, excluded ranges, the guard of the draw | snapshot, blend, draw, restore, unwind, budget | the side-thread lock, the audio mask, the irq depth, the game's `VirtualAlloc` |
| NVRAM save, `nvram.c` | block, dirty flag, save file, temporary file | load, store, `nv_write_block`, `nvram_flush` | the game; `shim_exit` |
| CHD importer, `chd.c`, `ingest.c` | slots of hunks, plan, queue; folders of a title | plan, read, decode, close; place | the launcher's import |
| Watchdog, `watchdog.c` | the presenter's handle and id, report counts | dump, swap | every thread, the log's lock |
| Arctic cabinet shell, `arctic_io.c` | switches, edges, credits, two blocks shared with the game | `shell_thread`, `add_credits`, `serve`, `post` | goose and the game, through the blocks |
| Link play, menus, force feedback, input, security keys, configuration, launcher, window, loader, renderer core, GPU backend | see `PROJECT.json` "components" | | |

What makes each part correct, and hard:

* **Pool.** No lock: publication is a generation counter, completion a count,
  and a sleeping worker is found through a flag and an event. Each row of a
  triangle is drawn exactly once before the call returns, no worker touches the
  stack frame of a call that returned, no job waits for a worker's 50 ms timeout,
  and every close ends.
* **Mask.** An interrupt mask turned into a lock with *roles* for owners,
  recursive, and *stolen* after 20 ms. The tick's callback never runs while a
  game thread holds a DCS lock, the tick never goes to sleep on the mask, and
  the circular wait of a game that spins on the tick's progress is broken.
* **Bridge.** The game's decoder and callback start on the poll thread and may
  move, once, to the thread that renders. One thread at a time, whatever the
  claim's 250 ms timeout does; frames keep coming; a shutdown releases nothing
  that is in use and ends; the callbacks come at their rate and the forces they
  cause reach the wheel in order.
* **cli/sti.** A count shared by all threads, forced to zero at the frame
  boundary and dropped for good over a budget. A side thread starts only outside
  the game's regions.
* **Clock.** Read without a lock, frozen and moved by the window thread. It
  never steps back and loses exactly the time it was held.
* **Replay.** The game's draw is run a second time on memory half-way between
  two ticks, and then everything is put back. Skipping the pages nobody wrote
  must not show in the snapshot, the blend or the restore; the tick stays out of
  the window; a fault in the draw leaves locks as they were; the budget must
  neither cost the real picture its place nor stop learning.
* **Voices.** The render thread reads the game's memory while the game frees it.
* **NVRAM, import.** Whatever fails and wherever the process ends, nothing the
  user has is replaced by something older or incomplete.
* **Watchdog.** A thread it suspends is resumed, through a handle that a swap
  of pictures may replace and close at any time.
* **Cabinet shell.** No edge and no coin is lost or counted twice in two blocks
  of memory without a lock.

## 2. Modules

| Module | Models | Run by | Proved in |
|---|---|---|---|
| `RasterPool` | `thread.c` | `MCRasterPool` | `RasterPool_proofs` |
| `DcsMask` | mask and tick of `audio.c`, the game's lock around them | `MCDcsMask`, `MCReplayHold` | `DcsMask_proofs` |
| `GameCodeOwner` | abstract: one holder of the game's decoder and callback, one hand-over | through `IoSeam` | `IoSeam_proofs` |
| `IoSeam` | `diego.c`, `shim_exit`, the census | `MCIoSeam` | `IoSeam_proofs` |
| `Timebase` | `timebase.c` | `MCClock`, `MCTimebase` | `Clock_proofs` |
| `IrqMask` | the emulation in `main.c` and its waiters | `MCHost` | `HostPlay_proofs` |
| `WheelQueue` | callbacks owed, stamps, the force queue and its timer | `MCClock` | `Clock_proofs` |
| `FrameBudget` | whether a tick has room for an in-between, what is learnt | `MCClock`, alone | `Clock_proofs` |
| `ReplayHold` | composes the in-between draw and its unwinding with `DcsMask` | `MCReplayHold` | `DcsMask_proofs` |
| `ReplayMemory` | snapshot, blend and restore over write watches | `MCReplayMemory` | `ReplayMemory_proofs` |
| `ExcludeList` | the ranges held out of the blend | `MCHost` | `HostLoops_proofs` |
| `NvramStore` | `nvram.c`, its files, failures and the end of the process | `MCHost` | `HostFiles_proofs` |
| `ChdCache` | the hunk cache, its reader and its decoders | `MCHost` | `HostFiles_proofs` |
| `ImportPlace` | `place` of `ingest.c`, faults and the end of the process | `MCHost` | `HostFiles_proofs` |
| `Voices` | voices, buffers and banks of `audio.c` under `s_voice_cs` | `MCHost` | `HostPlay_proofs` |
| `OffroadVoices` | `audio_offroad.c`: cursors, loops, mix and catch-up | `MCHost` | `HostLoops_proofs` |
| `Watchdog` | the dump of a suspended presenter, the swap of its handle | `MCHost`, alone | `HostPlay_proofs` |
| `CabinetShell` | `arctic_io.c` and the game it answers | `MCHost` | `HostPlay_proofs` |

An action is one access to shared memory or one system call, or a stretch of code
in which only one such access is visible to the other threads. A thread's place in
its code is a `pc` variable (`spc`, `wpc`, `tpc`, `acq`, `hpc`, `npc`, `ipc`,
`shpc`, ...). A definition headed "Mutant of" is a plausible bug, used only to
show that a property can fail.

`MCClock` and `MCHost` put machines side by side that share no state: a variable
`machine`, chosen at the start, says which of them the behaviour is about, and
all the others stand still. This checks each as if alone, in one run.

**RasterPool.** A worker thread is `<<incarnation, slot>>`: slots are reused by
every pool, threads are not, so a worker that outlives its pool stays visible.
`drawn` counts how often each row of the current triangle was drawn. `Publish`
is the split loop with the stores of `s_fn` and `s_ctx` (published by the bump
that follows); everything else is one access a step.

**DcsMask.** `Claim`, `Steal` and `Release` are the critical sections of
`s_mask_cs`, and one step each. `PollExpired` is one elapsed `AV_MASK_POLL_MS`;
with `Stalls` FALSE it may not be the last before a steal, which says that
nobody keeps the mask for 20 ms. The game's lock is external: `Lock` reads the
depth, `Enter` and `Unlock` change it, `Unmask` is the call at the outer edge.
The nest count is per role, as in the code, not per thread. `met` is history: a
steal, or a game thread that came to the lock with another thread in it.

**IoSeam.** `pc[t]` says whether a thread decodes, runs the callback, transmits
or is elsewhere. A dispatch owes between 0 and `IO_CATCHUP_MAX` callbacks; which
number the clock gives is the business of `WheelQueue`. `Exit` may come wherever
a thread runs the game's code, the frame thread or another. `OneOwner` says that
all this implements `GameCodeOwner`, the holder being the frame thread once the
claim has returned 1; the process may end with a game thread inside the code,
never with the poll thread. `ShutdownOrder` speaks of the poll thread, which the
shutdown joins; nobody joins the frame thread (section 3).

**Timebase.** `qpc` is the host's counter and `held` the time it spent inside a
pause. A read is three accesses (flag, counter or mark, epoch), a pause and a
resume two or three; the elapsed time is a difference modulo `Word`, the 2^64 of
the code. Two variables are history: `ideal[r]` is the time outside the pauses
when a read took its counter, and `met` the reads around which an outermost pause
began or ended. `PauseAccounts` and `TrueReads` speak of the reads that are not
in it, on any thread; of those that are, `NeverAhead` does, and it is violated.

**IrqMask.** `lvl[t]` is how many regions a thread is inside, whatever the host
counts; `depth` is the host's count. `Sti` and `Clamp` are the decrement and the
store that follows it. The budget's window may end at any fault. Any thread may
swap, several may execute `cli` and `sti`, a side thread's game code among them.
`lost` is history: a region has met a bare `sti` or a frame boundary of another
thread, which takes it out of the count, and there has been no moment without a
region since. `EntersOpen` says that this is the only way for a side thread to
start inside a region, that the count is right again after such a moment, and that
nobody ever waits out its time for a region that is over.

**WheelQueue.** Time in milliseconds. A pass is begun by the poll thread or a
frame, at most one in a millisecond, and owes what `Owed` says; each callback is
followed by the transmit of its force with a stamp. Forces are numbered as the
game writes them. `base` and `calls` count callbacks since the last
resynchronisation.

**FrameBudget.** One tick is a chain `fpc` from its start to the real swap. Each
cost is drawn from the sets of a light or a heavy load, and the load changes at
any time. A running average moves some way towards a new value; which part of it
is left open, so what is checked holds for every weight. `bet` remembers what
the budget expected.

**ReplayHold.** Extends `DcsMask` with the side-thread lock and the steps of one
in-between draw: wait, hold, draw, be cut or fault anywhere in the game's code
(`Abandons`), unwind, restore. The restore of the game's memory includes the
lock depth. `clash` is history: another game thread was in the DCS lock with the
window open, whose update the restore takes back and whose nesting the unwinding
releases; `DrawTells` and `Unwound` are about the windows without one.

**ReplayMemory.** A page is a number, its address, and its content a small
number; `Half` is what a blend leaves. Heap pages come and go without a watch
and without a generation, reservations with both, on a side thread that takes
two steps for it (`SideBegins`, `SideChanges`). `truth` is each page as it was
when this tick's snapshot passed it.

**ExcludeList.** The array is a sequence, its merging and the eviction of the
stalest range are operators on it, and the loops of the expiry and of the search
by halves are recursive functions; `stepped` is when each address was last
stepped.

**NvramStore.** A block is two pieces and a piece is the number of the write that
made it, so a torn or a stale file is visible. Every call of `nv_store` may fail,
and `Restart` ends the process between any two steps and loads the file again.
`met` is history: two threads have been in `nvram.c` at once in this run of the
process. `SavesNewest` holds while they have not.

**ChdCache.** Everything but the decoding runs under `c->lock` and is one step;
`dpc[d]` and `rd` say where a decoder and the reader are. A bad hunk fails in
whoever decodes it.

**ImportPlace.** Every rename and removal of `place` is a step; at most
`MaxFaults` of them fail or are the last of the process, after which another
import may start from what is there. Writing may fail as often as it likes.

**Voices.** How far a voice has played, pitch and volume are left out: a voice
may reach its end whenever the mixer comes to it. The game plays no bank that it
is freeing. A buffer index out of range, which `audio.c:814` does not record, is
left out.

**OffroadVoices.** A cursor counts in `Sub` parts of a frame, a rate in such
parts per output frame. Mixing is frame by frame and may be caught between any
two by nobody, since `s_cs` is held; the game's calls come between mixes. A call
of a held thread changes nothing and is left out, as are gains and master volume.

**Watchdog.** The lock of the log's stream and `s_mask_cs` may be held by the
thread that is suspended. How long no picture was swapped is left open.

**CabinetShell.** Every write of a shared word of the blocks is a step of the
shell's thread; goose's copy and its raise of the handshake, and the game's
reads, requests and waits, are steps of two more. `moved`, `put` and `paidFor`
count what happened, to compare with what is told. The unit counters are never
anything but zero in this code, so their clears are a no-op.

## 3. Runs

| Run | Shows |
|---|---|
| `raster_pool` (pass) | `DrawnOnce`, `NoExpiredContext`, `NoLostWake`; under fairness `JobReturns`, `CloseReturns` |
| `dcs_mask_steal` (pass) | two game threads, steals, a callback with locks of its own: `TickLetsGo`; under fairness `TickBreaksCycle` |
| `dcs_mask_depth` (violation) | after a steal the tick's save and restore loses the game's update of the depth: `DepthTells` |
| `io_seam` (pass) | both game threads may exit: `SeamExclusion`, `ShutdownOrder`, the refinement `OneOwner`; under fairness `DispatchContinues`, `ExitEnds` |
| `io_seam_self_join` (violation) | a shutdown on the poll thread waits for itself: `ExitEnds` |
| `timebase_callback` (violation) | a second reader between the epoch's move and the flag: `NeverAhead` |
| `replay_hold` (pass) | the game's lock, a callback that locks, steals, tick and in-between draw: `DrawTells`, `WindowKeepsTickOut`, `Unwound`; under fairness `WindowComes` |
| `replay_memory` (pass) | `SnapshotExact`, `BlendExact`, `Restored`, `BlendsNeighbours` |
| `clock` (pass) | timebase with two readers: `PauseAccounts`; wheel: `InOrder`, `Paced`, under fairness `Delivered`; budget: `InTime`, under fairness `FullRate` |
| `frame_budget_stuck` (violation) | a real draw learnt as dearer than a tick leaves no room for a probe: `FullRate` |
| `host` (pass) | `FoundWhileFresh`, `RightHunk`, `Placed`, `MixesLive`, `HandleStays`, `ReadsInside`, `SamePace`, `Counted`, `Credited`, `SavesNewest`, `EntersOpen`; under fairness `Resumed`, `ReadEnds`, `Retires` |
| `watchdog_resume` (violation) | a thread suspended inside a lock the report takes is never resumed: `AlwaysResumed` |

**Bounds.** *Pool:* two workers are the fewest of which one can be ahead of the
other; up to three rows over one to three blocks give equal, unequal and empty
ones; two incarnations let a thread of the last pool meet the next; two
generations are the most confusable counter the code's arithmetic allows.
*Mask:* `StealPolls` 2 is enough for a claim that is refused and one that is
lost; locks nest twice where the depth matters; a thread comes to the lock only
while the nest count is below two, three or four (`MaxNest`), which a mask that is
never released would exceed. *Window:* one game thread, which also draws, and a callback, each
with one lock, and one poll before a steal: the mask is stolen from either side
before the window comes, and the draw is cut inside a lock, inside a region, and
inside both. A second game thread in the lock during a window is what `DrawTells`
and `Unwound` leave out and the theorems state; two of them with steals are in
`dcs_mask_steal`. *Bridge:* two boundaries stand for the 120 that wait for a printf
and two owed ticks for four: one is followed by a decode of its own, one ends the
dispatch. *Clock:* two counts a second
against a clock of three at 150 percent make the division lose something at
every odd count; five counts hold two pauses, one nested, and a read on either
thread around each of their steps. *cli/sti:* two game threads, one of which
swaps, with regions nested twice, and a side thread with regions of its own; two
faults to a window, so that a third degrades. *Wheel:* a queue of
three fills within one burst of a pass and its catch-up, and twenty
milliseconds hold a resynchronisation and the delivery after it; passes stop at
ten so that what is queued can come out. *Budget:* a tick of ten, margins of one
and two, and costs on both sides of each comparison; the costs of the passing
run stay below the one from which the code never recovers, which
`frame_budget_stuck` shows. *Replay memory:* a page of a heap under one of a
reservation moves the reservation's place in every buffer; four ticks are a
blend, a lost tick and a blend after it. *Ranges:* five addresses and two ranges
merge, are evicted and are searched past both ends. *Save:* two threads that may
leave, and three writes, which let an older block come back after a newer one.
*Hunks:* three over two slots with two decoders, one hunk bad, plans that revisit.
*Import:* three folders, so one is done, one under way, one untouched when the
fault comes. *Voices:* two voices, two banks, two buffers. *Offroad:* a sample of one frame with a rate over more
than two of its traversals, one of three frames with a loop inside; a catch-up
of three output frames crosses two chunks. *Shell:* one switch plays both a coin
and TEST, the counts of two switches never meeting; three moves, and two
requests at a price that is all the credits there can be. *Watchdog:* four
handles, two reports, two presenters.

**Fairness.** The operating system schedules every thread, so the steps that
continue a call are weakly fair; nothing is asked of what the game need not do:
no job, close, lock, claim or exit is fair. `raster_pool` does not rely on the
50 ms timeout. `dcs_mask_steal` is fair to the tick only, and asks of the game's
callback that it comes back; the game's threads may stop anywhere. `replay_hold`
asks that the side lock is granted in turn and that the callback and what a thread
does inside a DCS lock come to an end, also when locks are taken again and again,
hence strongly. `io_seam`
asks for strong fairness of the end of `poll_wait`, because a due force sends
the wait round again; the queue is finite, so it cannot do so for ever. `clock`
asks that time passes, that the poll thread comes back to its wait, and that a
tick of the budget goes on. `host` asks that reader and decoders go on, that a
presenter leaves the log's or the mask's lock in the end (`Drops`), that the
watchdog's dump goes on, strongly, since it waits for locks others pass round,
and for Offroad that time passes, a mix that has begun ends and the game polls
its voices; that a mix *begins* is not asked, which is the device loss.
`CHECK_DEADLOCK FALSE` stands in `replay_memory`, `clock`, `host` and
`watchdog_resume`, where a machine comes to the end of its bound and stops.

**Types.** Every module states one type invariant. Those of the nine machines of
`host` are `HostTypeOK`, which `HostTypes` proves; those of `RasterPool`,
`DcsMask`, `IoSeam` and `Timebase` are part of their theorems. Those of
`WheelQueue`, `FrameBudget`, `ReplayMemory` and `ReplayHold` are not proved. All
of them hold on the instances of the runs, whose place went to properties.

### What the runs say of the code

Five disagreements with the code's own comments are in `PROJECT.json`
"findings", each with the line it contradicts: the tick's restore of the game's
lock depth after a steal; the shutdown that joins its own thread; the clock's
epoch moved before its flag; the budget no probe of which fits; the report made
while the thread it takes a lock from is suspended.

Met on the way, and not runs:

* *Pool.* With `CloseMayTimeOut` TRUE, a worker that left its spin at a close and
  is not scheduled for the second the close waits (`thread.c:261`) finds `s_quit`
  cleared, goes through to its count, and counts itself done in a job of the next
  pool: `vgl_par_rows` returns with another worker's rows not drawn, against
  `thread.c:316-317`.
* *Bridge.* After the hand-over the frame thread transmits, and an exit on another
  thread joins only the poll thread before it closes the transport, the wheel and
  the motors, against `diego.c:589-590` and `598-599`.
* *Mask.* With one game thread, a callback that takes DCS locks makes the depth
  nonzero, and the game thread then skips the mask. The nest count belongs to a
  role, so one game thread may release what another took.
* *cli/sti.* `glide_bind.c:1478-1480` says that the reset of the frame boundary
  cannot race the raise; where another thread swaps (`diego.c:386-387` reports such
  titles) it takes the main loop's region out of the count. So does a bare `sti`,
  whose decrement and store (`main.c:116-119`) another thread's `cli` may come
  between. `game_irq_wait` is made once, before a side thread's game code starts,
  so a region entered later excludes nobody.
* *Save.* When one thread saves while another saves or leaves, both write through
  one temporary file, and a torn block may be put in place, after which
  `nvram.c:75` logs "atomically wrote".
* *Reservations.* `win32_bind.c:268-271` says which order a change and its
  generation keep; in the middle of a change the two do not agree, and what
  makes the replay right is that it reads the generation before its walk.
* *Budget.* `present_inbetween` bounds its hold by half a tick less the margin,
  so `InTime` speaks of real draws of at most half a tick when a hold was made.
* *Import.* Two faults are one too many: two renames that fail in a row, or a
  crash between a folder's two renames followed by a failure after the old copy
  was removed, lose the user's folder or leave a title half in place.
* *Draw.* A fault while the game is inside a `CRITICAL_SECTION` of its own
  leaves that section taken; the unwinding restores mask and regions only.
* *Offroad.* A playing voice whose rate is set to 0 is skipped by the catch-up
  (`audio_offroad.c:176`), so with the device lost it never ends; the model's
  game sets no rate of 0.
* *Shell.* A coin worth fewer units than a credit gives nothing, since the units
  are not kept. Credits are past the most for a moment and the game can read
  that. `arctic_io_stop` waits 200 ms and then closes the devices, whether the
  thread has left or not.

## 4. Proofs

TLAPS checks these theorems for every value of the constants the named
assumptions of the modules allow; a further condition is part of the theorem
(`ASSUME ... PROVE`) and given here. Each rests on an inductive invariant with a
lemma for each action or group of actions. The invariants were model-checked on
the instance of the run before they were proved.

**`RasterPool_proofs`** (while a close does not time out: a worker that
outlives its pool breaks all three)

* `PoolSafety`: `TypeOK`, `DrawnOnce`, `ClosedIsEmpty`. `DrawnOnce` alone is not
  inductive: that the count has reached `n - 1` says nothing unless the workers
  that counted are those of this job. The invariant ties every worker's place to
  whether it still owes its share (`Busy`), makes `done` the number of those that
  do not, and says which rows are painted by whom; the split is a chain of
  blocks, by lemmas on `Start`.
* `ContextLives`: `NoExpiredContext`, from the same invariant.
* `WakesArrive`: `NoLostWake`. The invariant adds that a worker on its way to
  sleep has its flag up (`Announced`): whoever bumps the generation after its
  second look finds the flag.

**`DcsMask_proofs`**

* `MaskSafety`: `TickLetsGo`, `OwnerCounts` with steals and any number of game
  threads. `TickLetsGo` needs that from the leak's loop on the tick holds at most
  what it held before the callback.
* `MaskExclusion`: `LockTells`, that is `MaskExcludes` and `DepthTells` until the
  mask is stolen or a game thread comes to the lock with another thread in it, for
  any number of game threads, with stalls and a callback that locks. The invariant
  says that until then one thread at most is in the lock, follows it through lock,
  unlock and the callback's own locks, and says who owns the mask at each place.
* `WindowHolds`: `WindowKeepsTickOut` with steals and any number of game
  threads. The side lock is the drawer's throughout the window and the tick's
  throughout a turn (`SideOf`), and the drawer waits for it balanced.
* `DrawUnwinds`: `Unwound`, whatever was stolen before, as long as no other game
  thread was in the lock with the window open. The tick is out by `WindowHolds`, so
  the nest count moves by the drawer's own hands only, and after the cut it is
  only given back (`UnwindInv`).
* `DrawTellsDepth`: `DrawTells`, which is `MaskExclusion` with the draw's snapshot,
  cut and restore in between. Its invariant is kept until the draw is cut; from
  there on the snapshot is what carries it.

**`IoSeam_proofs`**

* `SeamSafety`: `SeamExclusion`, whoever exits and prints. The heart: once the
  flag is set, a poll thread past its second look is busy and has reset
  `s_poll_idle`, and sets it only on its way out.
* `HandOverRefines`: `OneOwner`, whichever threads exit: every step of `IoSeam` is
  a step of `GameCodeOwner` or none. The process ends with the poll thread gone or
  never started, or it is the poll thread that exits, and then it never ends.
* `ReleasedInOrder`: `ShutdownOrder`, whichever threads exit.

**`Clock_proofs`**

* `ClockSafety`: `TrueReads`, `PauseAccounts` for any frequency, rate and length and
  any threads that read. It needs that `Ticks` is monotonic (`TicksMonotonic`),
  although it divides, and that the epoch is the time held, less what a pause in
  progress has still to add: a read that no edge met used the epoch of its mark.
  `PausesCounted` is the same of the composition the run checks.
* `WheelInOrder`: `InOrder` for any queue length, period and burst. The queue
  holds consecutive forces in every step, the early sending of a full queue's
  oldest and the overtaking of those that wait included.
* `CallsPaced`: `Paced`. The invariant bounds when the next callback is due by
  the calls since the resynchronisation, and the calls a pass still owes.
* `BudgetInTime`: `InTime` for any costs and any weight of the averages. The
  invariant says at each place of the tick what of the estimate is still to be
  spent (`BetHolds`).

**`HostFiles_proofs`**

* `SaveSafety`: `SavesNewest` for any number of writes and threads, whichever of
  them leave, until two are in `nvram.c` at once. Until then the block is the
  newest write wherever it is being stored, and the temporary file is as far as
  the one thread that writes it.
* `ReadSafety`: `RightHunk` for any slots, decoders and plans. The order of use
  is a permutation of the slots, a hunk has one slot, and a slot is pinned as
  often as somebody is at work in it: hence nobody takes it (`SlotHeld`,
  `ReaderOwns`).
* `PlaceSafety`: `Placed` for any number of folders, with at most one fault in
  the title's import. The invariant says, at each step of placing, retiring and
  rolling back, which of a folder's three copies there are, for those before, at
  and after the one in hand.

**`HostPlay_proofs`**

* `VoicesSafety`: `MixesLive` for any number of voices, buffers and banks. It is
  not enough that a playing voice has a bank of the game's: once a free has
  stopped its voices, none plays that bank until it is gone (`Live`).
* `EdgesCounted`: `Counted` for any set of switches and any number of samples.
  The invariant follows a record through its copy, its handshake and goose's
  copy, and says at each place which edges are where.
* `CreditsKept`: `Credited` for any prices. The hard part is that a spending
  never finds fewer credits than it asks for, although the game reads the two
  kinds one after the other and may read more than there may be: what it saw is
  there, or the credits are at the most, which pays any price (`Covered`).
* `RegionSafety`: `DepthTells` and `EntersOpen` for any threads that execute `cli`
  and `sti`, whichever of them swaps. The invariant counts the open regions, as a
  set of pairs of thread and level; with nothing lost the depth is their number,
  and with a bare `sti` under way there are none. Whatever was lost, the depth is
  never more than their number and below zero only in a bare `sti` (`Bounded`): so
  it is right again as soon as no region is open, and a wait that runs out of time
  was for a region.
* `HandleSafety`: `HandleStays` for any presenters, locks and handles. A handle
  is open from the swap that duplicates it to the swap that closes it, and the
  one in use is the watched one for as long as the dump has `s_render_lock`
  (`Handled`, `Dumping`).

**`HostLoops_proofs`**

* `OffroadReads`: `ReadsInside` and the types of `OffroadVoices` for any voices,
  samples, lengths and changes. An allocated voice has the whole of a sample in
  memory (`SoundsWhole`), what is being read is of the voice the mixer is at
  (`ReadsOwn`), and a voice that plays after its cursor was normalised has it
  inside the sound (`NormalFacts`).
* `OffroadPace`: `SamePace`. That a function which repeats a step until a test
  holds exists at all is `RepeatExists`, from the least set of pairs that the
  step and the test allow; what one computes goes by induction over a size.
  Finishing traversals commutes with going on (`WithinPassAhead`), and normalising
  on the way makes no difference (`NormalAhead`), so the chunks of a catch-up
  (`CaughtUpWhere`) and the frames of a mix (`MixedWhere`) both come to `Where`,
  the whole time in one step.
* `FreshFound`: `FoundWhileFresh` for any addresses, list length and lifetime.
  The ranges are in order and apart, and what was written of late lies in one
  that was; a merge, an insertion, an eviction and an expiry keep that. Hence the
  search by halves, by induction over what is left to search, answers whether
  some range has the address.
* `HostTypes`: `HostTypeOK`, the types of all nine machines, with no condition:
  several threads may leave and the importer may meet any number of faults. The
  invariants of the theorems above have most of it; the save file needs besides
  that the temporary file is there while anybody has it open (`NvTyped`).

**`ReplayMemory_proofs`**

* `SnapshotHolds`, `BlendHolds`, `MemoryRestored`, `NeighboursBlend`:
  `SnapshotExact`, `BlendExact`, `Restored`, `BlendsNeighbours` for any pages,
  reservations, heap growth, generations and ticks. One invariant carries them.
  What skipping rests on is `CleanIn`: a page that has a stamp older than a
  buffer, was not written since the last poll, and lies in a buffer of the
  present layout, has in it the content it has in memory. That is kept by a
  poll, which moves stamps, by a copy, which writes the buffer, and by a
  reservation, which makes every stamp silent until the next walk (`Speaks`). It
  needs that the pages of a layout have places of their own (`AtInjective`), a
  counting argument, and that what is known was walked under one generation
  (`Known`). The restore is exact because the side threads stand still from the
  first poll to the release (`Holding`) and every page changed meanwhile is
  either blended or written since (`Taken`).

The machines of `MCHost` and `MCClock` share no state, so a step of the
composition is a step of each machine or leaves it alone (`FileSteps`,
`PlaySteps`, `OffroadSteps`, `RangesStep`, `ClockStep`), and the theorems are about
the specifications the runs check.

**Only model-checked.** Every liveness property, since fairness and `ENABLED`
are out of the prover's reach, and what the violations show. Every invariant a
passing run checks is stated by a theorem, and where the theorem has a condition
the run's instance meets it.

The library's induction theorems take an operator the provers cannot supply.
Where a proof needed induction on a number (`AtInjective`, the oldest slot of
`ChdCache`, how far a pass of the wheel's queue counts, what Offroad's cursor
comes to, the ranges an expiry keeps) it takes the least member of a set instead.

## 5. Not modelled

The map covers a small share of the repository's lines, because most of it is
code in which no order of steps can go wrong: one thread, or one pass at start.

* *Sequential data work:* the importer's disk formats, decompression and
  checksums, configuration text, the layouts of board frames, resampling and
  mixing gains, rasterisation and texture formats, the blend's arithmetic per
  word, the widescreen tables. They have tests or captures of their own and
  little state between calls.
* *Devices, windows and the GPU:* DirectInput, XInput, WASAPI, Winsock, SDL and
  the presenter are calls through to another system. Link play's one state, its
  receive budget, is kept per frame and is approximate by its own comment.
* *User interface:* the launcher and its settings model; the service menu model,
  a machine over one input that its own test drives step by step.
* *Loading and patching:* one pass over a mapped image before the game runs.
* *`audio_shutdown`:* it waits half a second for the tick and then deletes the
  locks. Nothing orders a stuck tick against it, so a model either finds that at
  once or assumes it away.
