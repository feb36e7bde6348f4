------------------------------- MODULE MCHost --------------------------------
(* The host's machines that share no state, each on its own: machine       *)
(* says which of them a behaviour is about.                                *)
EXTENDS IrqMask, Sequences

CONSTANTS logic, drawer, isr
TwoGames == {logic, drawer}
OneSide == {isr}

\* What the importer plans to read.
PlansDef == {<<1, 2, 3>>, <<3, 1, 2, 1>>}

\* Offroad's sounds: one of a frame, one of three with a loop inside it.
CONSTANTS click, skid
SamplesDef == {click, skid}
LengthDef == [b \in SamplesDef |-> IF b = click THEN 1 ELSE 3]
AttrsDef ==
    {[sample |-> skid, loops |-> 2, point |-> 1, rate |-> 1],
     [sample |-> click, loops |-> 0, point |-> 4, rate |-> 5]}
ChangesDef ==
    {[mask |-> {"playing"}, playing |-> TRUE, position |-> 0],
     [mask |-> {"playing"}, playing |-> FALSE, position |-> 0],
     [mask |-> {"position", "playing"}, playing |-> TRUE, position |-> 2],
     [mask |-> {"position", "rate"}, rate |-> 3, position |-> 3],
     [mask |-> {"loops", "point"}, loops |-> 1, point |-> 0, position |-> 0]}

\* A coin of Arctic's cabinet buys two credits.
CONSTANT coin
UnitsDef == [c \in {coin} |-> 2]

CONSTANTS
    NvThreads, Writer, Leavers, MaxWrites, Absent, NvNobody,
    Addresses, ExMax, ExTtl, LastExpiry,
    Hunks, Bad, NSlots, Decoders, Plans, Window, Look, NoSlot, Torn,
    Folders, MaxFaults,
    NVoices, Buffers, Banks, NoBank,
    Presenters, Armer, DumpLocks, GameLocks, NoOne, MaxHandles, MaxReports,
    OrVoices, Samples, NoSample, LengthOf, Attrs, Changes, Sub, MaxDone, Stall,
    ElapsedMax, Second, Block, MaxCalls,
    Switches, CoinUnits, TestSwitch, PerCredit, MaxCredits, Price, Nothing,
    MaxSamples, MaxAsks

VARIABLES
    machine,
    mem, dirty, save, temp, using, npc, leaver, last, met,
    ex, exNow, stepped,
    slot, bytes, lru, where, todo, plan, planAt, planSub, stop, dpc, rd,
    dest, part, old, ipc, k, found, had, whole, faults,
    voice, buffer, allotted, mixing, freeing,
    handles, opened, watched, swapTid, swaps, owner, dump, suspended, reported,
    sound, allocated, idle, mixer, reading, loaded, calls,
    runs, shpc, level, edges, coins, credits, spend, record, handshake, asked,
    testing, goose, heard, gpc, saw, moved, put, paidFor, samples, asks

Nv == INSTANCE NvramStore
Ex == INSTANCE ExcludeList
Ch == INSTANCE ChdCache
Im == INSTANCE ImportPlace
Vo == INSTANCE Voices
Wd == INSTANCE Watchdog
Or == INSTANCE OffroadVoices
Sh == INSTANCE CabinetShell

ASSUME HostAssumption ==
    /\ Nv!NvAssumption /\ Ex!ExcludeAssumption
    /\ Ch!ChdAssumption /\ Im!ImportAssumption
    /\ Vo!VoicesAssumption /\ Wd!WatchdogAssumption
    /\ Or!OffroadAssumption /\ Sh!ShellAssumption

nvram == <<mem, dirty, save, temp, using, npc, leaver, last, met>>
ranges == <<ex, exNow, stepped>>
cache == <<slot, bytes, lru, where, todo, plan, planAt, planSub, stop, dpc, rd>>
import == <<dest, part, old, ipc, k, found, had, whole, faults>>
voices == <<voice, buffer, allotted, mixing, freeing>>
watchdog ==
    <<handles, opened, watched, swapTid, swaps, owner, dump, suspended, reported>>
offroad == <<sound, allocated, idle, mixer, reading, loaded, calls>>
shell == <<runs, shpc, level, edges, coins, credits, spend, record, handshake,
           asked, testing, goose, heard, gpc, saw, moved, put, paidFor,
           samples, asks>>
hostVars == <<machine, nvram, ranges, cache, import, voices, watchdog, vars,
              offroad, shell>>

HostInit ==
    /\ machine \in {"nvram", "exclude", "chd", "import", "voices", "watchdog",
                    "irq", "offroad", "shell"}
    /\ Nv!Init /\ Ex!Init /\ Ch!Init /\ Im!Init /\ Vo!Init /\ Wd!Init /\ Init
    /\ Or!Init /\ Sh!Init
    /\ machine # "chd" => rd.hunk = 1
    /\ machine # "import" => had = {}
    /\ machine # "shell" => level = {}

\* All the machines but the one that steps stand still.
Saving(A) == machine = "nvram" /\ A
    /\ UNCHANGED <<machine, ranges, cache, import, voices, watchdog, vars,
                   offroad, shell>>
Excluding(A) == machine = "exclude" /\ A
    /\ UNCHANGED <<machine, nvram, cache, import, voices, watchdog, vars,
                   offroad, shell>>
Decoding(A) == machine = "chd" /\ A
    /\ UNCHANGED <<machine, nvram, ranges, import, voices, watchdog, vars,
                   offroad, shell>>
Placing(A) == machine = "import" /\ A
    /\ UNCHANGED <<machine, nvram, ranges, cache, voices, watchdog, vars,
                   offroad, shell>>
Sounding(A) == machine = "voices" /\ A
    /\ UNCHANGED <<machine, nvram, ranges, cache, import, watchdog, vars,
                   offroad, shell>>
Watching(A) == machine = "watchdog" /\ A
    /\ UNCHANGED <<machine, nvram, ranges, cache, import, voices, vars,
                   offroad, shell>>
Masking(A) == machine = "irq" /\ A
    /\ UNCHANGED <<machine, nvram, ranges, cache, import, voices, watchdog,
                   offroad, shell>>
Mixing(A) == machine = "offroad" /\ A
    /\ UNCHANGED <<machine, nvram, ranges, cache, import, voices, watchdog,
                   vars, shell>>
Serving(A) == machine = "shell" /\ A
    /\ UNCHANGED <<machine, nvram, ranges, cache, import, voices, watchdog,
                   vars, offroad>>

HostNext ==
    \/ Saving(Nv!Next) \/ Excluding(Ex!Next) \/ Decoding(Ch!Next)
    \/ Placing(Im!Next) \/ Sounding(Vo!Next) \/ Watching(Wd!Next)
    \/ Masking(Next) \/ Mixing(Or!Next) \/ Serving(Sh!Next)

\* The fairness of the modules, each in its own behaviours.
HostSpec ==
    /\ HostInit /\ [][HostNext]_hostVars
    /\ WF_hostVars(Decoding(Ch!Reading))
    /\ \A d \in Decoders : WF_hostVars(Decoding(Ch!DecoderStep(d)))
    /\ SF_hostVars(Watching(Wd!DumpStep))
    /\ \A p \in Presenters, l \in GameLocks :
          WF_hostVars(Watching(Wd!Drops(p, l)))
    /\ WF_hostVars(Mixing(Or!Elapse)) /\ WF_hostVars(Mixing(Or!GetAttr))
    /\ WF_hostVars(Mixing(Or!MixStep))

\* The types of the modules.
HostTypeOK ==
    /\ Nv!NvTypeOK /\ Ex!ExTypeOK /\ Ch!ChdTypeOK /\ Im!ImportTypeOK
    /\ Vo!VoicesTypeOK /\ Wd!WatchdogTypeOK /\ TypeOK
    /\ Or!OffroadTypeOK /\ Sh!ShellTypeOK

\* What the modules state of their own behaviours.
SavesNewest == Nv!SavesNewest
FoundWhileFresh == Ex!FoundWhileFresh
RightHunk == Ch!RightHunk
ReadEnds == Ch!ReadEnds
Placed == Im!Placed
MixesLive == Vo!MixesLive
HandleStays == Wd!HandleStays
Resumed == Wd!Resumed
ReadsInside == Or!ReadsInside
SamePace == Or!SamePace
Retires == Or!Retires
Counted == Sh!Counted
Credited == Sh!Credited
=============================================================================
