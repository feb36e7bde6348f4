----------------------------- MODULE CabinetShell ---------------------------
(* Arctic's cabinet shell (src/src/arctic_io.c): a thread that samples the *)
(* switches, counts their edges and the coins, answers what the game asks  *)
(* for and posts the input record, in two blocks of memory it shares with  *)
(* the game without a lock.                                                *)
(*                                                                         *)
(* The game's side is external: goose copies the record when the handshake *)
(* is down and raises it, and the game asks for one thing at a time and    *)
(* waits for the answer.  Levels and edges stand for the whole record; the *)
(* positions of wheel and pedal and the outputs are left out.  A switch    *)
(* may stand for a coin and for TEST at once: nothing else tells them      *)
(* apart, and the counts of two switches never meet.                       *)
EXTENDS Naturals

CONSTANTS
    Switches,       \* the bits of the two words
    CoinUnits,      \* the units of the coin switches (P_UNITS_L, P_UNITS_R)
    TestSwitch,     \* COIN_TEST
    PerCredit,      \* P_PER_CREDIT
    MaxCredits,     \* P_MAX_CREDITS
    Price,          \* what the game spends at a time
    Nothing,        \* serve has seen no spending
    MaxSamples,     \* bound: samples that find a switch moved
    MaxAsks         \* bound: requests of the game

ShellAssumption ==
    /\ DOMAIN CoinUnits \subseteq Switches /\ TestSwitch \in Switches
    /\ \A c \in DOMAIN CoinUnits : CoinUnits[c] \in Nat
    /\ PerCredit \in Nat \ {0} /\ MaxCredits \in Nat
    /\ Price \in 1 .. MaxCredits /\ Nothing \notin Nat
    /\ MaxSamples \in Nat /\ MaxAsks \in Nat

VARIABLES
    runs,       \* s_run
    shpc,        \* where the shell's thread is
    level,      \* s_now: the switches that are closed
    edges,      \* s_close and s_open: edges not yet posted
    coins,      \* the coin switches that were closed in this sample
    credits,    \* B_CREDITS: paid and service credits
    spend,      \* what serve has still to take of a spending, or Nothing
    record,     \* the record of block B
    handshake,  \* A_HANDSHAKE
    asked,      \* the rest of block A: the game's requests
    testing,    \* s_test_requested
    goose,      \* where goose is
    heard,      \* the levels goose has and the edges it has counted
    gpc, saw,   \* where the game's own thread is, the paid credits it read
    moved,      \* ghost: the edges there were
    put, paidFor,   \* ghost: the credits taken in, and those the game got
    samples, asks

shell == <<runs, shpc, level, edges, coins, credits, spend, record, handshake,
           asked, testing, goose, heard, gpc, saw, moved, put, paidFor,
           samples, asks>>

Slots == {"paid", "service"}
Kinds == {"close", "open"}
Requests == {"lock", "subtract", "service", "clear"}
None == [s \in Switches |-> [k \in Kinds |-> 0]]
Total == credits["paid"] + credits["service"]

\* arctic_io_start posts the first sample before it starts the thread.
Init ==
    /\ runs = TRUE /\ shpc = "top"
    /\ level \in SUBSET Switches
    /\ edges = None /\ coins = {}
    /\ credits = [c \in Slots |-> 0] /\ spend = Nothing
    /\ record = [level |-> level, edges |-> None] /\ handshake = FALSE
    /\ asked = [q \in Requests |-> 0]
    /\ testing = FALSE
    /\ goose = "waits" /\ heard = [level |-> level, edges |-> None]
    /\ gpc = "free" /\ saw = 0
    /\ moved = None /\ put = 0 /\ paidFor = 0
    /\ samples = 0 /\ asks = 0

Plus(e, f) == [s \in Switches |-> [k \in Kinds |-> e[s][k] + f[s][k]]]
At(from, to) == shpc = from /\ shpc' = to

game == <<goose, heard, gpc, saw, paidFor, asks>>

-----------------------------------------------------------------------------
(* The shell's thread. *)

Leave ==
    /\ At("top", "done") /\ ~runs
    /\ UNCHANGED <<runs, level, edges, coins, credits, spend, record,
                   handshake, asked, testing, moved, put, samples, game>>

\* Nothing moved, or the time of a sample has not come.
SkipSample ==
    /\ At("top", "lock") /\ runs
    /\ UNCHANGED <<runs, level, edges, coins, credits, spend, record,
                   handshake, asked, testing, moved, put, samples, game>>

Sample(now) ==
    LET moves == [s \in Switches |->
            [close |-> IF s \in now \ level THEN 1 ELSE 0,
             open |-> IF s \in level \ now THEN 1 ELSE 0]]
    IN  /\ At("top", "coins") /\ runs
        /\ now # level /\ samples < MaxSamples /\ samples' = samples + 1
        /\ edges' = Plus(edges, moves) /\ moved' = Plus(moved, moves)
        /\ coins' = (now \ level) \cap DOMAIN CoinUnits
        /\ testing' = (testing \/ TestSwitch \in now \ level)
        /\ level' = now
        /\ UNCHANGED <<runs, credits, spend, record, handshake, asked, put,
                       game>>

\* add_credits adds first and takes back what is past the most.
AddCoin ==
    /\ shpc = "coins" /\ shpc' = "capcoin"
    /\ \E c \in coins :
          /\ credits' = [credits EXCEPT !["paid"] =
                            @ + CoinUnits[c] \div PerCredit]
          /\ put' = put + CoinUnits[c] \div PerCredit
          /\ coins' = coins \ {c}
    /\ UNCHANGED <<runs, level, edges, spend, record, handshake, asked,
                   testing, moved, samples, game>>

Past == IF Total > MaxCredits THEN Total - MaxCredits ELSE 0
Cap(slot) ==
    /\ credits' = [credits EXCEPT ![slot] = @ - Past]
    /\ put' = put - Past
CapCoin ==
    /\ At("capcoin", "coins")
    /\ Cap("paid")
    /\ UNCHANGED <<runs, level, edges, coins, spend, record, handshake, asked,
                   testing, moved, samples, game>>
CoinsDone ==
    /\ At("coins", "lock") /\ coins = {}
    /\ UNCHANGED <<runs, level, edges, coins, credits, spend, record,
                   handshake, asked, testing, moved, put, samples, game>>

\* serve: the coin lock is acknowledged and the spending looked at.
Lock ==
    /\ At("lock", "spend")
    /\ asked' = [asked EXCEPT !["lock"] = IF @ = 1 THEN 2 ELSE @]
    /\ spend' = IF asked["subtract"] = 0 THEN Nothing ELSE asked["subtract"]
    /\ UNCHANGED <<runs, level, edges, coins, credits, record, handshake,
                   testing, moved, put, samples, game>>

\* Service credits go first.
Spend(slot) ==
    /\ At("spend", "spend") /\ spend \notin {Nothing, 0}
    /\ credits[slot] > 0 /\ (slot = "paid" => credits["service"] = 0)
    /\ credits' = [credits EXCEPT ![slot] = @ - 1]
    /\ spend' = spend - 1
    /\ UNCHANGED <<runs, level, edges, coins, record, handshake, asked,
                   testing, moved, put, samples, game>>
\* Mutant of Spent: the answer is written before the credits are taken.
SpentEarly ==
    /\ At("spend", "service")
    /\ spend # Nothing
    /\ asked' = [asked EXCEPT !["subtract"] = 0] /\ spend' = Nothing
    /\ UNCHANGED <<runs, level, edges, coins, credits, record, handshake,
                   testing, moved, put, samples, game>>

Spent ==
    /\ At("spend", "service")
    /\ spend # Nothing /\ (spend = 0 \/ Total = 0)
    /\ asked' = [asked EXCEPT !["subtract"] = 0] /\ spend' = Nothing
    /\ UNCHANGED <<runs, level, edges, coins, credits, record, handshake,
                   testing, moved, put, samples, game>>
NoSpending ==
    /\ At("spend", "service") /\ spend = Nothing
    /\ UNCHANGED <<runs, level, edges, coins, credits, spend, record,
                   handshake, asked, testing, moved, put, samples, game>>

AddService ==
    /\ At("service", "capservice") /\ asked["service"] = 1
    /\ credits' = [credits EXCEPT !["service"] = @ + 1] /\ put' = put + 1
    /\ UNCHANGED <<runs, level, edges, coins, spend, record, handshake, asked,
                   testing, moved, samples, game>>
CapService ==
    /\ At("capservice", "post")
    /\ Cap("service")
    /\ asked' = [asked EXCEPT !["service"] = 0]
    /\ UNCHANGED <<runs, level, edges, coins, spend, record, handshake,
                   testing, moved, samples, game>>
NoService ==
    /\ At("service", "post") /\ asked["service"] = 0
    /\ UNCHANGED <<runs, level, edges, coins, credits, spend, record,
                   handshake, asked, testing, moved, put, samples, game>>

\* The unit clears (the counters are never anything but zero), and post when
\* goose has taken the last record.
Cleared == asked' = [asked EXCEPT !["clear"] = 0]
NoPost ==
    /\ At("post", "top") /\ Cleared
    /\ ~handshake
    /\ UNCHANGED <<runs, level, edges, coins, credits, spend, record,
                   handshake, testing, moved, put, samples, game>>
\* Mutant of Post: a record is posted whether goose has taken the last or not.
PostUnasked ==
    /\ At("post", "hand") /\ Cleared
    /\ record' = [level |-> level, edges |-> edges]
    /\ UNCHANGED <<runs, level, edges, coins, credits, spend, handshake,
                   testing, moved, put, samples, game>>

Post ==
    /\ At("post", "hand") /\ Cleared
    /\ handshake
    /\ record' = [level |-> level, edges |-> edges]
    /\ UNCHANGED <<runs, level, edges, coins, credits, spend, handshake,
                   testing, moved, put, samples, game>>
HandOver ==
    /\ At("hand", "top")
    /\ edges' = None /\ handshake' = FALSE
    /\ UNCHANGED <<runs, level, coins, credits, spend, record, asked,
                   testing, moved, put, samples, game>>

ShellStep ==
    \/ Leave \/ SkipSample \/ (\E now \in SUBSET Switches : Sample(now))
    \/ AddCoin \/ CapCoin \/ CoinsDone
    \/ Lock \/ (\E c \in Slots : Spend(c)) \/ Spent \/ NoSpending
    \/ AddService \/ CapService \/ NoService
    \/ NoPost \/ Post \/ HandOver

\* arctic_io_stop, from whichever thread ends the process.
Stop ==
    /\ runs /\ runs' = FALSE
    /\ UNCHANGED <<shpc, level, edges, coins, credits, spend, record,
                   handshake, asked, testing, moved, put, samples, game>>

-----------------------------------------------------------------------------
(* The game, as the comments of the shell describe it. *)

board == <<runs, shpc, level, edges, coins, credits, spend, record, testing,
           moved, put, samples>>

GooseCopies ==
    /\ goose = "waits" /\ ~handshake /\ goose' = "copied"
    /\ heard' = [level |-> record.level,
                 edges |-> Plus(heard.edges, record.edges)]
    /\ UNCHANGED <<board, handshake, asked, gpc, saw, paidFor, asks>>
GooseRaises ==
    /\ goose = "copied" /\ goose' = "waits"
    /\ handshake' = TRUE
    /\ UNCHANGED <<board, asked, heard, gpc, saw, paidFor, asks>>

Ask(q) ==
    /\ gpc = "free" /\ q # "subtract" /\ gpc' = q
    /\ asks < MaxAsks /\ asks' = asks + 1
    /\ asked' = [asked EXCEPT ![q] = 1]
    /\ UNCHANGED <<board, handshake, goose, heard, saw, paidFor>>

\* It reads the two kinds of credits one after the other.
ReadPaid ==
    /\ gpc = "free" /\ gpc' = "reads"
    /\ saw' = credits["paid"]
    /\ UNCHANGED <<board, handshake, asked, goose, heard, paidFor, asks>>
AskSpending ==
    /\ gpc = "reads" /\ saw' = 0
    /\ IF saw + credits["service"] >= Price /\ asks < MaxAsks
       THEN /\ gpc' = "subtract" /\ asks' = asks + 1
            /\ asked' = [asked EXCEPT !["subtract"] = Price]
       ELSE gpc' = "free" /\ UNCHANGED <<asked, asks>>
    /\ UNCHANGED <<board, handshake, goose, heard, paidFor>>

Answered(q) == asked[q] = IF q = "lock" THEN 2 ELSE 0
SeesAnswer ==
    /\ gpc \in Requests /\ Answered(gpc) /\ gpc' = "free"
    /\ paidFor' = IF gpc = "subtract" THEN paidFor + Price ELSE paidFor
    /\ asked' = [asked EXCEPT ![gpc] = 0]
    /\ UNCHANGED <<board, handshake, goose, heard, saw, asks>>

GameStep ==
    \/ GooseCopies \/ GooseRaises \/ ReadPaid \/ AskSpending \/ SeesAnswer
    \/ \E q \in Requests : Ask(q)

Next == ShellStep \/ Stop \/ GameStep

Spec == Init /\ [][Next]_shell

-----------------------------------------------------------------------------
\* Values of the variables.
ShellTypeOK ==
    /\ {runs, handshake, testing} \subseteq BOOLEAN
    /\ shpc \in {"top", "coins", "capcoin", "lock", "spend", "service",
                "capservice", "post", "hand", "done"}
    /\ level \subseteq Switches /\ coins \subseteq DOMAIN CoinUnits
    /\ {edges, record.edges, heard.edges, moved}
          \subseteq [Switches -> [Kinds -> 0 .. MaxSamples]]
    /\ credits \in [Slots -> Nat] /\ spend \in 0 .. Price \cup {Nothing}
    /\ goose \in {"waits", "copied"}
    /\ gpc \in {"free", "reads"} \cup Requests
    /\ {put, paidFor, saw} \subseteq Nat

\* Every press and every release reaches the game exactly once, in a record
\* whose levels are the ones those edges lead to (post and its handshake).
Unread == IF goose = "waits" /\ ~handshake THEN record.edges ELSE None
Bit(s, set) == IF s \in set THEN 1 ELSE 0
Counted ==
    /\ shpc # "hand" => moved = Plus(heard.edges, Plus(edges, Unread))
    /\ \A s \in Switches :
          LET old == heard.edges[s]
          IN  Bit(s, level) + moved[s]["open"] + old["close"] =
                Bit(s, heard.level) + moved[s]["close"] + old["open"]

\* No credit is lost and none is given twice, whatever coins fall while the
\* game reads the credits and spends them; past the most there is never one
\* but for the moment in which it is taken back (add_credits, serve).
Taken ==
    IF gpc # "subtract" THEN 0
    ELSE IF asked["subtract"] = 0 THEN Price
    ELSE IF spend = Nothing THEN 0 ELSE Price - spend
Credited ==
    /\ Total + Taken + paidFor = put
    /\ shpc \notin {"capcoin", "capservice"} => Total <= MaxCredits
=============================================================================
