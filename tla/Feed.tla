-------------------------------- MODULE Feed --------------------------------
(***************************************************************************)
(* The candles of the chart: the provider that polls them                  *)
(* (src/ui/src/utils/ChartDataProvider), the cache that feeds the day's    *)
(* statistics of the header, and the data feed that the charting library   *)
(* calls.  A candle is known by the trades of its minute; minutes without  *)
(* a trade have none.  The library asks a symbol's bars before it          *)
(* subscribes to it, one call at a time, and may lose interest at any      *)
(* moment.  A call is served when it is sent.  The page is closed before a *)
(* day is over, so no candle is dropped for its age.                       *)
(***************************************************************************)
EXTENDS Integers, FiniteSetsExt, SequencesExt

CONSTANTS
    Uids,        \* symbols; a uid adds the resolution, which is always one minute
    MaxCandles,  \* bound on the candles of a symbol
    MaxTrades,   \* bound on the trades of a symbol
    MaxChains    \* bound on the chains of timers

ASSUME FeedAssumption == {MaxCandles, MaxTrades, MaxChains} \subseteq Nat \ {0}

VARIABLES
    candles,  \* the node: trades of each candle, of each symbol
    lib,      \* the library: "idle", "asked" for bars, "ready", "on"
    bars,     \* the bars call of a symbol
    subs,     \* subscribers: [callback, map, due], of some symbols
    orphans,  \* last price of a deleted subscriber whose update is still due
    chains,   \* the chains of timers: [at, calls]
    pulse,    \* pulseTimeout: whose timer it is a handle of, or 0
    stats,    \* store: dayStats.lastPrice
    raced,    \* history: symbols of which two calls were under way at once
    failed    \* history: a scan failed

feedVars == <<candles, lib, bars, subs, orphans, chains, pulse, stats, raced, failed>>

None == <<>>
NoUpdate == -1

-----------------------------------------------------------------------------
(* The cache.                                                              *)

\* The candles from the first on, as the node has them.
Candles(u, first) == [t \in first .. Len(candles[u]) |-> candles[u][t]]

Newest(map) == Max({0} \cup DOMAIN map)

NewSub == [callback |-> FALSE, map |-> None, due |-> FALSE]

\* getSubscriberAt: a deleted subscriber comes back without a callback.
SubscriberAt(u) == IF u \in DOMAIN subs THEN subs[u] ELSE NewSub

Over(f, g) == [x \in DOMAIN f \cup DOMAIN g |-> IF x \in DOMAIN f THEN f[x] ELSE g[x]]
With(u, sub) == Over([v \in {u} |-> sub], subs)

\* fetchCandles, once the answer is there; an empty one adds nothing.
Added(u, answer) ==
    IF answer = None THEN subs
    ELSE With(u, [SubscriberAt(u) EXCEPT !.map = Over(answer, @), !.due = TRUE])

\* Mutant: the two last candles are swapped.
SecondPrice(map) == IF Cardinality(DOMAIN map) < 2 THEN 0 ELSE map[Newest(map) - 1]

\* The last price of updateDaily is that of the newest candle, unless it is
\* the only one (lastTwo).
LastPrice(map) == IF Cardinality(DOMAIN map) < 2 THEN 0 ELSE map[Newest(map)]

-----------------------------------------------------------------------------
(* The pulse.                                                              *)

Stopped == [at |-> "none", calls |-> None]

\* Mutant: the candle that is growing is not asked for again.
CallAfter(u, map) ==
    Candles(u, Newest(map) + 1)

CallFor(u, map) ==
    Candles(u, Max({1, Newest(map)}))

\* scanSubscribers: one call for each subscriber.
ScanOf(s) == [at |-> "scan", calls |-> [u \in DOMAIN s |-> CallFor(u, s[u].map)]]

UnderWay(u) ==
    bars[u] # None \/ \E k \in DOMAIN chains : u \in DOMAIN chains[k].calls

\* start: nothing but the handle tells that a scan is under way, and the
\* first scan has none.
Start(s) ==
    IF pulse # 0 THEN UNCHANGED <<chains, raced>>
    ELSE \E k \in DOMAIN chains :
           /\ chains[k] = Stopped
           /\ \A j \in 1 .. k - 1 : chains[j] # Stopped
           /\ chains' = [chains EXCEPT ![k] = ScanOf(s)]
           /\ raced' = raced \cup {u \in DOMAIN s : UnderWay(u)}

\* Mutant: the handle is kept.
ClearOnly ==
    /\ pulse' = pulse
    /\ chains' = IF pulse # 0 /\ chains[pulse].at = "timer"
                 THEN [chains EXCEPT ![pulse] = Stopped] ELSE chains

\* stop: a scan that is under way sets its timer all the same.
Stop ==
    /\ pulse' = 0
    /\ chains' = IF pulse # 0 /\ chains[pulse].at = "timer"
                 THEN [chains EXCEPT ![pulse] = Stopped] ELSE chains

\* The timer of a chain.
Pulse(k) ==
    /\ chains[k].at = "timer"
    /\ IF subs = None
       THEN pulse' = k /\ UNCHANGED <<chains, raced>>
       ELSE /\ chains' = [chains EXCEPT ![k] = ScanOf(subs)]
            /\ raced' = raced \cup {u \in DOMAIN subs : UnderWay(u)}
            /\ UNCHANGED pulse
    /\ UNCHANGED <<candles, lib, bars, subs, orphans, stats, failed>>

Without(c, u) == [v \in DOMAIN c.calls \ {u} |-> c.calls[v]]

ScanSettled(k, u) ==
    LET rest == Without(chains[k], u)
    IN  /\ subs' = Added(u, chains[k].calls[u])
        /\ chains' = [chains EXCEPT ![k] =
                        CASE rest # None            -> [@ EXCEPT !.calls = rest]
                          [] rest = None /\ @.at = "scan"   -> [at |-> "timer", calls |-> None]
                          [] rest = None /\ @.at = "failed" -> Stopped]
        /\ pulse' = IF rest = None /\ chains[k].at = "scan" THEN k ELSE pulse
        /\ UNCHANGED <<candles, lib, bars, orphans, stats, raced, failed>>

\* Promise.all is rejected: no timer is set, the handle stays as it is.
ScanFailed(k, u) ==
    LET rest == Without(chains[k], u)
    IN  /\ ~ failed
        /\ failed' = TRUE
        /\ chains' = [chains EXCEPT ![k] = IF rest = None THEN Stopped
                                           ELSE [at |-> "failed", calls |-> rest]]
        /\ UNCHANGED <<candles, lib, bars, subs, orphans, pulse, stats, raced>>

-----------------------------------------------------------------------------
(* The library, and the widget that is mounted, given another symbol or    *)
(* removed.                                                                *)

GetBars(u) ==
    /\ lib[u] = "idle"
    /\ bars[u] = None
    /\ lib' = [lib EXCEPT ![u] = "asked"]
    /\ bars' = [bars EXCEPT ![u] = <<Candles(u, 1)>>]
    /\ raced' = IF UnderWay(u) THEN raced \cup {u} ELSE raced
    /\ UNCHANGED <<candles, subs, orphans, chains, pulse, stats, failed>>

BarsSettled(u) ==
    /\ bars[u] # None
    /\ bars' = [bars EXCEPT ![u] = None]
    /\ subs' = Added(u, bars[u][1])
    /\ lib' = IF lib[u] = "asked" THEN [lib EXCEPT ![u] = "ready"] ELSE lib
    /\ UNCHANGED <<candles, orphans, chains, pulse, stats, raced, failed>>

BarsFailed(u) ==
    /\ bars[u] # None
    /\ bars' = [bars EXCEPT ![u] = None]
    /\ lib' = IF lib[u] = "asked" THEN [lib EXCEPT ![u] = "idle"] ELSE lib
    /\ UNCHANGED <<candles, subs, orphans, chains, pulse, stats, raced, failed>>

\* Another symbol is shown before the bars are there, or used.
LoseInterest(u) ==
    /\ lib[u] \in {"asked", "ready"}
    /\ lib' = [lib EXCEPT ![u] = "idle"]
    /\ UNCHANGED <<candles, bars, subs, orphans, chains, pulse, stats, raced, failed>>

Subscribe(u) ==
    /\ lib[u] = "ready"
    /\ lib' = [lib EXCEPT ![u] = "on"]
    /\ subs' = With(u, [SubscriberAt(u) EXCEPT !.callback = TRUE])
    /\ Start(subs')
    /\ UNCHANGED <<candles, bars, orphans, pulse, stats, failed>>

\* A call under way ticks on the callback of the subscriber that was deleted.
Unsubscribe(u) ==
    /\ lib[u] = "on"
    /\ lib' = [lib EXCEPT ![u] = "idle"]
    /\ subs' = [v \in DOMAIN subs \ {u} |-> subs[v]]
    /\ orphans' = IF subs[u].due THEN [orphans EXCEPT ![u] = LastPrice(subs[u].map)] ELSE orphans
    /\ IF subs' = None THEN Stop ELSE UNCHANGED <<chains, pulse>>
    /\ UNCHANGED <<candles, bars, stats, raced, failed>>

-----------------------------------------------------------------------------
(* The update, 250 ms after the last change of a cache.                    *)

UpdateDaily(u) ==
    /\ u \in DOMAIN subs /\ subs[u].due
    /\ subs' = [subs EXCEPT ![u].due = FALSE]
    /\ stats' = [stats EXCEPT ![u] = LastPrice(subs[u].map)]
    /\ UNCHANGED <<candles, lib, bars, orphans, chains, pulse, raced, failed>>

\* A deleted subscriber's timer is not cleared.
OrphanUpdates(u) ==
    /\ orphans[u] # NoUpdate
    /\ orphans' = [orphans EXCEPT ![u] = NoUpdate]
    /\ stats' = [stats EXCEPT ![u] = orphans[u]]
    /\ UNCHANGED <<candles, lib, bars, subs, chains, pulse, raced, failed>>

-----------------------------------------------------------------------------
\* A trade, in the minute of the newest candle or later.
Trade(u) ==
    /\ SumFunction(candles[u]) < MaxTrades
    /\ \/ /\ candles[u] # <<>>
          /\ candles' = [candles EXCEPT ![u][Len(candles[u])] = @ + 1]
       \/ /\ Len(candles[u]) < MaxCandles
          /\ candles' = [candles EXCEPT ![u] = Append(@, 1)]
    /\ UNCHANGED <<lib, bars, subs, orphans, chains, pulse, stats, raced, failed>>

FeedInit ==
    /\ candles = [u \in Uids |-> <<>>]
    /\ lib = [u \in Uids |-> "idle"]
    /\ bars = [u \in Uids |-> None]
    /\ subs = None
    /\ orphans = [u \in Uids |-> NoUpdate]
    /\ chains = [k \in 1 .. MaxChains |-> Stopped]
    /\ pulse = 0
    /\ stats = [u \in Uids |-> 0]
    /\ raced = {}
    /\ failed = FALSE

Scans(k) == Pulse(k) \/ \E u \in DOMAIN chains[k].calls : ScanSettled(k, u)
Updates(u) == UpdateDaily(u) \/ OrphanUpdates(u)

FeedNext ==
    \/ \E u \in Uids : \/ Trade(u)
                       \/ GetBars(u) \/ BarsSettled(u) \/ BarsFailed(u)
                       \/ LoseInterest(u) \/ Subscribe(u) \/ Unsubscribe(u)
                       \/ Updates(u)
    \/ \E k \in 1 .. MaxChains : \/ Scans(k)
                                 \/ \E u \in DOMAIN chains[k].calls : ScanFailed(k, u)

\* Timers fire and promises are settled; trades and the library owe nothing.
\* 250 ms pass between two answers, which come a second apart.
FeedFairness ==
    /\ \A k \in 1 .. MaxChains : WF_feedVars(Scans(k))
    /\ \A u \in Uids : WF_feedVars(Updates(u))

FeedSpec == FeedInit /\ [][FeedNext]_feedVars /\ FeedFairness

-----------------------------------------------------------------------------
(* Properties.                                                             *)

FeedTypeOK ==
    /\ \A u \in Uids : candles[u] \in BoundedSeq(1 .. MaxTrades, MaxCandles)
    /\ lib \in [Uids -> {"idle", "asked", "ready", "on"}]
    /\ DOMAIN subs \subseteq Uids
    /\ \A k \in DOMAIN chains : chains[k].at \in {"none", "timer", "scan", "failed"}
    /\ pulse \in 0 .. MaxChains

\* As long as two calls for a symbol were never under way at once, every
\* candle of its cache but the newest is as it will stay, and no answer under
\* way is older than the cache, so that what the callback gets never goes
\* back.  The code does not prevent such calls: a second chain of timers
\* starts while the first scan is under way, and bars are asked beside the
\* scans.  scanSubscribers, fetchCandles.
FeedIsConsistent ==
    /\ FeedTypeOK
    /\ \A u \in DOMAIN subs \ raced :
         LET map == subs[u].map
         IN  /\ \A t \in DOMAIN map : t < Newest(map) => map[t] = candles[u][t]
             /\ \A k \in DOMAIN chains : u \in DOMAIN chains[k].calls =>
                  LET answer == chains[k].calls[u]
                  IN  /\ answer # None => Newest(answer) >= Newest(map)
                      /\ \A t \in DOMAIN answer \cap DOMAIN map : answer[t] >= map[t]

\* Whatever the library did before, a symbol it keeps subscribed is polled
\* for ever, unless a scan failed: then the handle of the dead chain may keep
\* start from beginning another.  start, stop, scanSubscribers.
PulseBeats ==
    \A u \in Uids :
      []<>(\/ lib[u] # "on" \/ failed
           \/ \E k \in DOMAIN chains : u \in DOMAIN chains[k].calls)

\* The header catches up with the market of a symbol that stays subscribed:
\* when there are two candles, its last price is that of the newest, even
\* after the late update of a deleted subscriber.  updateDaily.
StatsCatchUp ==
    \A u \in Uids :
      []<>(\/ lib[u] # "on" \/ failed
           \/ Len(candles[u]) < 2
           \/ stats[u] = candles[u][Len(candles[u])])
=============================================================================
