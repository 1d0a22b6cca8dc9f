---------------------------- MODULE OracleAdapter ----------------------------
(***************************************************************************)
(* The SEP-40 price feed (contracts/oracle-adapter/src/lib.rs, math.rs):   *)
(* the admin lists assets with a deviation limit and names reporters for   *)
(* each; a reporter records a price within the limit of the one before,    *)
(* the admin any price.  A price is dated by its tick, the observation     *)
(* rounded down to the resolution; each record links to the one before it, *)
(* and prices() walks these links.                                         *)
(*                                                                         *)
(* One invocation is one step.  The admin role is that of AdminHandover.   *)
(* base and decimals, fixed at construction, matter to readers only (see   *)
(* VaultNav).                                                              *)
(***************************************************************************)
EXTENDS AdminHandover, Integers, Sequences, FiniteSetsExt

CONSTANTS
    AssetIds,          \* Asset: what can be listed
    Resolution,        \* RESOLUTION_KEY, in seconds, fixed at construction
    MaxAssets,         \* MAX_ASSETS
    MaxRecords,        \* MAX_RECORDS
    IMax,              \* i128::MAX
    MaxTime            \* bound: the model closes no ledger after this second

\* What callers pass.
CONSTANTS
    Priced, PriceInputs, TimeInputs, LimitInputs, Reporters, Successors, PauseInputs

BpsDenominator == 10000

Moments == 0 .. MaxTime
Prices == 1 .. IMax
Report == [price : Prices, previous_timestamp : Moments \cup {None}]
PriceData == [price : Prices, timestamp : Moments]

ASSUME OracleBounds ==
    /\ Resolution \in Nat \ {0} /\ MaxAssets \in Nat /\ MaxRecords \in Nat
    /\ IMax \in Nat /\ MaxTime \in Nat
ASSUME OracleInputs ==
    /\ Priced \subseteq AssetIds
    /\ PriceInputs \subseteq Int /\ \A p \in PriceInputs : p <= IMax
    /\ TimeInputs \subseteq Nat /\ LimitInputs \subseteq Nat
    /\ Reporters \subseteq Accounts /\ Successors \subseteq Accounts
    /\ PauseInputs \subseteq BOOLEAN
ASSUME NoneIsNoRecord ==
    /\ None \notin Nat
    /\ None \notin [price : Int, previous_timestamp : Nat \cup {None}]
    /\ None \notin [price : Int, timestamp : Nat]

VARIABLES
    now,               \* env.ledger().timestamp()
    paused,
    assets,            \* Assets: what is listed, in order
    config,            \* Config(asset).max_deviation_bps, None if not listed
    reporters,         \* asset |-> who has a Reporter entry for it
    report,            \* Report(asset, tick), None if there is no entry
    latest,            \* Latest(asset), None if there is no entry
    published          \* history: asset |-> tick |-> when it was recorded

listVars == <<paused, assets, config, reporters>>
priceVars == <<report, latest, published>>
vars == <<now, listVars, priceVars, handoverVars>>

-----------------------------------------------------------------------------
(* Arithmetic *)

TickOf(timestamp) == timestamp - (timestamp % Resolution)

AbsDiff(m, n) == IF m >= n THEN m - n ELSE n - m

\* Mutant of WithinLimit: the move is measured against the new price.
WithinLimit_OfNext(previous, next, maxBps) ==
    /\ AbsDiff(next, previous) * BpsDenominator <= IMax
    /\ previous * maxBps <= IMax
    /\ AbsDiff(next, previous) * BpsDenominator <= next * maxBps

\* check_price_deviation; a product that does not fit is refused like a move too
\* far.
WithinLimit(previous, next, maxBps) ==
    /\ AbsDiff(next, previous) * BpsDenominator <= IMax
    /\ previous * maxBps <= IMax
    /\ AbsDiff(next, previous) * BpsDenominator <= previous * maxBps

-----------------------------------------------------------------------------
(* Reads *)

Recorded(asset) == {t \in Moments : report[asset][t] # None}

\* price(): the exact tick, or nothing.
PriceAt(asset, timestamp) ==
    LET tick == TickOf(timestamp)
    IN  IF report[asset][tick] = None THEN None
        ELSE [price |-> report[asset][tick].price, timestamp |-> tick]

\* Mutant of PricesOf: the walk ends at the first tick nobody reported in.
PricesOf_Ticks(asset, records) ==
    LET limit == Min({records, MaxRecords})
        Walk[n \in 0 .. MaxRecords] ==
          [t \in Int |->
             IF n = 0 \/ t < 0 \/ t \notin Recorded(asset) THEN <<>>
             ELSE <<PriceAt(asset, t)>> \o Walk[n - 1][t - Resolution]]
    IN  IF latest[asset] = None THEN <<>> ELSE Walk[limit][latest[asset].timestamp]

\* prices(): up to `records` prices, from the latest along the links.
PricesOf(asset, records) ==
    LET limit == Min({records, MaxRecords})
        Walk[n \in 0 .. MaxRecords] ==
          [t \in Moments \cup {None} |->
             IF n = 0 \/ t \notin Recorded(asset) THEN <<>>
             ELSE <<PriceAt(asset, t)>> \o Walk[n - 1][report[asset][t].previous_timestamp]]
    IN  IF latest[asset] = None THEN <<>> ELSE Walk[limit][latest[asset].timestamp]

-----------------------------------------------------------------------------
Init ==
    /\ \E a \in Accounts : HandoverInit(a)
    /\ now = 0
    /\ paused = FALSE
    /\ assets = <<>>
    /\ config = [a \in AssetIds |-> None]
    /\ reporters = [a \in AssetIds |-> {}]
    /\ report = [a \in AssetIds |-> [t \in Moments |-> None]]
    /\ latest = [a \in AssetIds |-> None]
    /\ published = [a \in AssetIds |-> [t \in Moments |-> None]]

Listed(asset) == config[asset] # None

(* Prices *)

\* Mutants of Record: a second report for a tick replaces the first; the record
\* links to the tick before instead of the record before.
Record_Replaces(asset, price, timestamp, maxBps) ==
    LET last == latest[asset]
        tick == TickOf(timestamp)
    IN  /\ price > 0 /\ timestamp <= now
        /\ last # None =>
              /\ tick >= last.timestamp
              /\ maxBps # None => WithinLimit(last.price, price, maxBps)
        /\ report' = [report EXCEPT ![asset][tick] =
              [price |-> price,
               previous_timestamp |-> IF last = None THEN None ELSE last.timestamp]]
        /\ latest' = [latest EXCEPT ![asset] = [price |-> price, timestamp |-> tick]]
        /\ published' = [published EXCEPT ![asset][tick] = now]
Record_LinksTick(asset, price, timestamp, maxBps) ==
    LET last == latest[asset]
        tick == TickOf(timestamp)
    IN  /\ price > 0 /\ timestamp <= now
        /\ last # None =>
              /\ tick > last.timestamp
              /\ maxBps # None => WithinLimit(last.price, price, maxBps)
        /\ report' = [report EXCEPT ![asset][tick] =
              [price |-> price,
               previous_timestamp |-> IF last = None THEN None ELSE tick - Resolution]]
        /\ latest' = [latest EXCEPT ![asset] = [price |-> price, timestamp |-> tick]]
        /\ published' = [published EXCEPT ![asset][tick] = now]

\* record, with maxBps = None for a price no limit applies to.
Record(asset, price, timestamp, maxBps) ==
    LET last == latest[asset]
        tick == TickOf(timestamp)
    IN  /\ price > 0
        /\ timestamp <= now
        /\ last # None =>
              /\ tick > last.timestamp
              /\ maxBps # None => WithinLimit(last.price, price, maxBps)
        /\ report' = [report EXCEPT ![asset][tick] =
              [price |-> price,
               previous_timestamp |-> IF last = None THEN None ELSE last.timestamp]]
        /\ latest' = [latest EXCEPT ![asset] = [price |-> price, timestamp |-> tick]]
        /\ published' = [published EXCEPT ![asset][tick] = now]

ReportPrice(reporter, asset, price, timestamp) ==
    /\ RequireAuth(reporter)
    /\ ~paused
    /\ Listed(asset)
    /\ reporter \in reporters[asset]
    /\ Record(asset, price, timestamp, config[asset])
    /\ UNCHANGED <<now, listVars, admin, pendingAdmin, proposedBy>>

OverridePrice(asset, price, timestamp) ==
    /\ RequireAdmin
    /\ ~paused
    /\ Listed(asset)
    /\ Record(asset, price, timestamp, None)
    /\ UNCHANGED <<now, listVars, admin, pendingAdmin, proposedBy>>

(* Administration *)

AddAsset(asset, maxBps) ==
    /\ RequireAdmin
    /\ ~paused
    /\ maxBps >= 1
    /\ ~Listed(asset)
    /\ Len(assets) < MaxAssets
    /\ assets' = Append(assets, asset)
    /\ config' = [config EXCEPT ![asset] = maxBps]
    /\ UNCHANGED <<now, paused, reporters, priceVars, admin, pendingAdmin, proposedBy>>

SetMaxDeviation(asset, maxBps) ==
    /\ RequireAdmin
    /\ ~paused
    /\ maxBps >= 1
    /\ Listed(asset)
    /\ config' = [config EXCEPT ![asset] = maxBps]
    /\ UNCHANGED <<now, paused, assets, reporters, priceVars, admin, pendingAdmin, proposedBy>>

SetReporter(asset, reporter, allowed) ==
    /\ RequireAdmin
    /\ ~paused
    /\ Listed(asset)
    /\ reporters' = [reporters EXCEPT ![asset] =
                        IF allowed THEN @ \cup {reporter} ELSE @ \ {reporter}]
    /\ UNCHANGED <<now, paused, assets, config, priceVars, admin, pendingAdmin, proposedBy>>

SetPaused(p) ==
    /\ RequireAdmin
    /\ paused' = p
    /\ UNCHANGED <<now, assets, config, reporters, priceVars, admin, pendingAdmin, proposedBy>>

HandoverCall ==
    /\ \/ \E a \in Successors : ProposeAdmin(a)
       \/ AcceptAdmin
       \/ CancelAdminTransfer
    /\ UNCHANGED <<now, listVars, priceVars>>

\* The network closes a ledger, in a later second.
CloseLedger ==
    /\ now < MaxTime
    /\ now' = now + 1
    /\ UNCHANGED <<listVars, priceVars, handoverVars>>

-----------------------------------------------------------------------------
PriceCall ==
    \E a \in Priced, p \in PriceInputs, t \in TimeInputs :
        \/ \E r \in Accounts : ReportPrice(r, a, p, t)
        \/ OverridePrice(a, p, t)

ListCall ==
    \E a \in AssetIds :
        \/ \E l \in LimitInputs : AddAsset(a, l) \/ SetMaxDeviation(a, l)
        \/ \E r \in Reporters, b \in BOOLEAN : SetReporter(a, r, b)

OracleCall ==
    \/ PriceCall
    \/ ListCall
    \/ \E p \in PauseInputs : SetPaused(p)
    \/ HandoverCall

Next == OracleCall \/ CloseLedger

Spec == Init /\ [][Next]_vars

-----------------------------------------------------------------------------
(* Properties *)

\* Every variable holds a value of its type.
TypeOK ==
    /\ HandoverTypeOK
    /\ now \in Moments
    /\ paused \in BOOLEAN
    /\ config \in [AssetIds -> (Nat \ {0}) \cup {None}]
    /\ reporters \in [AssetIds -> SUBSET Accounts]
    /\ report \in [AssetIds -> [Moments -> Report \cup {None}]]
    /\ latest \in [AssetIds -> PriceData \cup {None}]
    /\ published \in [AssetIds -> [Moments -> Moments \cup {None}]]

(***************************************************************************)
(* assets() names every listed asset once and nothing else, never more     *)
(* than MAX_ASSETS, and whatever has a reporter or a price is listed: an   *)
(* asset is never listed twice under two limits, nor priced unlisted.      *)
(***************************************************************************)
ListIsExact ==
    /\ assets \in Seq(AssetIds) /\ Len(assets) <= MaxAssets
    /\ \A i, j \in DOMAIN assets : assets[i] = assets[j] => i = j
    /\ \A a \in AssetIds :
          /\ Listed(a) <=> \E i \in DOMAIN assets : assets[i] = a
          /\ reporters[a] # {} \/ latest[a] # None => Listed(a)

(***************************************************************************)
(* The latest price is the newest record, and each record links to the     *)
(* newest one before it, however many ticks were left out: following the   *)
(* links from the latest meets every record ever made.                     *)
(***************************************************************************)
Precedes(asset, s, t) ==
    /\ s < t
    /\ \A u \in Recorded(asset) : u < t => u <= s
HistoryIsLinked ==
    \A a \in AssetIds :
        /\ latest[a] = None => Recorded(a) = {}
        /\ latest[a] # None =>
              /\ latest[a].timestamp \in Recorded(a)
              /\ latest[a].price = report[a][latest[a].timestamp].price
              /\ \A t \in Recorded(a) : t <= latest[a].timestamp
        /\ \A t \in Recorded(a) :
              LET s == report[a][t].previous_timestamp
              IN  IF s = None THEN \A u \in Recorded(a) : t <= u
                  ELSE s \in Recorded(a) /\ Precedes(a, s, t)

(***************************************************************************)
(* prices(asset, n) is the n newest records, newest first, at most         *)
(* MAX_RECORDS of them; ticks nobody reported in count for nothing.  A     *)
(* record it leaves out is older than all it names, and is left out only   *)
(* if it names as many as it may.                                          *)
(***************************************************************************)
NewestFirst(asset, ps, limit) ==
    /\ Len(ps) <= limit
    /\ \A i \in DOMAIN ps :
          ps[i].timestamp \in Recorded(asset) /\ ps[i] = PriceAt(asset, ps[i].timestamp)
    /\ \A i, j \in DOMAIN ps : i < j => ps[i].timestamp > ps[j].timestamp
    /\ \A t \in Recorded(asset) :
          \/ \E i \in DOMAIN ps : ps[i].timestamp = t
          \/ Len(ps) = limit /\ \A i \in DOMAIN ps : ps[i].timestamp > t
PricesAreNewestFirst ==
    \A a \in AssetIds, n \in 0 .. MaxRecords + 1 :
        NewestFirst(a, PricesOf(a, n), Min({n, MaxRecords}))

(***************************************************************************)
(* A price moves by more than the limit in force only with the admin's     *)
(* signature, and by a reporter only for an asset it was named for.        *)
(***************************************************************************)
OnlyAdminMovesBeyondLimit ==
    [][\A a \in AssetIds : latest'[a] # latest[a] =>
          \/ signer' = admin
          \/ /\ signer' \in reporters[a]
             /\ latest[a] # None =>
                   AbsDiff(latest'[a].price, latest[a].price) * BpsDenominator
                      <= latest[a].price * config[a]]_vars

(***************************************************************************)
(* The feed is a price feed: nothing recorded is ever changed, and new     *)
(* records are dated after all others and not ahead of the clock.          *)
(***************************************************************************)
Feed == INSTANCE PriceFeed
    WITH Prices <- PriceInputs \cap Prices,
         series <- [a \in AssetIds |->
                      {[tick |-> t, price |-> report[a][t].price, published |-> published[a][t]] :
                          t \in Recorded(a)}]
ImplementsFeed == Feed!FeedSpec
=============================================================================
