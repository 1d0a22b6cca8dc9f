------------------------- MODULE OracleAdapterProofs -------------------------
(***************************************************************************)
(* The price feed, for any assets, resolution, limits and reporters: its   *)
(* history is linked, it implements PriceFeed and answers with its newest  *)
(* entry, only the admin moves a price beyond the limit, and the admin     *)
(* role is handed over as AdminHandover says.                              *)
(***************************************************************************)
EXTENDS OracleAdapter, WellFoundedInduction, TLAPS

\* The types of what prices are recorded in, and of everything else.
PriceTypes ==
    /\ report \in [AssetIds -> [Moments -> Report \cup {None}]]
    /\ latest \in [AssetIds -> PriceData \cup {None}]
    /\ published \in [AssetIds -> [Moments -> Moments \cup {None}]]
ListTypes ==
    /\ HandoverTypeOK
    /\ now \in Moments
    /\ paused \in BOOLEAN
    /\ config \in [AssetIds -> (Nat \ {0}) \cup {None}]
    /\ reporters \in [AssetIds -> SUBSET Accounts]

\* Every record is one of a tick, a price somebody reported and the moment it was
\* recorded.
RecordsAreReports ==
    \A a \in AssetIds : \A t \in Recorded(a) :
        /\ TickOf(t) = t
        /\ report[a][t].price \in PriceInputs
        /\ published[a][t] \in Moments

OracleInv == ListTypes /\ PriceTypes /\ HistoryIsLinked /\ RecordsAreReports

-----------------------------------------------------------------------------
LEMMA NoneIsNoData == None \notin Report /\ None \notin PriceData /\ None \notin Nat
BY NoneIsNoRecord DEF Report, PriceData, Prices, Moments

LEMMA TickIsPast ==
    ASSUME NEW t \in Moments
    PROVE  TickOf(t) \in Moments /\ TickOf(t) <= t
BY OracleBounds DEF TickOf, Moments

\* Rounding down to the resolution, twice, is rounding down once.
LEMMA RoundsOnce ==
    ASSUME NEW n \in Nat, NEW r \in Nat \ {0}
    PROVE  (n - (n % r)) % r = 0
<1>1. n = r * (n \div r) + (n % r) /\ n \div r \in Nat /\ n % r \in 0 .. r - 1
  BY SMT
<1> DEFINE q == n \div r
           x == r * q
<1>2. x \in Nat /\ n - (n % r) = x
  <2>1. r * (n \div r) \in Nat
    BY <1>1, SMT
  <2> QED
    BY <1>1, <2>1
<1>3. x = r * (x \div r) + (x % r) /\ x \div r \in Nat /\ x % r \in 0 .. r - 1
  BY <1>2, SMT
<1>4. r * (q - (x \div r)) = x % r
  <2> DEFINE d == x \div r
  <2>1. r * d \in Int /\ r * q = r * d + (x % r) /\ d \in Int /\ q \in Int
    BY <1>1, <1>3, SMT
  <2> HIDE DEF q, x, d
  <2>2. r * (q - d) = r * q - r * d
    BY <2>1, SMT
  <2> QED
    BY <1>3, <2>1, <2>2 DEF d
<1>5. q - (x \div r) \in Int /\ q - (x \div r) <= 0
  <2>1. CASE q - (x \div r) >= 1
    <3>1. r * (q - (x \div r)) >= r
      BY <1>1, <1>3, <2>1, SMT
    <3> QED
      BY <1>3, <1>4, <3>1
  <2> QED
    BY <1>1, <1>3, <2>1
<1>6. r * (q - (x \div r)) <= 0
  BY <1>5, SMT
<1> QED
  BY <1>2, <1>3, <1>4, <1>6

LEMMA TickIsTick ==
    ASSUME NEW t \in Moments
    PROVE  TickOf(TickOf(t)) = TickOf(t)
<1>1. t \in Nat /\ Resolution \in Nat \ {0} /\ t % Resolution \in Int
  BY OracleBounds DEF Moments
<1>2. (t - (t % Resolution)) % Resolution = 0
  BY <1>1, RoundsOnce
<1> QED
  BY <1>1, <1>2 DEF TickOf

\* What a successful record did, in terms of its tick.
LEMMA RecordWrites ==
    ASSUME ListTypes, PriceTypes, now' = now,
           NEW a \in Priced, NEW p \in PriceInputs, NEW t \in TimeInputs, NEW m,
           Record(a, p, t, m)
    PROVE  \E tick \in Moments, previous \in Moments \cup {None} :
              /\ a \in AssetIds /\ p \in Prices /\ tick <= now /\ TickOf(tick) = tick
              /\ previous = IF latest[a] = None THEN None ELSE latest[a].timestamp
              /\ latest[a] # None => tick > latest[a].timestamp
              /\ report' = [report EXCEPT ![a][tick] =
                               [price |-> p, previous_timestamp |-> previous]]
              /\ latest' = [latest EXCEPT ![a] = [price |-> p, timestamp |-> tick]]
              /\ published' = [published EXCEPT ![a][tick] = now]
<1> DEFINE previous == IF latest[a] = None THEN None ELSE latest[a].timestamp
<1>0. p > 0 /\ t <= now
  BY DEF Record
<1>1. a \in AssetIds /\ p \in Prices
  BY <1>0, OracleBounds, OracleInputs DEF Prices
<1>2. t \in Moments
  <2>1. t \in Nat /\ now \in 0 .. MaxTime
    BY OracleInputs DEF ListTypes, Moments
  <2> QED
    BY <1>0, <2>1, OracleBounds DEF Moments
<1>3. TickOf(t) \in Moments /\ TickOf(t) <= now
  <2>1. TickOf(t) \in Moments /\ TickOf(t) <= t
    BY <1>2, TickIsPast
  <2>2. now \in Moments
    BY DEF ListTypes
  <2> QED
    BY <1>0, <1>2, <2>1, <2>2, OracleBounds DEF Moments
<1>4. previous \in Moments \cup {None}
  BY <1>1 DEF PriceTypes, PriceData
<1>5. TickOf(TickOf(t)) = TickOf(t)
  BY <1>2, TickIsTick
<1> QED
  BY <1>1, <1>3, <1>4, <1>5 DEF Record

\* One record more.
LEMMA RecordedGrows ==
    ASSUME PriceTypes, NEW a \in AssetIds, NEW tick \in Moments, NEW r \in Report,
           report' = [report EXCEPT ![a][tick] = r]
    PROVE  /\ Recorded(a)' = Recorded(a) \cup {tick}
           /\ report'[a][tick] = r
           /\ \A t \in Moments : t # tick => report'[a][t] = report[a][t]
           /\ \A b \in AssetIds : b # a =>
                 report'[b] = report[b] /\ Recorded(b)' = Recorded(b)
<1>1. /\ report'[a][tick] = r
      /\ \A t \in Moments : t # tick => report'[a][t] = report[a][t]
      /\ \A b \in AssetIds : b # a => report'[b] = report[b]
  BY DEF PriceTypes
<1> QED
  BY <1>1, NoneIsNoData DEF Recorded

LEMMA RecordKeepsTypes ==
    ASSUME ListTypes, PriceTypes, now' = now,
           NEW a \in Priced, NEW p \in PriceInputs, NEW t \in TimeInputs, NEW m,
           Record(a, p, t, m)
    PROVE  PriceTypes'
<1>1. PICK tick \in Moments, previous \in Moments \cup {None} :
              /\ a \in AssetIds /\ p \in Prices /\ tick <= now
              /\ report' = [report EXCEPT ![a][tick] =
                               [price |-> p, previous_timestamp |-> previous]]
              /\ latest' = [latest EXCEPT ![a] = [price |-> p, timestamp |-> tick]]
              /\ published' = [published EXCEPT ![a][tick] = now]
  BY RecordWrites
<1>2. [price |-> p, previous_timestamp |-> previous] \in Report
  BY <1>1 DEF Report
<1>3. [price |-> p, timestamp |-> tick] \in PriceData
  BY <1>1 DEF PriceData
<1>4. report' \in [AssetIds -> [Moments -> Report \cup {None}]]
  BY <1>1, <1>2 DEF PriceTypes
<1>5. latest' \in [AssetIds -> PriceData \cup {None}]
  BY <1>1, <1>3 DEF PriceTypes
<1>6. published' \in [AssetIds -> [Moments -> Moments \cup {None}]]
  BY <1>1 DEF PriceTypes, ListTypes
<1> QED
  BY <1>4, <1>5, <1>6 DEF PriceTypes

\* The history of one asset is linked (the body of HistoryIsLinked).
LinkedTo(a, last) ==
    /\ last = None => Recorded(a) = {}
    /\ last # None =>
          /\ last.timestamp \in Recorded(a)
          /\ last.price = report[a][last.timestamp].price
          /\ \A t \in Recorded(a) : t <= last.timestamp
    /\ \A t \in Recorded(a) :
          LET s == report[a][t].previous_timestamp
          IN  IF s = None THEN \A u \in Recorded(a) : t <= u
              ELSE s \in Recorded(a) /\ Precedes(a, s, t)

LEMMA RecordKeepsLinks ==
    ASSUME OracleInv, now' = now,
           NEW a \in Priced, NEW p \in PriceInputs, NEW t \in TimeInputs, NEW m,
           Record(a, p, t, m)
    PROVE  HistoryIsLinked' /\ RecordsAreReports'
<1>0. ListTypes /\ PriceTypes
  BY DEF OracleInv
<1>1. PICK tick \in Moments, previous \in Moments \cup {None} :
              /\ a \in AssetIds /\ p \in Prices /\ tick <= now /\ TickOf(tick) = tick
              /\ previous = IF latest[a] = None THEN None ELSE latest[a].timestamp
              /\ latest[a] # None => tick > latest[a].timestamp
              /\ report' = [report EXCEPT ![a][tick] =
                               [price |-> p, previous_timestamp |-> previous]]
              /\ latest' = [latest EXCEPT ![a] = [price |-> p, timestamp |-> tick]]
              /\ published' = [published EXCEPT ![a][tick] = now]
  BY <1>0, RecordWrites
<1> DEFINE r == [price |-> p, previous_timestamp |-> previous]
<1>2. r \in Report
  BY <1>1 DEF Report
<1>3. /\ Recorded(a)' = Recorded(a) \cup {tick}
      /\ report'[a][tick] = r
      /\ \A u \in Moments : u # tick => report'[a][u] = report[a][u]
      /\ \A b \in AssetIds : b # a =>
            report'[b] = report[b] /\ Recorded(b)' = Recorded(b)
  BY <1>0, <1>1, <1>2, RecordedGrows
<1>4. /\ latest'[a] = [price |-> p, timestamp |-> tick]
      /\ \A b \in AssetIds : b # a => latest'[b] = latest[b]
  BY <1>0, <1>1 DEF PriceTypes
<1>5. latest'[a] # None
  BY <1>1, <1>4, NoneIsNoData DEF PriceData
<1>6. LinkedTo(a, latest[a])
  BY <1>1 DEF OracleInv, HistoryIsLinked, LinkedTo
<1>7. \A u \in Recorded(a) : u \in Moments /\ u < tick
  <2>1. CASE latest[a] = None
    BY <1>6, <2>1 DEF LinkedTo
  <2>2. CASE latest[a] # None
    <3>1. latest[a].timestamp \in Moments
      BY <1>0, <1>1, <2>2 DEF PriceTypes, PriceData
    <3> QED
      BY <1>1, <1>6, <2>2, <3>1 DEF LinkedTo, Recorded, Moments
  <2> QED
    BY <2>1, <2>2
<1>8. /\ latest'[a].timestamp \in Recorded(a)'
      /\ latest'[a].price = report'[a][latest'[a].timestamp].price
      /\ \A u \in Recorded(a)' : u <= latest'[a].timestamp
  BY <1>3, <1>4, <1>7 DEF Moments
<1>9. ASSUME NEW u \in Recorded(a)'
      PROVE  LET s == report'[a][u].previous_timestamp
             IN  IF s = None THEN \A v \in Recorded(a)' : u <= v
                 ELSE /\ s \in Recorded(a)' /\ s < u
                     /\ \A v \in Recorded(a)' : v < u => v <= s
  <2>1. CASE u = tick
    <3>1. report'[a][u].previous_timestamp = previous
      BY <1>3, <2>1
    <3>2. CASE latest[a] = None
      BY <1>1, <1>3, <1>6, <2>1, <3>1, <3>2 DEF LinkedTo, Moments
    <3>3. CASE latest[a] # None
      <4>1. /\ previous = latest[a].timestamp /\ previous \in Recorded(a)
            /\ \A v \in Recorded(a) : v <= previous
        BY <1>1, <1>6, <3>3 DEF LinkedTo
      <4>2. previous # None
        BY <1>7, <4>1, NoneIsNoData DEF Moments
      <4> QED
        BY <1>3, <1>7, <2>1, <3>1, <4>1, <4>2 DEF Precedes, Moments
    <3> QED
      BY <3>2, <3>3
  <2>2. CASE u # tick
    <3>1. u \in Recorded(a) /\ report'[a][u] = report[a][u]
      BY <1>3, <1>7, <2>2
    <3>2. LET s == report[a][u].previous_timestamp
          IN  IF s = None THEN \A v \in Recorded(a) : u <= v
              ELSE s \in Recorded(a) /\ Precedes(a, s, u)
      BY <1>6, <3>1 DEF LinkedTo
    <3>3. \A v \in Recorded(a)' : v \in Recorded(a) \/ v = tick
      BY <1>3
    <3>4. u < tick /\ u \in Moments
      BY <1>7, <3>1
    <3>5. \A v \in Recorded(a)' : v < u => v \in Recorded(a)
      BY <3>3, <3>4, OracleBounds DEF Moments
    <3>6. \A v \in Recorded(a)' : (\A w \in Recorded(a) : u <= w) => u <= v
      BY <3>3, <3>4, OracleBounds DEF Moments
    <3> QED
      BY <1>3, <3>1, <3>2, <3>5, <3>6 DEF Precedes
  <2> QED
    BY <2>1, <2>2
<1>10. LinkedTo(a, latest[a])'
  BY <1>5, <1>8, <1>9 DEF LinkedTo, Precedes
<1>11. ASSUME NEW b \in AssetIds, b # a
       PROVE  LinkedTo(b, latest[b])'
  <2>1. LinkedTo(b, latest[b])
    BY DEF OracleInv, HistoryIsLinked, LinkedTo
  <2> QED
    BY <1>3, <1>4, <1>11, <2>1 DEF LinkedTo, Precedes
<1>12. HistoryIsLinked'
  BY <1>10, <1>11 DEF HistoryIsLinked, LinkedTo
<1>13. ASSUME NEW b \in AssetIds, NEW u \in Recorded(b)'
       PROVE  /\ TickOf(u) = u
              /\ report'[b][u].price \in PriceInputs /\ published'[b][u] \in Moments
  <2>1. u \in Moments
    BY DEF Recorded
  <2>2. CASE b = a /\ u = tick
    <3>1. published'[a][tick] = now
      BY <1>0, <1>1 DEF PriceTypes
    <3> QED
      BY <1>0, <1>1, <1>3, <2>2, <3>1 DEF ListTypes
  <2>3. CASE ~(b = a /\ u = tick)
    <3>1. published'[b][u] = published[b][u]
      BY <1>0, <1>1, <2>1, <2>3 DEF PriceTypes
    <3>2. u \in Recorded(b) /\ report'[b][u] = report[b][u]
      BY <1>3, <2>1, <2>3
    <3> QED
      BY <3>1, <3>2 DEF OracleInv, RecordsAreReports
  <2> QED
    BY <2>2, <2>3
<1> QED
  BY <1>12, <1>13 DEF RecordsAreReports

-----------------------------------------------------------------------------
\* What is not about prices keeps its types.
LEMMA ListTypesStep == ListTypes /\ [Next]_vars => ListTypes'
<1> SUFFICES ASSUME ListTypes, [Next]_vars
             PROVE  ListTypes'
  OBVIOUS
<1> USE NoneIsNoAccount DEF ListTypes, HandoverTypeOK, RequireAdmin, RequireAuth
<1>1. ASSUME NEW a \in Priced, NEW p \in PriceInputs, NEW t \in TimeInputs, NEW r \in Accounts,
             ReportPrice(r, a, p, t) \/ OverridePrice(a, p, t)
      PROVE  ListTypes'
  BY <1>1 DEF ReportPrice, OverridePrice, listVars
<1>2. ASSUME NEW a \in AssetIds, NEW l \in LimitInputs, AddAsset(a, l) \/ SetMaxDeviation(a, l)
      PROVE  ListTypes'
  <2>1. l \in Nat \ {0}
    BY <1>2, OracleInputs DEF AddAsset, SetMaxDeviation
  <2> QED
    BY <1>2, <2>1 DEF AddAsset, SetMaxDeviation
<1>3. ASSUME NEW a \in AssetIds, NEW r \in Reporters, NEW b \in BOOLEAN, SetReporter(a, r, b)
      PROVE  ListTypes'
  <2>1. r \in Accounts
    BY OracleInputs
  <2>2. reporters' \in [AssetIds -> SUBSET Accounts]
    BY <1>3, <2>1 DEF SetReporter
  <2> QED
    BY <1>3, <2>2 DEF SetReporter
<1>4. ASSUME NEW p \in PauseInputs, SetPaused(p) PROVE ListTypes'
  BY <1>4, OracleInputs DEF SetPaused
<1>5. CASE HandoverCall
  <2>1. ASSUME NEW a \in Successors, ProposeAdmin(a), UNCHANGED <<now, listVars>>
        PROVE  ListTypes'
    BY <2>1, OracleInputs DEF ProposeAdmin, listVars
  <2>2. ASSUME AcceptAdmin, UNCHANGED <<now, listVars>> PROVE ListTypes'
    BY <2>2 DEF AcceptAdmin, listVars
  <2>3. ASSUME CancelAdminTransfer, UNCHANGED <<now, listVars>> PROVE ListTypes'
    BY <2>3 DEF CancelAdminTransfer, listVars
  <2> QED
    BY <1>5, <2>1, <2>2, <2>3 DEF HandoverCall
<1>6. CASE CloseLedger
  BY <1>6, OracleBounds DEF CloseLedger, listVars, handoverVars, Moments
<1>7. CASE UNCHANGED vars
  BY <1>7 DEF vars, listVars, handoverVars
<1>8. CASE PriceCall
  BY <1>1, <1>8 DEF PriceCall
<1>9. CASE ListCall
  BY <1>2, <1>3, <1>9 DEF ListCall
<1> QED
  BY <1>4, <1>5, <1>6, <1>7, <1>8, <1>9 DEF Next, OracleCall

\* A call either records one price or leaves the prices alone.
LEMMA PricesOnlyByRecord ==
    ASSUME [Next]_vars
    PROVE  \/ UNCHANGED priceVars
           \/ \E a \in Priced, p \in PriceInputs, t \in TimeInputs :
                /\ now' = now
                /\ \/ \E r \in Accounts : ReportPrice(r, a, p, t)
                   \/ OverridePrice(a, p, t)
                /\ \/ Record(a, p, t, config[a])
                   \/ Record(a, p, t, None)
<1>1. CASE PriceCall
  BY <1>1 DEF PriceCall, ReportPrice, OverridePrice
<1>2. CASE ListCall
  BY <1>2 DEF ListCall, AddAsset, SetMaxDeviation, SetReporter
<1>3. CASE HandoverCall \/ CloseLedger \/ \E p \in PauseInputs : SetPaused(p)
  BY <1>3 DEF HandoverCall, CloseLedger, SetPaused
<1>4. CASE UNCHANGED vars
  BY <1>4 DEF vars
<1> QED
  BY <1>1, <1>2, <1>3, <1>4 DEF Next, OracleCall

LEMMA OracleInvInit == Init => OracleInv
<1> SUFFICES ASSUME Init PROVE OracleInv
  OBVIOUS
<1>1. ListTypes
  <2>1. HandoverTypeOK
    BY DEF Init, HandoverInit, HandoverTypeOK
  <2>2. now \in Moments
    BY OracleBounds DEF Init, Moments
  <2>3. /\ config \in [AssetIds -> (Nat \ {0}) \cup {None}]
        /\ reporters \in [AssetIds -> SUBSET Accounts]
        /\ paused \in BOOLEAN
    BY DEF Init
  <2> QED
    BY <2>1, <2>2, <2>3 DEF ListTypes
<1>2. PriceTypes /\ \A a \in AssetIds : Recorded(a) = {} /\ latest[a] = None
  BY DEF Init, PriceTypes, Recorded
<1> QED
  BY <1>1, <1>2 DEF OracleInv, HistoryIsLinked, RecordsAreReports

LEMMA OracleInvStep == OracleInv /\ [Next]_vars => OracleInv'
<1> SUFFICES ASSUME OracleInv, [Next]_vars
             PROVE  OracleInv'
  OBVIOUS
<1>1. ListTypes /\ PriceTypes /\ ListTypes'
  BY ListTypesStep DEF OracleInv
<1>2. CASE UNCHANGED priceVars
  <2>1. PriceTypes' /\ \A a \in AssetIds : Recorded(a)' = Recorded(a)
    BY <1>1, <1>2 DEF priceVars, PriceTypes, Recorded
  <2>2. HistoryIsLinked' /\ RecordsAreReports'
    BY <1>2, <2>1 DEF priceVars, OracleInv, HistoryIsLinked, RecordsAreReports, Precedes
  <2> QED
    BY <1>1, <2>1, <2>2 DEF OracleInv
<1>3. ASSUME NEW a \in Priced, NEW p \in PriceInputs, NEW t \in TimeInputs, NEW m,
             now' = now, Record(a, p, t, m)
      PROVE  OracleInv'
  BY <1>1, <1>3, RecordKeepsTypes, RecordKeepsLinks DEF OracleInv
<1> QED
  BY <1>2, <1>3, PricesOnlyByRecord

(***************************************************************************)
(* The records of each asset form one chain from the latest to the first,  *)
(* whatever is reported, overridden or left out.                           *)
(***************************************************************************)
THEOREM OracleHistoryIsLinked == Spec => [](TypeOK /\ HistoryIsLinked)
<1>1. OracleInv => TypeOK /\ HistoryIsLinked
  BY DEF OracleInv, ListTypes, PriceTypes, TypeOK
<1> QED
  BY <1>1, OracleInvInit, OracleInvStep, PTL DEF Spec

-----------------------------------------------------------------------------
(***************************************************************************)
(* However reports and limits follow each other, a move beyond the limit   *)
(* in force carries the admin's signature, and a report the signature of a *)
(* reporter named for that very asset.                                     *)
(***************************************************************************)
THEOREM OnlyAdminOverrides == Spec => OnlyAdminMovesBeyondLimit
<1> DEFINE Allowed(a) ==
      \/ signer' = admin
      \/ /\ signer' \in reporters[a]
         /\ latest[a] # None =>
               AbsDiff(latest'[a].price, latest[a].price) * BpsDenominator
                  <= latest[a].price * config[a]
<1>1. ASSUME OracleInv, [Next]_vars, NEW b \in AssetIds, latest'[b] # latest[b]
      PROVE  Allowed(b)
  <2>1. PICK a \in Priced, p \in PriceInputs, t \in TimeInputs :
            /\ \/ \E r \in Accounts : ReportPrice(r, a, p, t)
               \/ OverridePrice(a, p, t)
            /\ now' = now
    BY <1>1, PricesOnlyByRecord DEF priceVars
  <2>2. CASE OverridePrice(a, p, t)
    BY <2>2 DEF OverridePrice, RequireAdmin, RequireAuth
  <2>3. ASSUME NEW r \in Accounts, ReportPrice(r, a, p, t)
        PROVE  Allowed(b)
    <3>1. signer' = r /\ r \in reporters[a] /\ config[a] # None /\ Record(a, p, t, config[a])
      BY <2>3 DEF ReportPrice, RequireAuth, Listed
    <3>2. latest' = [latest EXCEPT ![a] = [price |-> p, timestamp |-> TickOf(t)]]
      BY <3>1 DEF Record
    <3>3. a = b
      BY <1>1, <3>2 DEF OracleInv, PriceTypes
    <3>4. latest'[a].price = p
      BY <1>1, <3>2, <3>3 DEF OracleInv, PriceTypes
    <3>5. latest[a] # None => WithinLimit(latest[a].price, p, config[a])
      BY <3>1 DEF Record
    <3> QED
      BY <3>1, <3>3, <3>4, <3>5 DEF WithinLimit
  <2> QED
    BY <2>1, <2>2, <2>3
<1>2. OracleInv /\ [Next]_vars =>
          [\A a \in AssetIds : latest'[a] # latest[a] => Allowed(a)]_vars
  BY <1>1
<1> QED
  BY <1>2, OracleInvInit, OracleInvStep, PTL DEF Spec, OnlyAdminMovesBeyondLimit

-----------------------------------------------------------------------------
(* The feed *)

\* What OracleAdapter substitutes for the series of PriceFeed.
EntryAt(a, t) ==
    [tick |-> t, price |-> report[a][t].price, published |-> published[a][t]]
Series == [a \in AssetIds |-> {EntryAt(a, t) : t \in Recorded(a)}]

LEMMA RecordPublishes ==
    ASSUME OracleInv, now' = now,
           NEW a \in Priced, NEW p \in PriceInputs, NEW t \in TimeInputs, NEW m,
           Record(a, p, t, m)
    PROVE  \E b \in AssetIds, e \in Feed!Entry :
              /\ e.published = now /\ e.tick <= now
              /\ \A f \in Series[b] : f.tick < e.tick
              /\ Series' = [Series EXCEPT ![b] = @ \cup {e}]
<1>0. ListTypes /\ PriceTypes
  BY DEF OracleInv
<1>1. PICK tick \in Moments, previous \in Moments \cup {None} :
              /\ a \in AssetIds /\ p \in Prices /\ tick <= now /\ TickOf(tick) = tick
              /\ previous = IF latest[a] = None THEN None ELSE latest[a].timestamp
              /\ latest[a] # None => tick > latest[a].timestamp
              /\ report' = [report EXCEPT ![a][tick] =
                               [price |-> p, previous_timestamp |-> previous]]
              /\ latest' = [latest EXCEPT ![a] = [price |-> p, timestamp |-> tick]]
              /\ published' = [published EXCEPT ![a][tick] = now]
  BY <1>0, RecordWrites
<1> DEFINE r == [price |-> p, previous_timestamp |-> previous]
<1>2. r \in Report
  BY <1>1 DEF Report
<1>3. /\ Recorded(a)' = Recorded(a) \cup {tick}
      /\ report'[a][tick] = r
      /\ \A u \in Moments : u # tick => report'[a][u] = report[a][u]
      /\ \A b \in AssetIds : b # a =>
            report'[b] = report[b] /\ Recorded(b)' = Recorded(b)
  BY <1>0, <1>1, <1>2, RecordedGrows
<1>4. /\ published'[a][tick] = now
      /\ \A u \in Moments : u # tick => published'[a][u] = published[a][u]
      /\ \A b \in AssetIds : b # a => published'[b] = published[b]
  BY <1>0, <1>1 DEF PriceTypes
<1> DEFINE e == [tick |-> tick, price |-> p, published |-> now]
<1>5. e \in Feed!Entry
  BY <1>0, <1>1 DEF Feed!Entry, ListTypes
<1>6. \A u \in Recorded(a) : u \in Moments /\ u < tick
  <2>1. LinkedTo(a, latest[a])
    BY <1>1 DEF OracleInv, HistoryIsLinked, LinkedTo
  <2>2. latest[a] # None => latest[a].timestamp \in Moments
    BY <1>0, <1>1 DEF PriceTypes, PriceData
  <2> QED
    BY <1>1, <2>1, <2>2, OracleBounds DEF LinkedTo, Recorded, Moments
<1>7. \A f \in Series[a] : f.tick < e.tick
  BY <1>1, <1>6 DEF Series, EntryAt
<1>8. \A b \in AssetIds : Series'[b] = [Series EXCEPT ![a] = @ \cup {e}][b]
  <2>1. ASSUME NEW b \in AssetIds, b # a
        PROVE  Series'[b] = Series[b]
    BY <1>3, <1>4, <2>1 DEF Series, EntryAt
  <2>2. \A u \in Recorded(a) : EntryAt(a, u)' = EntryAt(a, u)
    <3>1. \A u \in Recorded(a) : u \in Moments /\ u # tick
      BY <1>6, OracleBounds DEF Moments
    <3> QED
      BY <1>3, <1>4, <3>1 DEF EntryAt
  <2>3. EntryAt(a, tick)' = e
    BY <1>3, <1>4 DEF EntryAt
  <2>4. Series'[a] = {EntryAt(a, u)' : u \in Recorded(a) \cup {tick}}
    BY <1>1, <1>3 DEF Series
  <2>5. Series'[a] = Series[a] \cup {e}
    BY <1>1, <2>2, <2>3, <2>4 DEF Series
  <2> QED
    BY <1>1, <2>1, <2>5 DEF Series
<1>9. Series' = [Series EXCEPT ![a] = @ \cup {e}]
  BY <1>8 DEF Series
<1> QED
  BY <1>1, <1>5, <1>7, <1>9

LEMMA FeedStep == OracleInv /\ OracleInv' /\ [Next]_vars => [Feed!FeedNext]_(Feed!feedVars)
<1> SUFFICES ASSUME OracleInv, OracleInv', [Next]_vars
             PROVE  [Feed!FeedNext]_(Feed!feedVars)
  OBVIOUS
<1>1. CASE UNCHANGED priceVars
  <2>1. Series' = Series
    BY <1>1 DEF priceVars, Series, EntryAt, Recorded
  <2>2. now' = now \/ (now' \in Moments /\ now < now')
    <3>1. CASE CloseLedger
      BY <3>1, OracleBounds DEF CloseLedger, OracleInv, ListTypes, Moments
    <3>2. CASE ~CloseLedger
      BY <3>2 DEF Next, OracleCall, PriceCall, ListCall, ReportPrice, OverridePrice, AddAsset,
         SetMaxDeviation, SetReporter, SetPaused, HandoverCall, vars
    <3> QED
      BY <3>1, <3>2
  <2> QED
    BY <2>1, <2>2 DEF Feed!FeedNext, Feed!Wait, Feed!feedVars, Series, EntryAt
<1>2. ASSUME NEW a \in Priced, NEW p \in PriceInputs, NEW t \in TimeInputs, NEW m,
             now' = now, Record(a, p, t, m)
      PROVE  Feed!FeedNext
  <2>1. PICK b \in AssetIds, e \in Feed!Entry :
              /\ e.published = now /\ e.tick <= now
              /\ \A f \in Series[b] : f.tick < e.tick
              /\ Series' = [Series EXCEPT ![b] = @ \cup {e}]
    BY <1>2, RecordPublishes
  <2> QED
    BY <1>2, <2>1 DEF Feed!FeedNext, Feed!Publish, Series, EntryAt
<1> QED
  BY <1>1, <1>2, PricesOnlyByRecord

(***************************************************************************)
(* The contract's feed is a PriceFeed.                                     *)
(***************************************************************************)
THEOREM OracleImplementsFeed == Spec => ImplementsFeed
<1>1. Init => Feed!FeedInit
  BY OracleBounds DEF Init, Feed!FeedInit, Recorded, Moments
<1> QED
  BY <1>1, OracleInvInit, OracleInvStep, FeedStep, PTL DEF Spec, ImplementsFeed, Feed!FeedSpec

\* What whoever relies on a PriceFeed reads from the entries of an asset: the one with
\* the latest tick (LastPrice in VaultNav).
LastOf(entries) ==
    IF entries = {} THEN None
    ELSE LET newest == CHOOSE e \in entries : \A f \in entries : f.tick <= e.tick
         IN  [price |-> newest.price, timestamp |-> newest.tick]

LEMMA LatestIsLast ==
    ASSUME OracleInv, NEW a \in AssetIds
    PROVE  latest[a] = LastOf(Series[a])
<1>1. LinkedTo(a, latest[a])
  BY DEF OracleInv, HistoryIsLinked, LinkedTo
<1>2. Series[a] = {EntryAt(a, t) : t \in Recorded(a)}
  BY DEF Series
<1>3. latest[a] \in PriceData \cup {None}
  BY DEF OracleInv, PriceTypes
<1>4. CASE latest[a] = None
  BY <1>1, <1>2, <1>4 DEF LinkedTo, LastOf
<1>5. CASE latest[a] # None
  <2> DEFINE T == latest[a].timestamp
             newest == CHOOSE e \in Series[a] : \A f \in Series[a] : f.tick <= e.tick
  <2>1. /\ T \in Recorded(a) /\ latest[a].price = report[a][T].price
        /\ \A t \in Recorded(a) : t <= T
    BY <1>1, <1>5 DEF LinkedTo
  <2>2. \A t \in Recorded(a) : EntryAt(a, t).tick = t /\ EntryAt(a, t).price = report[a][t].price
    BY DEF EntryAt
  <2>3. EntryAt(a, T) \in Series[a] /\ \A f \in Series[a] : f.tick <= EntryAt(a, T).tick
    <3> HIDE DEF T
    <3> QED
      BY <1>2, <2>1, <2>2
  <2>4. newest \in Series[a] /\ \A f \in Series[a] : f.tick <= newest.tick
    BY <2>3
  <2> HIDE DEF newest
  <2>5. PICK t \in Recorded(a) : newest = EntryAt(a, t)
    BY <1>2, <2>4
  <2>6. t \in Nat /\ T \in Nat
    BY <2>1 DEF Recorded, Moments
  <2>7. t = T
    <3>1. T <= t
      BY <2>1, <2>2, <2>3, <2>4, <2>5
    <3>2. t <= T
      BY <2>1, <2>5
    <3> QED
      BY <2>6, <3>1, <3>2
  <2>8. newest.price = latest[a].price /\ newest.tick = T
    BY <2>1, <2>2, <2>5, <2>7
  <2>9. latest[a] = [price |-> latest[a].price, timestamp |-> T]
    BY <1>3, <1>5 DEF PriceData
  <2>10. Series[a] # {}
    BY <2>3
  <2> QED
    BY <2>8, <2>9, <2>10 DEF LastOf, newest
<1> QED
  BY <1>4, <1>5

(***************************************************************************)
(* lastprice() answers with the newest entry of the feed the contract      *)
(* implements, although it looks up Latest(asset) and never a Report, and  *)
(* nothing else does it answer with: what the vault reads of its sources   *)
(* in VaultNav is what this contract gives it.                             *)
(***************************************************************************)
THEOREM OracleLastPriceIsNewest == Spec => []\A a \in AssetIds : latest[a] = LastOf(Series[a])
<1>1. OracleInv => \A a \in AssetIds : latest[a] = LastOf(Series[a])
  BY LatestIsLast
<1> QED
  BY <1>1, OracleInvInit, OracleInvStep, PTL DEF Spec

-----------------------------------------------------------------------------
(* The admin role *)

LEMMA OracleHandoverStep == OracleInv /\ [Next]_vars => [HandoverNext]_handoverVars
<1> SUFFICES ASSUME OracleInv, [Next]_vars
             PROVE  HandoverNext \/ UNCHANGED handoverVars
  BY DEF handoverVars
<1>1. admin \in Accounts
  BY DEF OracleInv, ListTypes, HandoverTypeOK
<1>2. ASSUME NEW a \in Accounts, RequireAuth(a), UNCHANGED <<admin, pendingAdmin, proposedBy>>
      PROVE  HandoverNext
  BY <1>2 DEF OtherCall, HandoverNext
<1>3. ASSUME RequireAdmin, UNCHANGED <<admin, pendingAdmin, proposedBy>>
      PROVE  HandoverNext
  BY <1>1, <1>2, <1>3 DEF RequireAdmin
<1>4. CASE PriceCall
  BY <1>2, <1>3, <1>4 DEF PriceCall, ReportPrice, OverridePrice
<1>5. CASE ListCall
  BY <1>3, <1>5 DEF ListCall, AddAsset, SetMaxDeviation, SetReporter
<1>6. ASSUME NEW p, SetPaused(p) PROVE HandoverNext
  BY <1>3, <1>6 DEF SetPaused
<1>7. CASE HandoverCall
  BY <1>7, OracleInputs DEF HandoverCall, HandoverNext
<1>8. CASE CloseLedger \/ UNCHANGED vars
  BY <1>8 DEF CloseLedger, vars
<1> QED
  BY <1>4, <1>5, <1>6, <1>7, <1>8 DEF Next, OracleCall

(***************************************************************************)
(* The adapter's admin role is the one AdminHandover describes: reports,   *)
(* signed by reporters, never touch it.                                    *)
(***************************************************************************)
THEOREM OracleImplementsHandover == Spec => HandoverSpec
<1>1. Init => \E a \in Accounts : HandoverInit(a)
  BY DEF Init
<1> QED
  BY <1>1, OracleHandoverStep, OracleInvInit, OracleInvStep, PTL DEF Spec, HandoverSpec

-----------------------------------------------------------------------------
(* The list of assets *)

LEMMA ListIsExactStep == OracleInv /\ ListIsExact /\ [Next]_vars => ListIsExact'
<1> SUFFICES ASSUME OracleInv, ListIsExact, [Next]_vars
             PROVE  ListIsExact'
  OBVIOUS
<1> USE DEF ListIsExact, Listed
<1>1. ASSUME NEW a \in Priced, NEW p \in PriceInputs, NEW t \in TimeInputs,
             (\E r \in Accounts : ReportPrice(r, a, p, t)) \/ OverridePrice(a, p, t)
      PROVE  ListIsExact'
  <2>1. UNCHANGED <<assets, config, reporters>> /\ config[a] # None
    BY <1>1 DEF ReportPrice, OverridePrice, listVars
  <2>2. latest' = [latest EXCEPT ![a] = [price |-> p, timestamp |-> TickOf(t)]]
    BY <1>1 DEF ReportPrice, OverridePrice, Record
  <2>3. \A b \in AssetIds : b # a => latest'[b] = latest[b]
    BY <2>2 DEF OracleInv, PriceTypes
  <2> QED
    BY <2>1, <2>3
<1>2. ASSUME NEW a \in AssetIds, NEW l \in LimitInputs, AddAsset(a, l)
      PROVE  ListIsExact'
  <2>1. /\ assets' = Append(assets, a) /\ Len(assets) < MaxAssets
        /\ config[a] = None /\ UNCHANGED <<reporters, latest>>
        /\ assets \in Seq(AssetIds)
    BY <1>2 DEF AddAsset, priceVars
  <2>2. /\ config'[a] # None
        /\ \A b \in AssetIds : b # a => config'[b] = config[b]
    BY <1>2, OracleInputs, NoneIsNoRecord DEF AddAsset, OracleInv, ListTypes
  <2>3. /\ assets' \in Seq(AssetIds) /\ Len(assets') = Len(assets) + 1
        /\ Len(assets) \in Nat /\ Len(assets') <= MaxAssets
        /\ DOMAIN assets = 1 .. Len(assets) /\ DOMAIN assets' = 1 .. Len(assets) + 1
        /\ assets'[Len(assets) + 1] = a
        /\ \A i \in 1 .. Len(assets) : assets'[i] = assets[i]
    BY <2>1, OracleBounds
  <2>4. \A i \in DOMAIN assets : assets[i] # a
    BY <2>1
  <2>5. \A i, j \in DOMAIN assets' : assets'[i] = assets'[j] => i = j
    BY <2>3, <2>4
  <2>6. \A b \in AssetIds : config'[b] # None <=> \E i \in DOMAIN assets' : assets'[i] = b
    BY <2>2, <2>3
  <2> QED
    BY <2>1, <2>2, <2>3, <2>5, <2>6
<1>3. ASSUME NEW a \in AssetIds, NEW l \in LimitInputs, SetMaxDeviation(a, l)
      PROVE  ListIsExact'
  <2>1. /\ UNCHANGED <<assets, reporters, latest>> /\ config[a] # None
    BY <1>3 DEF SetMaxDeviation, priceVars
  <2>2. \A b \in AssetIds : config'[b] # None <=> config[b] # None
    BY <1>3, <2>1, OracleInputs, NoneIsNoRecord DEF SetMaxDeviation, OracleInv, ListTypes
  <2> QED
    BY <2>1, <2>2
<1>4. ASSUME NEW a \in AssetIds, NEW r \in Reporters, NEW b \in BOOLEAN, SetReporter(a, r, b)
      PROVE  ListIsExact'
  <2>1. /\ UNCHANGED <<assets, config, latest>> /\ config[a] # None
    BY <1>4 DEF SetReporter, priceVars
  <2>2. \A c \in AssetIds : c # a => reporters'[c] = reporters[c]
    BY <1>4 DEF SetReporter, OracleInv, ListTypes
  <2> QED
    BY <2>1, <2>2
<1>5. CASE UNCHANGED <<assets, config, reporters, latest>>
  BY <1>5
<1>6. CASE HandoverCall \/ CloseLedger \/ UNCHANGED vars \/ \E p \in PauseInputs : SetPaused(p)
  BY <1>5, <1>6 DEF HandoverCall, CloseLedger, SetPaused, vars, listVars, priceVars
<1> QED
  <2>1. CASE PriceCall
    BY <1>1, <2>1 DEF PriceCall
  <2>2. CASE ListCall
    BY <1>2, <1>3, <1>4, <2>2 DEF ListCall
  <2> QED
    BY <1>6, <2>1, <2>2 DEF Next, OracleCall

(***************************************************************************)
(* No asset is listed twice, under whatever limits, and none is priced or  *)
(* reported on unlisted.                                                   *)
(***************************************************************************)
THEOREM OracleListIsExact == Spec => []ListIsExact
<1>1. Init => ListIsExact
  BY OracleBounds DEF Init, ListIsExact, Listed
<1> QED
  BY <1>1, ListIsExactStep, OracleInvInit, OracleInvStep, PTL DEF Spec

-----------------------------------------------------------------------------
(* The reading of a history *)

LEMMA LeastNat ==
    ASSUME NEW T, T \subseteq Nat, T # {}
    PROVE  \E m \in T : \A k \in T : m <= k
<1> DEFINE R == OpToRel(<, Nat)
<1>1. IsWellFoundedOn(R, Nat)
  BY NatLessThanWellFounded
<1>2. \A x, y \in Nat : <<y, x>> \in R <=> y < x
  BY DEF OpToRel
<1> HIDE DEF R
<1>3. PICK m \in T : \A y \in T : <<y, m>> \notin R
  BY <1>1, WFMin
<1>4. \A k \in T : ~(k < m)
  BY <1>2, <1>3
<1> QED
  BY <1>4

LEMMA Prepended ==
    ASSUME NEW S, NEW x \in S, NEW w \in Seq(S)
    PROVE  /\ <<x>> \o w \in Seq(S) /\ Len(<<x>> \o w) = Len(w) + 1
           /\ (<<x>> \o w)[1] = x
           /\ \A i \in 1 .. Len(w) : (<<x>> \o w)[i + 1] = w[i]
OBVIOUS

LEMMA MinOfTwo ==
    ASSUME NEW x \in Nat, NEW y \in Nat
    PROVE  Min({x, y}) = IF x <= y THEN x ELSE y
<1>1. \E m \in {x, y} : \A k \in {x, y} : m <= k
  OBVIOUS
<1>2. Min({x, y}) \in {x, y} /\ \A k \in {x, y} : Min({x, y}) <= k
  BY <1>1 DEF Min
<1> QED
  BY <1>2

\* Where a walk may be.
Places == Moments \cup {None}

LEMMA LinkLeadsOn ==
    ASSUME PriceTypes, NEW a \in AssetIds, NEW t \in Recorded(a)
    PROVE  report[a][t].previous_timestamp \in Places
BY DEF PriceTypes, Recorded, Report, Places

LEMMA LinkIsRecorded ==
    ASSUME OracleInv, NEW a \in AssetIds, NEW t \in Recorded(a),
           report[a][t].previous_timestamp # None
    PROVE  report[a][t].previous_timestamp \in Recorded(a)
BY DEF OracleInv, HistoryIsLinked

(***************************************************************************)
(* The recursive function of prices() exists and is what it says: for a    *)
(* least number of records without one, the function for one record less   *)
(* could be extended.                                                      *)
(***************************************************************************)
LEMMA WalkIs ==
    ASSUME PriceTypes, NEW a \in AssetIds, NEW records
    PROVE  \E W :
              /\ PricesOf(a, records) =
                    IF latest[a] = None THEN <<>>
                    ELSE W[Min({records, MaxRecords})][latest[a].timestamp]
              /\ \A n \in 0 .. MaxRecords, t \in Places :
                    W[n][t] = IF n = 0 \/ t \notin Recorded(a) THEN <<>>
                              ELSE <<PriceAt(a, t)>>
                                      \o W[n - 1][report[a][t].previous_timestamp]
<1> DEFINE M == 0 .. MaxRecords
           At(f, n, t) ==
             IF n = 0 \/ t \notin Recorded(a) THEN <<>>
             ELSE <<PriceAt(a, t)>> \o f[n - 1][report[a][t].previous_timestamp]
           Solves(f) == f = [n \in M |-> [t \in Places |-> At(f, n, t)]]
           Walk == CHOOSE f : Solves(f)
           Holds(f, k) == \A n \in 0 .. k, t \in Places : f[n][t] = At(f, n, t)
<1>1. PricesOf(a, records) = IF latest[a] = None THEN <<>>
                             ELSE Walk[Min({records, MaxRecords})][latest[a].timestamp]
  BY DEF PricesOf, Places
<1>2. ASSUME NEW f, NEW g, NEW n \in Nat, NEW t \in Places,
             n > 0 => \A u \in Places : f[n - 1][u] = g[n - 1][u]
      PROVE  At(f, n, t) = At(g, n, t)
  BY <1>2, LinkLeadsOn
<1>3. \A f, t : At(f, 0, t) = <<>>
  OBVIOUS
<1> HIDE DEF At
<1>4. \E f : Holds(f, MaxRecords)
  <2> DEFINE Open == {k \in Nat : ~\E f : Holds(f, k)}
  <2> SUFFICES ASSUME Open # {}
               PROVE  FALSE
    BY OracleBounds
  <2>1. PICK k \in Open : \A j \in Open : k <= j
    <3>1. Open \subseteq Nat
      OBVIOUS
    <3> HIDE DEF Open
    <3> QED
      BY <3>1, LeastNat
  <2>2. k # 0
    <3> DEFINE f == [n \in {0} |-> [t \in Places |-> <<>>]]
    <3>1. \A n \in 0 .. 0, t \in Places : f[n][t] = <<>> /\ n = 0
      OBVIOUS
    <3> HIDE DEF f
    <3>2. Holds(f, 0)
      BY <1>3, <3>1
    <3> QED
      BY <3>2
  <2>3. k \in Nat /\ k - 1 \in Nat /\ k - 1 \notin Open
    <3>1. k \in Nat
      OBVIOUS
    <3> HIDE DEF Open
    <3> QED
      BY <2>1, <2>2, <3>1
  <2>4. PICK f : Holds(f, k - 1)
    BY <2>3
  <2> DEFINE g == [n \in 0 .. k |-> [t \in Places |-> IF n < k THEN f[n][t] ELSE At(f, n, t)]]
  <2>5. ASSUME NEW n \in 0 .. k, NEW t \in Places
        PROVE  g[n][t] = IF n < k THEN f[n][t] ELSE At(f, n, t)
    OBVIOUS
  <2> HIDE DEF g
  <2>6. ASSUME NEW n \in 0 .. k, NEW t \in Places
        PROVE  g[n][t] = At(g, n, t)
    <3>1. g[n][t] = At(f, n, t)
      <4>1. CASE n < k
        <5>1. n \in 0 .. k - 1
          BY <2>3, <4>1
        <5> QED
          BY <2>4, <2>5, <4>1, <5>1
      <4>2. CASE ~(n < k)
        BY <2>5, <4>2
      <4> QED
        BY <4>1, <4>2
    <3>2. n > 0 => n - 1 \in 0 .. k /\ n - 1 < k
      BY <2>3
    <3>3. n > 0 => \A u \in Places : g[n - 1][u] = f[n - 1][u]
      BY <2>5, <3>2
    <3>4. At(f, n, t) = At(g, n, t)
      BY <1>2, <3>3
    <3> QED
      BY <3>1, <3>4
  <2> QED
    BY <2>1, <2>6
<1>5. PICK f : Holds(f, MaxRecords)
  BY <1>4
<1> DEFINE h == [n \in M |-> [t \in Places |-> f[n][t]]]
<1>6. \A n \in M, t \in Places : h[n][t] = f[n][t]
  OBVIOUS
<1>7. \A n \in M, t \in Places : f[n][t] = At(h, n, t)
  <2> HIDE DEF h
  <2> SUFFICES ASSUME NEW n \in M, NEW t \in Places
               PROVE  f[n][t] = At(h, n, t)
    OBVIOUS
  <2>1. n \in Nat /\ (n > 0 => n - 1 \in M)
    BY OracleBounds
  <2>2. n > 0 => \A u \in Places : f[n - 1][u] = h[n - 1][u]
    BY <1>6, <2>1
  <2>3. At(f, n, t) = At(h, n, t)
    BY <1>2, <2>1, <2>2
  <2> QED
    BY <1>5, <2>3
<1>8. h = [n \in M |-> [t \in Places |-> At(h, n, t)]]
  BY <1>7
<1> HIDE DEF h
<1>9. Solves(Walk)
  <2>1. Solves(h)
    BY <1>8
  <2> HIDE DEF Solves
  <2> QED
    BY <2>1
<1>10. \A n \in M, t \in Places : Walk[n][t] = At(Walk, n, t)
  <2>1. Walk = [n \in M |-> [t \in Places |-> At(Walk, n, t)]]
    BY <1>9
  <2>2. \A v : v = [n \in M |-> [t \in Places |-> At(Walk, n, t)]]
               => \A n \in M, t \in Places : v[n][t] = At(Walk, n, t)
    <3> HIDE DEF Walk, M
    <3> QED
      OBVIOUS
  <2> HIDE DEF Walk
  <2> QED
    BY <2>1, <2>2
<1> HIDE DEF Walk
<1>11. \A n \in M, t \in Places :
          Walk[n][t] = IF n = 0 \/ t \notin Recorded(a) THEN <<>>
                       ELSE <<PriceAt(a, t)>> \o Walk[n - 1][report[a][t].previous_timestamp]
  BY <1>10 DEF At
<1> DEFINE Answers(W) ==
             /\ PricesOf(a, records) =
                   IF latest[a] = None THEN <<>>
                   ELSE W[Min({records, MaxRecords})][latest[a].timestamp]
             /\ \A n \in M, t \in Places :
                   W[n][t] = IF n = 0 \/ t \notin Recorded(a) THEN <<>>
                             ELSE <<PriceAt(a, t)>>
                                     \o W[n - 1][report[a][t].previous_timestamp]
<1>12. Answers(Walk)
  BY <1>1, <1>11
<1>13. \E W : Answers(W)
  <2> HIDE DEF Answers
  <2> QED
    BY <1>12
<1> QED
  BY <1>13

\* What the price of a recorded tick is, and that it is dated that tick.
LEMMA PriceOfTick ==
    ASSUME OracleInv, NEW a \in AssetIds, NEW t \in Recorded(a)
    PROVE  PriceAt(a, t) \in PriceData /\ PriceAt(a, t).timestamp = t
<1>1. TickOf(t) = t /\ t \in Moments /\ report[a][t] # None
  BY DEF OracleInv, RecordsAreReports, Recorded
<1>2. report[a][t].price \in Prices
  BY <1>1 DEF OracleInv, PriceTypes, Report
<1>3. PriceAt(a, t) = [price |-> report[a][t].price, timestamp |-> t]
  BY <1>1 DEF PriceAt
<1> QED
  BY <1>1, <1>2, <1>3 DEF PriceData

\* The records up to tick t, newest first, at most n of them.
FromTick(a, ps, n, t) ==
    /\ ps \in Seq(PriceData) /\ Len(ps) <= n
    /\ \A i \in 1 .. Len(ps) :
          /\ ps[i].timestamp \in Recorded(a) /\ ps[i] = PriceAt(a, ps[i].timestamp)
          /\ ps[i].timestamp <= t
    /\ \A i, j \in 1 .. Len(ps) : i < j => ps[i].timestamp > ps[j].timestamp
    /\ \A u \in Recorded(a) : u <= t =>
          \/ \E i \in 1 .. Len(ps) : ps[i].timestamp = u
          \/ Len(ps) = n /\ \A i \in 1 .. Len(ps) : ps[i].timestamp > u

\* No records, of which none are asked for.
LEMMA EmptyWalk == \A a, t : FromTick(a, <<>>, 0, t)
<1>1. /\ <<>> \in Seq(PriceData) /\ Len(<<>>) = 0
      /\ \A i \in 1 .. 0 : FALSE
  OBVIOUS
<1> QED
  BY <1>1 DEF FromTick

\* A record in front of those up to the one it links to, or of none.
LEMMA OneMoreRecord ==
    ASSUME OracleInv, NEW a \in AssetIds, NEW t \in Recorded(a), NEW n \in Nat,
           NEW rest,
           LET s == report[a][t].previous_timestamp
           IN  IF s = None THEN rest = <<>> ELSE FromTick(a, rest, n, s)
    PROVE  FromTick(a, <<PriceAt(a, t)>> \o rest, n + 1, t)
<1> DEFINE s == report[a][t].previous_timestamp
           ps == <<PriceAt(a, t)>> \o rest
<1>1. LinkedTo(a, latest[a])
  BY DEF OracleInv, HistoryIsLinked, LinkedTo
<1>0. IF s = None THEN rest = <<>> ELSE FromTick(a, rest, n, s)
  OBVIOUS
<1> SUFFICES FromTick(a, ps, n + 1, t)
  OBVIOUS
<1>2. t \in Nat /\ \A u \in Recorded(a) : u \in Nat
  BY DEF Recorded, Moments
<1>3. rest \in Seq(PriceData)
  <2>1. CASE s = None
    BY <1>0, <2>1
  <2>2. CASE s # None
    BY <1>0, <2>2 DEF FromTick
  <2> QED
    BY <2>1, <2>2
<1>4. /\ ps \in Seq(PriceData) /\ Len(ps) = Len(rest) + 1 /\ Len(rest) \in Nat
      /\ ps[1].timestamp = t /\ ps[1] = PriceAt(a, t)
      /\ \A i \in 1 .. Len(rest) : ps[i + 1] = rest[i]
  BY <1>3, Prepended, PriceOfTick
<1> HIDE DEF ps, s
<1>5. \A i \in 1 .. Len(ps) : i # 1 => i - 1 \in 1 .. Len(rest) /\ ps[i] = rest[i - 1]
  <2> SUFFICES ASSUME NEW i \in 1 .. Len(ps), i # 1
               PROVE  i - 1 \in 1 .. Len(rest) /\ ps[i] = rest[i - 1]
    OBVIOUS
  <2>1. i - 1 \in 1 .. Len(rest) /\ (i - 1) + 1 = i
    BY <1>4
  <2> QED
    BY <1>4, <2>1
<1>6. CASE s = None
  <2>1. Len(rest) = 0
    BY <1>0, <1>6
  <2>2. \A u \in Recorded(a) : t <= u
    BY <1>1, <1>6 DEF LinkedTo, s
  <2>3. \A u \in Recorded(a) : u <= t => u = t
    BY <1>2, <2>2
  <2>4. Len(ps) = 1
    BY <1>4, <2>1
  <2> QED
    BY <1>2, <1>4, <2>3, <2>4 DEF FromTick
<1>7. CASE s # None
  <2>1. s \in Recorded(a) /\ s < t /\ \A u \in Recorded(a) : u < t => u <= s
    BY <1>1, <1>7 DEF LinkedTo, Precedes, s
  <2>2. FromTick(a, rest, n, s)
    BY <1>0, <1>7
  <2>3. t \in Nat /\ s \in Nat /\ s < t
    BY <1>2, <2>1
  <2>4. \A i \in 1 .. Len(rest) :
           /\ rest[i].timestamp \in Nat
           /\ rest[i].timestamp \in Recorded(a) /\ rest[i] = PriceAt(a, rest[i].timestamp)
           /\ rest[i].timestamp < t /\ rest[i].timestamp <= t
    <3> SUFFICES ASSUME NEW i \in 1 .. Len(rest)
                 PROVE  /\ rest[i].timestamp \in Nat
                        /\ rest[i].timestamp \in Recorded(a)
                        /\ rest[i] = PriceAt(a, rest[i].timestamp)
                        /\ rest[i].timestamp < t /\ rest[i].timestamp <= t
      OBVIOUS
    <3>1. /\ rest[i].timestamp \in Recorded(a) /\ rest[i] = PriceAt(a, rest[i].timestamp)
          /\ rest[i].timestamp <= s
      BY <2>2 DEF FromTick
    <3>2. rest[i].timestamp \in Nat
      BY <1>2, <3>1
    <3> QED
      BY <2>3, <3>1, <3>2
  <2>5. \A i \in 1 .. Len(ps) :
           /\ ps[i].timestamp \in Recorded(a) /\ ps[i] = PriceAt(a, ps[i].timestamp)
           /\ ps[i].timestamp <= t
    <3> SUFFICES ASSUME NEW i \in 1 .. Len(ps)
                 PROVE  /\ ps[i].timestamp \in Recorded(a)
                        /\ ps[i] = PriceAt(a, ps[i].timestamp)
                        /\ ps[i].timestamp <= t
      OBVIOUS
    <3>1. CASE i = 1
      BY <1>4, <2>3, <3>1
    <3>2. CASE i # 1
      BY <1>5, <2>4, <3>2
    <3> QED
      BY <3>1, <3>2
  <2>6. ASSUME NEW i \in 1 .. Len(ps), NEW j \in 1 .. Len(ps), i < j
        PROVE  ps[i].timestamp > ps[j].timestamp
    <3>1. j # 1 /\ j - 1 \in 1 .. Len(rest) /\ ps[j] = rest[j - 1]
      BY <1>4, <1>5, <2>6
    <3>2. CASE i = 1
      BY <1>4, <2>3, <2>4, <3>1, <3>2
    <3>3. CASE i # 1
      <4>1. i - 1 \in 1 .. Len(rest) /\ ps[i] = rest[i - 1] /\ i - 1 < j - 1
        BY <1>4, <1>5, <2>6, <3>1, <3>3
      <4> QED
        BY <2>2, <3>1, <4>1 DEF FromTick
    <3> QED
      BY <3>2, <3>3
  <2>7. ASSUME NEW u \in Recorded(a), u <= t
        PROVE  \/ \E i \in 1 .. Len(ps) : ps[i].timestamp = u
               \/ Len(ps) = n + 1 /\ \A i \in 1 .. Len(ps) : ps[i].timestamp > u
    <3>1. CASE u = t
      <4>1. 1 \in 1 .. Len(ps)
        BY <1>4
      <4> QED
        BY <1>4, <3>1, <4>1
    <3>2. CASE u # t
      <4>1. u <= s /\ u \in Nat /\ u < t
        <5>1. u \in Nat
          BY <1>2
        <5>2. u < t
          BY <2>3, <2>7, <3>2, <5>1
        <5> QED
          BY <2>1, <5>1, <5>2
      <4>2. CASE \E i \in 1 .. Len(rest) : rest[i].timestamp = u
        <5>1. PICK i \in 1 .. Len(rest) : rest[i].timestamp = u
          BY <4>2
        <5>2. i + 1 \in 1 .. Len(ps) /\ ps[i + 1] = rest[i]
          BY <1>4
        <5> QED
          BY <5>1, <5>2
      <4>3. CASE Len(rest) = n /\ \A i \in 1 .. Len(rest) : rest[i].timestamp > u
        <5>1. Len(ps) = n + 1
          BY <1>4, <4>3
        <5>2. \A i \in 1 .. Len(ps) : ps[i].timestamp > u
          BY <1>4, <1>5, <2>3, <4>1, <4>3
        <5> QED
          BY <5>1, <5>2
      <4> QED
        BY <2>2, <4>1, <4>2, <4>3 DEF FromTick
    <3> QED
      BY <3>1, <3>2
  <2>8. Len(ps) <= n + 1
    BY <1>4, <2>2 DEF FromTick
  <2> QED
    BY <1>4, <2>5, <2>6, <2>7, <2>8 DEF FromTick
<1> QED
  BY <1>6, <1>7

\* No walk is too long, skips a record or goes astray, for the shortest to do so would
\* have one in it that does.
LEMMA WalkReads ==
    ASSUME OracleInv, NEW a \in AssetIds, NEW W,
           \A n \in 0 .. MaxRecords, t \in Places :
              W[n][t] = IF n = 0 \/ t \notin Recorded(a) THEN <<>>
                        ELSE <<PriceAt(a, t)>> \o W[n - 1][report[a][t].previous_timestamp]
    PROVE  \A n \in 0 .. MaxRecords, t \in Recorded(a) : FromTick(a, W[n][t], n, t)
<1> DEFINE Bad == {n \in Nat : n <= MaxRecords
                               /\ \E t \in Recorded(a) : ~FromTick(a, W[n][t], n, t)}
<1>0. /\ Recorded(a) \subseteq Places /\ None \in Places /\ None \notin Recorded(a)
      /\ Recorded(a) \subseteq Nat /\ MaxRecords \in Nat
  BY NoneIsNoData, OracleBounds DEF Recorded, Places, Moments
<1> SUFFICES ASSUME Bad # {}
             PROVE  FALSE
  BY <1>0
<1>1. PICK n \in Bad : \A m \in Bad : n <= m
  <2>1. Bad \subseteq Nat
    OBVIOUS
  <2> HIDE DEF Bad
  <2> QED
    BY <2>1, LeastNat
<1>2. PICK t \in Recorded(a) : ~FromTick(a, W[n][t], n, t)
  OBVIOUS
<1>3. n \in 0 .. MaxRecords /\ n \in Nat
  BY <1>0
<1>4. t \in Places /\ t \in Nat
  BY <1>0
<1>5. CASE n = 0
  <2>1. W[n][t] = <<>>
    BY <1>3, <1>4, <1>5
  <2>2. FromTick(a, <<>>, 0, t)
    BY EmptyWalk
  <2> QED
    BY <1>2, <1>5, <2>1, <2>2
<1>6. CASE n # 0
  <2> DEFINE s == report[a][t].previous_timestamp
  <2>1. n - 1 \in 0 .. MaxRecords /\ n - 1 \in Nat
    <3> HIDE DEF Bad
    <3> QED
      BY <1>0, <1>3, <1>6
  <2>2. n - 1 \notin Bad
    <3> HIDE DEF Bad
    <3> QED
      BY <1>1, <1>3, <2>1
  <2>3. \A u \in Recorded(a) : FromTick(a, W[n - 1][u], n - 1, u)
    BY <2>1, <2>2
  <2>4. W[n][t] = <<PriceAt(a, t)>> \o W[n - 1][s]
    BY <1>3, <1>4, <1>6
  <2>5. s = None => W[n - 1][s] = <<>>
    BY <1>0, <2>1
  <2>6. s # None => s \in Recorded(a)
    <3> HIDE DEF Bad
    <3> QED
      BY LinkIsRecorded
  <2>7. FromTick(a, W[n][t], (n - 1) + 1, t)
    <3> DEFINE rest == W[n - 1][s]
    <3>1. IF s = None THEN rest = <<>> ELSE FromTick(a, rest, n - 1, s)
      BY <2>3, <2>5, <2>6
    <3> HIDE DEF rest
    <3>2. FromTick(a, <<PriceAt(a, t)>> \o rest, (n - 1) + 1, t)
      BY <2>1, <3>1, OneMoreRecord
    <3> QED
      BY <2>4, <3>2 DEF rest
  <2>8. (n - 1) + 1 = n
    BY <1>3
  <2> QED
    BY <1>2, <2>7, <2>8
<1> QED
  BY <1>5, <1>6

(***************************************************************************)
(* prices() answers with the newest records, newest first, whatever ticks  *)
(* nobody reported in and however many are asked for.                      *)
(***************************************************************************)
THEOREM OraclePricesAreNewestFirst == Spec => []PricesAreNewestFirst
<1>1. ASSUME OracleInv, NEW a \in AssetIds, NEW n \in 0 .. MaxRecords + 1
      PROVE  NewestFirst(a, PricesOf(a, n), Min({n, MaxRecords}))
  <2> DEFINE limit == Min({n, MaxRecords})
             T == latest[a].timestamp
  <2>1. limit \in 0 .. MaxRecords
    BY OracleBounds, MinOfTwo
  <2> HIDE DEF limit
  <2>2. LinkedTo(a, latest[a])
    BY <1>1 DEF OracleInv, HistoryIsLinked, LinkedTo
  <2>3. PICK W :
          /\ PricesOf(a, n) = IF latest[a] = None THEN <<>> ELSE W[limit][T]
          /\ \A k \in 0 .. MaxRecords, t \in Places :
                W[k][t] = IF k = 0 \/ t \notin Recorded(a) THEN <<>>
                          ELSE <<PriceAt(a, t)>> \o W[k - 1][report[a][t].previous_timestamp]
    BY <1>1, WalkIs DEF limit, OracleInv
  <2>4. CASE latest[a] = None
    <3>1. PricesOf(a, n) = <<>> /\ Recorded(a) = {} /\ 0 <= limit
      BY <2>1, <2>2, <2>3, <2>4 DEF LinkedTo
    <3> QED
      BY <3>1 DEF NewestFirst, limit
  <2>5. CASE latest[a] # None
    <3>1. T \in Recorded(a) /\ \A u \in Recorded(a) : u <= T
      BY <2>2, <2>5 DEF LinkedTo
    <3>2. FromTick(a, W[limit][T], limit, T)
      BY <1>1, <2>1, <2>3, <3>1, WalkReads
    <3>3. FromTick(a, PricesOf(a, n), limit, T)
      BY <2>3, <2>5, <3>2
    <3>4. DOMAIN PricesOf(a, n) = 1 .. Len(PricesOf(a, n))
      BY <3>3 DEF FromTick
    <3> QED
      BY <3>1, <3>3, <3>4 DEF FromTick, NewestFirst, limit
  <2> QED
    BY <2>4, <2>5
<1>2. OracleInv => PricesAreNewestFirst
  BY <1>1 DEF PricesAreNewestFirst
<1> QED
  BY <1>2, OracleInvInit, OracleInvStep, PTL DEF Spec
=============================================================================
