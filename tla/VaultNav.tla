------------------------------- MODULE VaultNav -------------------------------
(***************************************************************************)
(* The net asset value the vault reports (contracts/vault/src/lib.rs:      *)
(* set_oracles, nav, nav_per_share): the price of the underlying asset,    *)
(* read from one or two sources, none of them stale and the two not too    *)
(* far apart.  A source that fails any of this fails the whole query.      *)
(*                                                                         *)
(* A source is an asset of some oracle contract.  Those of an              *)
(* oracle-adapter keep the promise of PriceFeed (see ImplementsFeed in     *)
(* OracleAdapter) and publish as it says; any other answers what it likes. *)
(* A query that panics answers None.  The units held and the exchange rate *)
(* are those of Vault, which no query here changes; no name of this module *)
(* is one of Vault's, so that both can be extended together.               *)
(***************************************************************************)
EXTENDS PriceFeed, FiniteSetsExt

CONSTANTS
    Others,            \* sources that are no oracle-adapter's; AssetIds are
    OracleOf,          \* source |-> the oracle contract it is read from
    Base, Decimals,    \* oracle contract |-> what base() and decimals() answer
    UnderlyingDecimals,
    NavDecimals,       \* NAV_DECIMALS
    I128Max,           \* i128::MAX
    None               \* Option::None, and a call that fails

\* What callers pass, and what other oracles answer.
CONSTANTS Admin, Callers, OracleInputs,
          Answers            \* source |-> what it may answer

BpsDenominator == 10000
Sources == AssetIds \cup Others

ASSUME NavBounds ==
    /\ I128Max \in Nat /\ NavDecimals \in Nat /\ UnderlyingDecimals \in Nat
    /\ \A s \in Sources : Decimals[OracleOf[s]] \in Nat
    /\ Prices \subseteq 1 .. I128Max /\ Moments \subseteq Nat
ASSUME NavInputs ==
    /\ OracleInputs \subseteq
         [primary : Sources, secondary : Sources \cup {None},
          max_staleness_secs : Nat, max_divergence_bps : Nat] \cup {None}
    /\ Answers \in [Others -> SUBSET ([price : Int, timestamp : Nat] \cup {None})]
    /\ AssetIds \cap Others = {} /\ None \notin Sources

VARIABLES
    oracles,           \* ORACLES_KEY, or None
    answer             \* what lastprice answers for each of Others

navVars == <<feedVars, oracles, answer>>

-----------------------------------------------------------------------------
(* Reads of a source *)

Pow10[n \in Nat] == IF n = 0 THEN 1 ELSE 10 * Pow10[n - 1]

Checked(n) == IF n <= I128Max THEN n ELSE None

AbsDiff(m, n) == IF m >= n THEN m - n ELSE n - m

LastPrice(source) ==
    IF source \in Others THEN answer[source]
    ELSE IF series[source] = {} THEN None
    ELSE LET newest == CHOOSE e \in series[source] :
                          \A f \in series[source] : f.tick <= e.tick
         IN  [price |-> newest.price, timestamp |-> newest.tick]

\* Mutant of Normalize: dropped digits round up.
Normalize_Up(price, from) ==
    LET factor == Pow10[AbsDiff(from, NavDecimals)]
    IN  IF factor > I128Max THEN None
        ELSE IF from >= NavDecimals THEN (price + factor - 1) \div factor
        ELSE Checked(price * factor)

\* normalize_decimals, to NavDecimals.
Normalize(price, from) ==
    LET factor == Pow10[AbsDiff(from, NavDecimals)]
    IN  IF factor > I128Max THEN None
        ELSE IF from >= NavDecimals THEN price \div factor
        ELSE Checked(price * factor)

Fresh(data, maxStaleness) ==
    /\ data.timestamp <= now
    /\ now - data.timestamp <= maxStaleness

\* fetch_source_price.
Fetch(source, maxStaleness) ==
    LET data == LastPrice(source)
    IN  IF data = None THEN None
        ELSE IF ~(data.price > 0 /\ Fresh(data, maxStaleness)) THEN None
        ELSE LET price == Normalize(data.price, Decimals[OracleOf[source]])
             IN  IF price = None THEN None
                 ELSE [price |-> price, timestamp |-> data.timestamp]

-----------------------------------------------------------------------------
(* Queries *)

\* Mutant of Agree: the limit is of the higher price.
Agree_OfHigher(p, q, maxBps) ==
    /\ (Max({p, q}) - Min({p, q})) * BpsDenominator <= I128Max
    /\ Max({p, q}) * maxBps <= I128Max
    /\ (Max({p, q}) - Min({p, q})) * BpsDenominator <= Max({p, q}) * maxBps
\* The two prices are within the limit, of the lower one; products that do not
\* fit are refused too.
Agree(p, q, maxBps) ==
    /\ (Max({p, q}) - Min({p, q})) * BpsDenominator <= I128Max
    /\ Min({p, q}) * maxBps <= I128Max
    /\ (Max({p, q}) - Min({p, q})) * BpsDenominator <= Min({p, q}) * maxBps

\* Mutant of Combine: a source that does not answer is left out.
Combine_FallsBack(first, second, maxBps) ==
    IF first = None \/ second = None THEN (IF first = None THEN second ELSE first)
    ELSE IF ~Agree(first.price, second.price, maxBps) THEN None
    ELSE [price |-> Min({first.price, second.price}),
          timestamp |-> Min({first.timestamp, second.timestamp})]

\* Of two sources the lower price and the older date; nothing unless both answer
\* and agree.
Combine(first, second, maxBps) ==
    IF first = None \/ second = None THEN None
    ELSE IF ~Agree(first.price, second.price, maxBps) THEN None
    ELSE [price |-> Min({first.price, second.price}),
          timestamp |-> Min({first.timestamp, second.timestamp})]

\* get_effective_price_and_timestamp.
EffectivePrice ==
    IF oracles = None THEN None
    ELSE LET first == Fetch(oracles.primary, oracles.max_staleness_secs)
             second == Fetch(oracles.secondary, oracles.max_staleness_secs)
         IN  IF oracles.secondary = None THEN first
             ELSE Combine(first, second, oracles.max_divergence_bps)

\* nav(), of the units held.
Nav(held) ==
    LET p == EffectivePrice
    IN  IF p = None THEN None
        ELSE IF Pow10[UnderlyingDecimals] > I128Max \/ held * p.price > I128Max THEN None
        ELSE [value |-> (held * p.price) \div Pow10[UnderlyingDecimals],
              timestamp |-> p.timestamp]

\* nav_per_share(), at the exchange rate.
NavPerShare(rate) ==
    LET p == EffectivePrice
    IN  IF p = None THEN None
        ELSE [value |-> p.price \div rate, timestamp |-> p.timestamp]

-----------------------------------------------------------------------------
NavInit ==
    /\ FeedInit /\ now = 0
    /\ oracles = None
    /\ answer = [s \in Others |-> None]

ValidOracles(c) ==
    /\ c.max_staleness_secs >= 1
    /\ c.secondary # None =>
          /\ c.max_divergence_bps >= 1
          /\ OracleOf[c.primary] # OracleOf[c.secondary]
          /\ Base[OracleOf[c.primary]] # None
          /\ Base[OracleOf[c.primary]] = Base[OracleOf[c.secondary]]

\* set_oracles; None removes the sources.
SetOracles(caller, c) ==
    /\ caller = Admin
    /\ c # None => ValidOracles(c)
    /\ oracles' = c
    /\ UNCHANGED <<feedVars, answer>>

\* An oracle-adapter publishes, or time passes.
FeedMoves ==
    /\ FeedNext
    /\ UNCHANGED <<oracles, answer>>

\* Another oracle answers differently from now on.
AnswerChanges(source, a) ==
    /\ answer' = [answer EXCEPT ![source] = a]
    /\ UNCHANGED <<feedVars, oracles>>

NavNext ==
    \/ \E a \in Callers, c \in OracleInputs : SetOracles(a, c)
    \/ FeedMoves
    \/ \E s \in Others : \E a \in Answers[s] : AnswerChanges(s, a)

NavSpec == NavInit /\ [][NavNext]_navVars

-----------------------------------------------------------------------------
(* Properties *)

CONSTANTS HeldInputs, RateInputs   \* for which units and rates to ask
ASSUME NavQueries == HeldInputs \subseteq Nat /\ RateInputs \subseteq Nat \ {0}

Configured == IF oracles = None THEN {}
              ELSE {oracles.primary, oracles.secondary} \ {None}

(***************************************************************************)
(* The value reported rests on all configured sources at once, none of     *)
(* them older than the limit nor dated in the future: if nav answers, each *)
(* has a positive price, dated no earlier than nav's own date and within   *)
(* the limit, and one that is an oracle-adapter published it within the    *)
(* limit (a source that falls silent ends the answers, ADR-006: "fail      *)
(* closed").                                                               *)
(***************************************************************************)
NavRestsOnFreshPrices ==
    \A held \in HeldInputs :
        LET nav == Nav(held)
        IN  nav # None =>
              /\ Configured # {}
              /\ \A s \in Configured :
                    LET data == LastPrice(s)
                    IN  /\ data # None /\ data.price > 0
                        /\ nav.timestamp <= data.timestamp /\ data.timestamp <= now
                        /\ s \in AssetIds =>
                             \E e \in series[s] :
                                 /\ e.price = data.price
                                 /\ now - e.published <= oracles.max_staleness_secs
              /\ now - nav.timestamp <= oracles.max_staleness_secs

(***************************************************************************)
(* No rounding, change of decimals or choice between the sources claims    *)
(* more than any configured source would: neither nav nor all shares       *)
(* together, each at nav_per_share, exceed the units at its exact price.   *)
(***************************************************************************)
NavClaimsNoMore ==
    \A s \in Configured, held \in HeldInputs, rate \in RateInputs :
        LET data == LastPrice(s)
            exact == held * data.price * Pow10[NavDecimals]
            scale == Pow10[Decimals[OracleOf[s]]]
        IN  /\ Nav(held) # None =>
                  Nav(held).value * Pow10[UnderlyingDecimals] * scale <= exact
            /\ NavPerShare(rate) # None =>
                  held * rate * NavPerShare(rate).value * scale <= exact

(***************************************************************************)
(* Two sources hold each other: they are two contracts quoting in the same *)
(* currency, and whatever one of them answers, the price used is below the *)
(* other's by at most the divergence limit of itself, and never above it.  *)
(* It is the same whichever of the two is called primary.                  *)
(***************************************************************************)
SourcesHoldEachOther ==
    oracles # None /\ oracles.secondary # None =>
        /\ OracleOf[oracles.primary] # OracleOf[oracles.secondary]
        /\ Base[OracleOf[oracles.primary]] = Base[OracleOf[oracles.secondary]]
        /\ EffectivePrice # None =>
              \A s \in Configured :
                  LET other == Normalize(LastPrice(s).price, Decimals[OracleOf[s]])
                  IN  /\ EffectivePrice.price <= other
                      /\ (other - EffectivePrice.price) * BpsDenominator
                            <= EffectivePrice.price * oracles.max_divergence_bps
=============================================================================
