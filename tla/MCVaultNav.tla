------------------------------ MODULE MCVaultNav ------------------------------
(***************************************************************************)
(* Values of the constants of VaultNav for the run: an adapter (two        *)
(* decimals, NAV having one) that lists the asset and something else, and  *)
(* two other oracles, without decimals, one of them quoting in another     *)
(* currency.                                                               *)
(***************************************************************************)
EXTENDS VaultNav, TLC

CONSTANTS alice, bob, own, ownOther, market, foreign

SomeOracleOf == own :> "adapter" @@ ownOther :> "adapter" @@ market :> "market" @@ foreign :> "foreign"
SomeBase == [adapter |-> "USD", market |-> "USD", foreign |-> "EUR"]
SomeDecimals == [adapter |-> 2, market |-> 0, foreign |-> 0]

Pair(p, s, staleness, bps) ==
    [primary |-> p, secondary |-> s, max_staleness_secs |-> staleness, max_divergence_bps |-> bps]

\* One source; two in either order; no limit; the same contract twice; another
\* currency; none.
SomeOracles ==
    {Pair(own, None, 1, 0), Pair(own, market, 1, 2000), Pair(market, own, 2, 2000),
     Pair(own, market, 0, 2000), Pair(own, market, 1, 0),
     Pair(own, ownOther, 1, 2000), Pair(own, foreign, 1, 2000), None}

\* No answer, prices of every sign and dates in the past, present and future.
SomeAnswers ==
    [s \in Others |->
        IF s = market THEN {None} \cup [price : {0, 1, 2}, timestamp : {0, 2, 4}] ELSE {}]
=============================================================================
