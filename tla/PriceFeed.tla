------------------------------ MODULE PriceFeed ------------------------------
(***************************************************************************)
(* What a price feed promises to whoever relies on it: for each asset a    *)
(* history of dated prices that only grows, each entry dated later than    *)
(* all before it and no later than the moment it is published.             *)
(*                                                                         *)
(* OracleAdapter implements it; the vault's NAV and the appraisal reporter *)
(* rest on it.                                                             *)
(***************************************************************************)
EXTENDS Integers

CONSTANTS AssetIds,    \* what is priced
          Moments,     \* seconds
          Prices       \* what a price may be

VARIABLES now,         \* the clock
          series       \* asset |-> its entries

feedVars == <<now, series>>

Entry == [tick : Moments, price : Prices, published : Moments]

FeedInit ==
    /\ now \in Moments
    /\ series = [a \in AssetIds |-> {}]

Publish(a, e) ==
    /\ e.published = now /\ e.tick <= now
    /\ \A f \in series[a] : f.tick < e.tick
    /\ series' = [series EXCEPT ![a] = @ \cup {e}]
    /\ UNCHANGED now

Wait ==
    /\ now' \in Moments /\ now < now'
    /\ UNCHANGED series

FeedNext == Wait \/ \E a \in AssetIds, e \in Entry : Publish(a, e)

FeedSpec == FeedInit /\ [][FeedNext]_feedVars
=============================================================================
