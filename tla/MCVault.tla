------------------------------- MODULE MCVault -------------------------------
(***************************************************************************)
(* Values of the constants of Vault for the runs.                          *)
(***************************************************************************)
EXTENDS Vault

CONSTANTS alice, bob

\* Two depositors with one unit each, the vault with none.
OneEach == {[a \in Accounts |-> IF a = vault THEN 0 ELSE 1]}

ConfigsWith(rates, caps, lockups, screenings) ==
    {[exchange_rate |-> r, max_share_supply |-> c, lockup_secs |-> l,
      screening |-> s, min_level |-> IF s THEN 1 ELSE 0] :
          r \in rates, c \in caps, l \in lockups, s \in screenings}

\* Two shares a unit, locked and screened; one share a unit, locked; two shares a
\* unit under a cap that one deposit jumps; and a rate and a cap that do not pass
\* validation.
SomeConfigs ==
    ConfigsWith({0, 2}, {-1, 0}, {3}, {TRUE}) \cup ConfigsWith({1}, {0}, {3}, {FALSE})
        \cup ConfigsWith({2}, {1}, {0}, {FALSE})

AnyAmount == -1 .. IMax

\* One that outlives a lock and lapses, and a negative one.
SomeApprovals == {[amount |-> 1, live_until_ledger |-> 1],
                  [amount |-> -1, live_until_ledger |-> 2]}

SomeStandings == {-1, 1}
=============================================================================
