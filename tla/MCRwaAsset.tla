----------------------------- MODULE MCRwaAsset -----------------------------
(***************************************************************************)
(* Values of the constants of RwaAsset for the runs.  Each run opens the   *)
(* inputs of the part it is about and leaves the others empty.             *)
(***************************************************************************)
EXTENDS RwaAsset

CONSTANTS alice, bob, carol, doc1

MetadataWith(decimals, caps, docs) ==
    [decimals : decimals, max_supply : caps, doc : docs]

\* One denomination and document, uncapped.
PlainMetadata == MetadataWith({7}, {0}, {doc1})

\* No cap, one below what can be minted and one at it; and a cap, a denomination
\* and a document that fail validation.
BookMetadata == MetadataWith({7}, {-1, 0, 2, 3}, {doc1})
                  \cup MetadataWith({19}, {2}, {doc1}) \cup MetadataWith({7}, {2}, {None})

\* Every amount a caller may pass, representable or not.
AnyAmount == -1 .. IMax

\* Approvals: none, one that lapses after ledger 0, one that holds, and a
\* negative one.
SomeApprovals == {[amount |-> 0, live_until_ledger |-> 0],
                  [amount |-> 2, live_until_ledger |-> 0],
                  [amount |-> 2, live_until_ledger |-> 1],
                  [amount |-> -1, live_until_ledger |-> 1]}

\* One that holds.
OneApproval == {[amount |-> 2, live_until_ledger |-> 0]}

\* No screening, screening for level 2, and a level nobody can reach.
ScreenInputs == {[screening |-> FALSE, min_level |-> 0],
                 [screening |-> TRUE, min_level |-> 2],
                 [screening |-> TRUE, min_level |-> 4]}

\* Nobody knows the address, it is verified, or it is verified far enough.
SomeStandings == {-1, 1, 2}
=============================================================================
