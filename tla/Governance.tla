----------------------------- MODULE Governance -----------------------------
(***************************************************************************)
(* Proposals and votes (contracts/governance/src/lib.rs): a proposal is    *)
(* open for a number of ledgers, every address votes on it once, and       *)
(* anybody may have it decided afterwards.  A proposal may cost a deposit, *)
(* and no two open proposals may have the same content.                    *)
(*                                                                         *)
(* One invocation is one step, as in RwaAsset; the admin role is that of   *)
(* AdminHandover.  The deposit tokens and the contract votes are weighed   *)
(* by are modelled by what this contract uses of them.                     *)
(***************************************************************************)
EXTENDS TokenUnits, Sequences

CONSTANTS
    Accounts, None,
    IMax,              \* i128::MAX
    LedgerMax,         \* u32::MAX
    MinVotingPeriod, MaxVotingPeriod,   \* MIN_, MAX_VOTING_PERIOD_LEDGERS
    LastLedger,        \* bound: the model stops closing ledgers here
    MaxProposals,      \* bound: the model stops proposing here
    MaxBallots         \* bound: and stops voting here

\* What callers pass, and what the environment does.
CONSTANTS
    Deployers, Successors, Voters,
    Contents,          \* pairs of a title and a description hash, as sequences
    PeriodInputs, WeightInputs, QuorumInputs, ThresholdInputs, SourceInputs,
    Tokens, DepositInputs,
    PowerInputs        \* balances the weight source may come to report

MaxPassThresholdBps == 10000
MinPassThresholdBps == 1
DefaultQuorum == 0
DefaultPassThresholdBps == 5001

ASSUME GovernanceBounds ==
    /\ IMax \in Nat \ {0} /\ LedgerMax \in Nat
    /\ MaxProposals \in Nat /\ MaxBallots \in Nat
    /\ LastLedger \in 0 .. LedgerMax
    /\ MinVotingPeriod \in Nat /\ MaxVotingPeriod \in Nat
ASSUME GovernanceInputs ==
    /\ Deployers \subseteq Accounts /\ Successors \subseteq Accounts
    /\ Voters \subseteq Accounts /\ None \notin Accounts /\ None \notin Tokens
    /\ PeriodInputs \subseteq Nat
    /\ WeightInputs \subseteq Int /\ (\A w \in WeightInputs : w <= IMax)
    /\ QuorumInputs \subseteq Int /\ (\A q \in QuorumInputs : q <= IMax)
    /\ ThresholdInputs \subseteq Nat /\ SourceInputs \subseteq BOOLEAN
    /\ DepositInputs \subseteq [token : Tokens \cup {None}, amount : Int]
    /\ (\A d \in DepositInputs : d.amount <= IMax)
    /\ PowerInputs \subseteq Int /\ (\A p \in PowerInputs : p <= IMax)

VARIABLES
    ledger,            \* env.ledger().sequence()
    admin, pendingAdmin, proposedBy, signer,
    quorum, passBps,   \* QUORUM_KEY, PASS_BPS_KEY
    weighing,          \* is a weight source configured
    power,             \* the balances it reports
    deposit,           \* DEPOSIT_TOKEN_KEY and DEPOSIT_AMOUNT_KEY
    escrow,            \* what the contract owns of each deposit token
    proposals,         \* id |-> Proposal; the count is the length
    slots,             \* ActiveProposalHash: hash |-> id, 0 if absent
    ballots            \* the votes cast; DataKey::Vote holds their id and voter

adminVars  == <<admin, pendingAdmin, proposedBy>>
configVars == <<quorum, passBps, weighing, deposit>>
bookVars   == <<proposals, slots, ballots, escrow>>
vars == <<ledger, signer, adminVars, configVars, power, bookVars>>

Handover == INSTANCE AdminHandover

Ids == 1 .. Len(proposals)
Statuses == {"Active", "Passed", "Rejected", "Cancelled"}

\* proposal_content_hash: a hash of the title's bytes followed by those of the
\* description, equal exactly if the concatenations are.
Hash(content) == content[1] \o content[2]
Hashes == {Hash(c) : c \in Contents}

RequireAuth(addr) == signer' = addr
RequireAdmin == RequireAuth(admin)

\* i128::saturating_mul, of two factors that are not negative.
SaturatingMul(x, y) == IF x * y > IMax THEN IMax ELSE x * y

\* capped_weight
CappedWeight(voter, weight) ==
    IF ~weighing \/ power[voter] >= weight THEN weight
    ELSE IF power[voter] > 0 THEN power[voter] ELSE 0

HasVoted(id, voter) == \E b \in ballots : b.id = id /\ b.voter = voter

-----------------------------------------------------------------------------
Init ==
    /\ \E a \in Deployers : Handover!HandoverInit(a)
    /\ quorum = DefaultQuorum /\ passBps = DefaultPassThresholdBps
    /\ weighing = FALSE
    /\ power = [a \in Accounts |-> 0]
    /\ deposit = [token |-> None, amount |-> 0]
    /\ escrow = [t \in Tokens |-> 0]
    /\ proposals = <<>>
    /\ slots = [h \in Hashes |-> 0]
    /\ ballots = {}
    /\ ledger = 0

\* What this proposal pays: the deposit configured now, if it is not zero.
DepositDue == IF deposit.token # None /\ deposit.amount > 0
                THEN deposit ELSE [token |-> None, amount |-> 0]

\* The contract's balance of the token of d grows, or shrinks, by its amount.
Collect(d) ==
    IF d.token = None THEN UNCHANGED escrow
    ELSE escrow' = [escrow EXCEPT ![d.token] = @ + d.amount]
Refund(d) ==
    IF d.token = None THEN UNCHANGED escrow
    ELSE /\ escrow[d.token] >= d.amount
         /\ escrow' = [escrow EXCEPT ![d.token] = @ - d.amount]

NewProposal(proposer, content, period) ==
    [proposer |-> proposer, content |-> content, votes_for |-> 0, votes_against |-> 0,
     deadline |-> ledger + period, status |-> "Active", deposit |-> DepositDue]

\* Mutant of Propose: a second open proposal with the same content is let in.
Propose_Duplicates(proposer, content, period) ==
    /\ RequireAuth(proposer)
    /\ period \in MinVotingPeriod .. MaxVotingPeriod
    /\ Len(proposals) < MaxProposals
    /\ ledger + period <= LedgerMax
    /\ Collect(DepositDue)
    /\ proposals' = Append(proposals, NewProposal(proposer, content, period))
    /\ slots' = [slots EXCEPT ![Hash(content)] = Len(proposals) + 1]
    /\ UNCHANGED <<ledger, adminVars, configVars, power, ballots>>

Propose(proposer, content, period) ==
    /\ RequireAuth(proposer)
    /\ period \in MinVotingPeriod .. MaxVotingPeriod
    /\ slots[Hash(content)] = 0
    /\ Len(proposals) < MaxProposals
    /\ ledger + period <= LedgerMax
    /\ Collect(DepositDue)
    /\ proposals' = Append(proposals, NewProposal(proposer, content, period))
    /\ slots' = [slots EXCEPT ![Hash(content)] = Len(proposals) + 1]
    /\ UNCHANGED <<ledger, adminVars, configVars, power, ballots>>

\* The proposal with a vote of this weight counted.
Tallied(p, support, weight) ==
    IF support THEN [p EXCEPT !.votes_for = @ + weight]
               ELSE [p EXCEPT !.votes_against = @ + weight]

\* Mutant of Vote: the same address votes again.
Vote_Again(voter, id, support, weight) ==
    LET w == CappedWeight(voter, weight)
    IN  /\ RequireAuth(voter) /\ weight > 0
        /\ proposals[id].status = "Active" /\ ledger <= proposals[id].deadline
        /\ w > 0
        /\ proposals' = [proposals EXCEPT ![id] = Tallied(@, support, w)]
        /\ proposals'[id].votes_for <= IMax /\ proposals'[id].votes_against <= IMax
        /\ ballots' = ballots \cup
              {[id |-> id, voter |-> voter, support |-> support, weight |-> w]}
        /\ UNCHANGED <<ledger, adminVars, configVars, power, slots, escrow>>

Vote(voter, id, support, weight) ==
    LET w == CappedWeight(voter, weight)
    IN  /\ RequireAuth(voter)
        /\ weight > 0
        /\ proposals[id].status = "Active"
        /\ ledger <= proposals[id].deadline
        /\ ~HasVoted(id, voter)
        /\ w > 0
        /\ Cardinality(ballots) < MaxBallots
        /\ proposals' = [proposals EXCEPT ![id] = Tallied(@, support, w)]
        /\ proposals'[id].votes_for <= IMax /\ proposals'[id].votes_against <= IMax
        /\ ballots' = ballots \cup
              {[id |-> id, voter |-> voter, support |-> support, weight |-> w]}
        /\ UNCHANGED <<ledger, adminVars, configVars, power, slots, escrow>>

TotalVotes(p) == p.votes_for + p.votes_against

\* Mutant of Outcome: the threshold is taken of the quorum instead of the votes.
Outcome_OfQuorum(p) ==
    IF TotalVotes(p) = 0 \/ TotalVotes(p) < quorum THEN "Rejected"
    ELSE IF SaturatingMul(p.votes_for, MaxPassThresholdBps)
              >= SaturatingMul(quorum, passBps) THEN "Passed" ELSE "Rejected"

\* What finalize decides.
Outcome(p) ==
    IF TotalVotes(p) = 0 \/ TotalVotes(p) < quorum THEN "Rejected"
    ELSE IF SaturatingMul(p.votes_for, MaxPassThresholdBps)
              >= SaturatingMul(TotalVotes(p), passBps) THEN "Passed" ELSE "Rejected"

\* Mutants of Finalize: the deposit configured now is what is paid back; a
\* decided proposal is decided again; the content stays blocked.
Finalize_RefundsConfigured(id) ==
    LET p == proposals[id]
    IN  /\ ledger > p.deadline /\ p.status = "Active" /\ TotalVotes(p) <= IMax
        /\ proposals' = [proposals EXCEPT ![id].status = Outcome(p)]
        /\ slots' = [slots EXCEPT ![Hash(p.content)] = 0]
        /\ Refund(DepositDue)
        /\ UNCHANGED <<ledger, signer, adminVars, configVars, power, ballots>>
Finalize_Again(id) ==
    LET p == proposals[id]
    IN  /\ ledger > p.deadline /\ TotalVotes(p) <= IMax
        /\ proposals' = [proposals EXCEPT ![id].status = Outcome(p)]
        /\ slots' = [slots EXCEPT ![Hash(p.content)] = 0]
        /\ Refund(p.deposit)
        /\ UNCHANGED <<ledger, signer, adminVars, configVars, power, ballots>>

\* Anybody calls finalize; it asks for no signature.
Finalize(id) ==
    LET p == proposals[id]
    IN  /\ ledger > p.deadline
        /\ p.status = "Active"
        /\ TotalVotes(p) <= IMax
        /\ proposals' = [proposals EXCEPT ![id].status = Outcome(p)]
        /\ slots' = [slots EXCEPT ![Hash(p.content)] = 0]
        /\ Refund(p.deposit)
        /\ UNCHANGED <<ledger, signer, adminVars, configVars, power, ballots>>

\* Neither the content nor the deposit of a cancelled proposal is released.
CancelProposal(caller, id) ==
    LET p == proposals[id]
    IN  /\ RequireAuth(caller)
        /\ caller \in {p.proposer, admin}
        /\ p.status = "Active"
        /\ p.votes_for = 0 /\ p.votes_against = 0
        /\ proposals' = [proposals EXCEPT ![id].status = "Cancelled"]
        /\ UNCHANGED <<ledger, adminVars, configVars, power, slots, ballots, escrow>>

(* Administration *)

SetWeightSource(on) ==
    /\ RequireAdmin
    /\ weighing' = on
    /\ UNCHANGED <<ledger, adminVars, quorum, passBps, deposit, power, bookVars>>

SetProposalDeposit(d) ==
    /\ RequireAdmin
    /\ d.amount >= 0
    /\ deposit' = [d EXCEPT !.amount = IF d.token = None THEN 0 ELSE @]
    /\ UNCHANGED <<ledger, adminVars, quorum, passBps, weighing, power, bookVars>>

SetQuorum(q) ==
    /\ RequireAdmin
    /\ q >= 0
    /\ quorum' = q
    /\ UNCHANGED <<ledger, adminVars, passBps, weighing, deposit, power, bookVars>>

SetPassThresholdBps(bps) ==
    /\ RequireAdmin
    /\ bps \in MinPassThresholdBps .. MaxPassThresholdBps
    /\ passBps' = bps
    /\ UNCHANGED <<ledger, adminVars, quorum, weighing, deposit, power, bookVars>>

\* The handover.
HandoverCall ==
    /\ \/ \E a \in Successors : Handover!ProposeAdmin(a)
       \/ Handover!AcceptAdmin
       \/ Handover!CancelAdminTransfer
    /\ UNCHANGED <<ledger, configVars, power, bookVars>>

(* The environment *)

CloseLedger ==
    /\ ledger < LastLedger
    /\ ledger' = ledger + 1
    /\ UNCHANGED <<signer, adminVars, configVars, power, bookVars>>

\* The balance the weight source reports for an address changes; the model keeps
\* those of the moment when no source is configured.
PowerChanges(addr, balance) ==
    /\ weighing
    /\ power' = [power EXCEPT ![addr] = balance]
    /\ UNCHANGED <<ledger, signer, adminVars, configVars, bookVars>>

-----------------------------------------------------------------------------
ProposalCall ==
    \/ \E a \in Voters, c \in Contents, n \in PeriodInputs : Propose(a, c, n)
    \/ \E id \in Ids :
          \/ \E a \in Voters, s \in BOOLEAN, w \in WeightInputs : Vote(a, id, s, w)
          \/ \E a \in Accounts : CancelProposal(a, id)
          \/ Finalize(id)

ConfigCall ==
    \/ \E on \in SourceInputs : SetWeightSource(on)
    \/ \E d \in DepositInputs : SetProposalDeposit(d)
    \/ \E q \in QuorumInputs : SetQuorum(q)
    \/ \E bps \in ThresholdInputs : SetPassThresholdBps(bps)

Environment ==
    \/ CloseLedger
    \/ \E a \in Voters, p \in PowerInputs : PowerChanges(a, p)

Next == ProposalCall \/ ConfigCall \/ HandoverCall \/ Environment

Spec == Init /\ [][Next]_vars

-----------------------------------------------------------------------------
(* Properties *)

Proposal ==
    [proposer : Accounts, content : Contents, votes_for : 0 .. IMax,
     votes_against : 0 .. IMax, deadline : 0 .. LedgerMax, status : Statuses,
     deposit : [token : Tokens \cup {None}, amount : 0 .. IMax]]

\* Every variable holds a value of its type.
TypeOK ==
    /\ Handover!HandoverTypeOK
    /\ ledger \in 0 .. LastLedger
    /\ quorum \in 0 .. IMax
    /\ passBps \in MinPassThresholdBps .. MaxPassThresholdBps
    /\ weighing \in BOOLEAN
    /\ power \in [Accounts -> Int]
    /\ deposit \in [token : Tokens \cup {None}, amount : 0 .. IMax]
    /\ escrow \in [Tokens -> Nat]
    /\ proposals \in Seq(Proposal) /\ Len(proposals) <= MaxProposals
    /\ slots \in [Hashes -> 0 .. Len(proposals)]
    /\ ballots \subseteq [id : Ids, voter : Accounts, support : BOOLEAN, weight : 1 .. IMax]

(***************************************************************************)
(* At most one open proposal has a given content (#136): an open proposal  *)
(* holds the slot of its content, and nobody else's decision frees it.     *)
(***************************************************************************)
OpenProposalHoldsItsSlot ==
    \A id \in Ids : proposals[id].status = "Active" =>
        slots[Hash(proposals[id].content)] = id

(***************************************************************************)
(* The contract owns, of every token, at least the deposits of the open    *)
(* proposals that paid in it, however the deposit was reconfigured in      *)
(* between: finalize can always pay back what this proposal paid (#134).   *)
(***************************************************************************)
DepositsOf(token, ids) ==
    Total([id \in ids |-> IF proposals[id].deposit.token = token
                            THEN proposals[id].deposit.amount ELSE 0])
OpenIds == {id \in Ids : proposals[id].status = "Active"}
EscrowCoversOpenDeposits == \A t \in Tokens : escrow[t] >= DepositsOf(t, OpenIds)

(***************************************************************************)
(* The two tallies are exactly the ballots: each address counts once per   *)
(* proposal, with the weight it was capped to, on the side it took.        *)
(***************************************************************************)
BallotsFor(id, support) == {b \in ballots : b.id = id /\ b.support = support}
Weighed(bs) == Total([b \in bs |-> b.weight])
TalliesAreBallots ==
    \A id \in Ids :
        /\ proposals[id].votes_for = Weighed(BallotsFor(id, TRUE))
        /\ proposals[id].votes_against = Weighed(BallotsFor(id, FALSE))
        /\ \A b, c \in ballots : b.id = id /\ c.id = id /\ b.voter = c.voter => b = c

(***************************************************************************)
(* A proposal that is no longer open never changes again, so none is       *)
(* decided or refunded twice and none is voted on late.                    *)
(***************************************************************************)
ClosedProposalsAreFinal ==
    [][\A id \in Ids : proposals[id].status # "Active" => proposals'[id] = proposals[id]]_vars

(***************************************************************************)
(* A proposal passes only on votes that reach the quorum and the threshold *)
(* of the ledger it is decided in, computed exactly, whatever was          *)
(* configured when it was made or voted on.  The threshold is promised     *)
(* only as far as the products finalize compares are representable:        *)
(* beyond that both saturate and a minority passes, although vote accepts  *)
(* the weights that lead there.                                            *)
(***************************************************************************)
PassesOnSupport ==
    [][\A id \in Ids :
          LET p == proposals'[id]
          IN  p.status = "Passed" /\ proposals[id].status # "Passed" =>
                /\ TotalVotes(p) > 0 /\ TotalVotes(p) >= quorum
                /\ TotalVotes(p) * MaxPassThresholdBps <= IMax =>
                      p.votes_for * MaxPassThresholdBps >= TotalVotes(p) * passBps]_vars

(***************************************************************************)
(* "released the moment it stops being active, so a genuinely new proposal *)
(* with the same content can be made afterward" (lib.rs:401-402), and "not *)
(* a stake on the result, so finalize refunds it regardless of outcome"    *)
(* (lib.rs:137-138): a cancelled proposal blocks no content, and the       *)
(* contract keeps no deposit but those of open proposals.                  *)
(***************************************************************************)
CancelReleasesTheProposal ==
    /\ \A h \in Hashes : slots[h] # 0 => proposals[slots[h]].status # "Cancelled"
    /\ \A t \in Tokens : escrow[t] <= DepositsOf(t, OpenIds)
=============================================================================
