-------------------------- MODULE GovernanceProofs --------------------------
(***************************************************************************)
(* Governance, for any accounts, contents, tokens, periods and widths of   *)
(* the amounts: one open proposal per content, no decision taken twice or  *)
(* taken back, every open deposit still owned, every vote counted once,    *)
(* and no proposal passed without its votes.                               *)
(***************************************************************************)
EXTENDS Governance, FiniteSetTheorems, TLAPS

-----------------------------------------------------------------------------
(* Totals *)

\* Of the token ledger only what is proved of Total is taken, which is about any
\* table; the ledger's own constants and variables play no part.
Books == INSTANCE TokenLedgerProofs
           WITH Accounts <- {}, balance <- power, totalSupply <- quorum

LEMMA SameCounts ==
    /\ IMax \in Nat \ {0} /\ Books!IsFiniteSet({})
    /\ \A A : Books!IsFiniteSet(A) <=> IsFiniteSet(A)
    /\ \A t : Books!Total(t) = Total(t)
<1>1. \A A : Books!IsFiniteSet(A) <=> IsFiniteSet(A)
  BY DEF IsFiniteSet, Books!IsFiniteSet
<1>2. \A A : Books!Cardinality(A) = Cardinality(A)
  BY DEF Cardinality, Books!Cardinality
<1>3. \A t : Books!Total(t) = Total(t)
  BY <1>2 DEF Total, Books!Total, Units, Books!Units
<1> QED
  BY <1>1, <1>3, FS_EmptySet, GovernanceBounds

\* The total of a finite table is a natural number.
LEMMA TotalIsNat ==
    ASSUME NEW A, IsFiniteSet(A), NEW M \in Nat, NEW bal \in [A -> 0 .. M]
    PROVE  Total(bal) \in Nat
<1>1. Books!IsFiniteSet(A)
  BY SameCounts
<1>2. Books!Total(bal) \in Nat
  BY <1>1, SameCounts, Books!UnitsFinite, SMT
<1> QED
  BY <1>2, SameCounts

\* A table of nothing but zeros totals zero.
LEMMA TotalZero ==
    ASSUME NEW A
    PROVE  Total([a \in A |-> 0]) = 0
<1>1. Books!Total([a \in A |-> 0]) = 0
  BY SameCounts, Books!TotalZero
<1> QED
  BY <1>1, SameCounts

\* A table with one entry more totals that much more.
LEMMA TotalExtend ==
    ASSUME NEW A, IsFiniteSet(A), NEW M \in Nat, NEW x, x \notin A,
           NEW bal \in [A -> 0 .. M], NEW new \in [A \cup {x} -> 0 .. M],
           \A a \in A : new[a] = bal[a]
    PROVE  Total(new) = Total(bal) + new[x]
<1>1. Books!IsFiniteSet(A)
  BY SameCounts
<1>2. Books!Total(new) = Books!Total(bal) + new[x]
  BY <1>1, SameCounts, Books!TotalExtend, SMT
<1> QED
  BY <1>2, SameCounts

-----------------------------------------------------------------------------

\* The ballots are finitely many, so they can be counted.
Typed == TypeOK /\ IsFiniteSet(ballots)

-----------------------------------------------------------------------------
(* What a call does to the proposals *)

\* Another element in one place of a sequence.
LEMMA ReplaceOne ==
    ASSUME NEW S, NEW s \in Seq(S), NEW i \in 1 .. Len(s), NEW q \in S
    PROVE  LET r == [s EXCEPT ![i] = q]
           IN  /\ r \in Seq(S) /\ Len(r) = Len(s) /\ r[i] = q
               /\ \A j \in 1 .. Len(s) : j # i => r[j] = s[j]
  OBVIOUS

LEMMA ProposalTypes ==
    ASSUME TypeOK, NEW id \in Ids
    PROVE  proposals[id] \in Proposal
BY DEF TypeOK, Ids

\* What propose appends is a proposal, and pays what is due.
LEMMA DueTypes ==
    ASSUME TypeOK
    PROVE  DepositDue \in [token : Tokens \cup {None}, amount : 0 .. IMax]
<1>1. deposit \in [token : Tokens \cup {None}, amount : 0 .. IMax]
  BY DEF TypeOK
<1>2. [token |-> None, amount |-> 0] \in [token : Tokens \cup {None}, amount : 0 .. IMax]
  BY GovernanceBounds
<1> QED
  BY <1>1, <1>2 DEF DepositDue

LEMMA NewTypes ==
    ASSUME TypeOK, NEW a \in Voters, NEW c \in Contents, NEW n \in PeriodInputs,
           ledger + n <= LedgerMax
    PROVE  NewProposal(a, c, n) \in Proposal
<1>1. ledger + n \in 0 .. LedgerMax
  <2>1. ledger \in Nat /\ n \in Nat
    BY GovernanceBounds, GovernanceInputs DEF TypeOK
  <2> QED
    BY <2>1, GovernanceBounds
<1>2. DepositDue \in [token : Tokens \cup {None}, amount : 0 .. IMax]
  BY DueTypes
<1>3. a \in Accounts /\ 0 \in 0 .. IMax /\ "Active" \in Statuses
  BY GovernanceInputs, GovernanceBounds DEF Statuses
<1> QED
  BY <1>1, <1>2, <1>3 DEF NewProposal, Proposal

LEMMA ProposeAdds ==
    ASSUME TypeOK, NEW a \in Voters, NEW c \in Contents, NEW n \in PeriodInputs,
           Propose(a, c, n)
    PROVE  LET new == Len(proposals) + 1
           IN  /\ Len(proposals') = new /\ new <= MaxProposals
               /\ proposals' \in Seq(Proposal)
               /\ proposals'[new] = NewProposal(a, c, n)
               /\ \A id \in Ids : proposals'[id] = proposals[id]
<1>1. NewProposal(a, c, n) \in Proposal
  BY NewTypes DEF Propose
<1>2. proposals' = Append(proposals, NewProposal(a, c, n)) /\ Len(proposals) < MaxProposals
  BY DEF Propose
<1>3. proposals \in Seq(Proposal) /\ MaxProposals \in Nat
  BY GovernanceBounds DEF TypeOK
<1>4. Len(proposals) + 1 <= MaxProposals
  BY <1>2, <1>3
<1> QED
  BY <1>1, <1>2, <1>3, <1>4 DEF Ids

\* finalize and cancel_proposal write the status and nothing else.
LEMMA CloseWrites ==
    ASSUME TypeOK, NEW id \in Ids, NEW st \in Statuses,
           proposals' = [proposals EXCEPT ![id].status = st]
    PROVE  /\ Len(proposals') = Len(proposals) /\ proposals' \in Seq(Proposal)
           /\ proposals'[id] = [proposals[id] EXCEPT !.status = st]
           /\ \A j \in Ids : j # id => proposals'[j] = proposals[j]
<1>1. proposals \in Seq(Proposal) /\ id \in 1 .. Len(proposals)
  BY DEF TypeOK, Ids
<1>2. [proposals[id] EXCEPT !.status = st] \in Proposal
  BY ProposalTypes DEF Proposal
<1>3. proposals' = [proposals EXCEPT ![id] = [proposals[id] EXCEPT !.status = st]]
  OBVIOUS
<1> QED
  BY <1>1, <1>2, <1>3, ReplaceOne DEF Ids

\* A vote is never worth more than its weight, nor less than a unit.
LEMMA WeightTypes ==
    ASSUME TypeOK, NEW a \in Voters, NEW w \in WeightInputs, w > 0, CappedWeight(a, w) > 0
    PROVE  CappedWeight(a, w) \in 1 .. IMax
<1>1. w \in Int /\ w <= IMax /\ IMax \in Nat
  BY GovernanceInputs, GovernanceBounds
<1>2. power[a] \in Int
  BY GovernanceInputs DEF TypeOK
<1> QED
  BY <1>1, <1>2 DEF CappedWeight

LEMMA VoteWrites ==
    ASSUME TypeOK, NEW a \in Voters, NEW id \in Ids, NEW s \in BOOLEAN,
           NEW w \in WeightInputs, Vote(a, id, s, w)
    PROVE  LET v == CappedWeight(a, w)
           IN  /\ v \in 1 .. IMax
               /\ Len(proposals') = Len(proposals) /\ proposals' \in Seq(Proposal)
               /\ proposals'[id] = Tallied(proposals[id], s, v)
               /\ \A j \in Ids : j # id => proposals'[j] = proposals[j]
<1> DEFINE v == CappedWeight(a, w)
           p == Tallied(proposals[id], s, v)
<1>1. v \in 1 .. IMax
  BY WeightTypes DEF Vote
<1>2. /\ proposals' = [proposals EXCEPT ![id] = p]
      /\ proposals'[id].votes_for <= IMax /\ proposals'[id].votes_against <= IMax
  BY DEF Vote
<1>3. proposals[id] \in Proposal
  BY ProposalTypes
<1>4. proposals \in Seq(Proposal) /\ id \in 1 .. Len(proposals)
  BY DEF TypeOK, Ids
<1> HIDE DEF v
<1>5. proposals'[id] = p
  BY <1>2, <1>4
<1>6. p.votes_for <= IMax /\ p.votes_against <= IMax
  BY <1>2, <1>5
<1>7. p \in Proposal
  <2>1. CASE s
    <3>1. p = [proposals[id] EXCEPT !.votes_for = proposals[id].votes_for + v]
      BY <2>1 DEF Tallied
    <3>2. proposals[id].votes_for + v \in 0 .. IMax
      <4>1. p.votes_for = proposals[id].votes_for + v
        BY <3>1, <1>3 DEF Proposal
      <4>2. proposals[id].votes_for \in 0 .. IMax
        BY <1>3 DEF Proposal
      <4> QED
        BY <4>1, <4>2, <1>1, <1>6, GovernanceBounds
    <3> HIDE DEF p
    <3> QED
      BY <3>1, <3>2, <1>3 DEF Proposal
  <2>2. CASE ~s
    <3>1. p = [proposals[id] EXCEPT !.votes_against = proposals[id].votes_against + v]
      BY <2>2 DEF Tallied
    <3>2. proposals[id].votes_against + v \in 0 .. IMax
      <4>1. p.votes_against = proposals[id].votes_against + v
        BY <3>1, <1>3 DEF Proposal
      <4>2. proposals[id].votes_against \in 0 .. IMax
        BY <1>3 DEF Proposal
      <4> QED
        BY <4>1, <4>2, <1>1, <1>6, GovernanceBounds
    <3> HIDE DEF p
    <3> QED
      BY <3>1, <3>2, <1>3 DEF Proposal
  <2> QED
    BY <2>1, <2>2
<1> HIDE DEF p
<1>8. /\ proposals' \in Seq(Proposal) /\ Len(proposals') = Len(proposals)
      /\ \A j \in Ids : j # id => proposals'[j] = proposals[j]
  BY <1>2, <1>4, <1>7, ReplaceOne DEF Ids
<1> QED
  BY <1>1, <1>5, <1>8 DEF v, p

-----------------------------------------------------------------------------
(* Types *)

\* The parts of the type invariant: who decides and by which rules, and what has been
\* proposed, voted and paid.
RulesTyped ==
    /\ Handover!HandoverTypeOK
    /\ ledger \in 0 .. LastLedger
    /\ quorum \in 0 .. IMax
    /\ passBps \in MinPassThresholdBps .. MaxPassThresholdBps
    /\ weighing \in BOOLEAN
    /\ power \in [Accounts -> Int]
    /\ deposit \in [token : Tokens \cup {None}, amount : 0 .. IMax]
BooksTyped ==
    /\ escrow \in [Tokens -> Nat]
    /\ proposals \in Seq(Proposal) /\ Len(proposals) <= MaxProposals
    /\ slots \in [Hashes -> 0 .. Len(proposals)]
    /\ ballots \subseteq [id : Ids, voter : Accounts, support : BOOLEAN, weight : 1 .. IMax]
    /\ IsFiniteSet(ballots)

LEMMA TypedParts == Typed <=> RulesTyped /\ BooksTyped
BY DEF Typed, TypeOK, RulesTyped, BooksTyped

\* Configuration, the admin role and the environment leave the books alone.
LEMMA QuietCalls ==
    ASSUME ConfigCall \/ HandoverCall \/ Environment \/ UNCHANGED vars
    PROVE  UNCHANGED bookVars
<1>1. CASE ConfigCall
  BY <1>1 DEF ConfigCall, SetWeightSource, SetProposalDeposit, SetQuorum,
     SetPassThresholdBps
<1>2. CASE HandoverCall
  BY <1>2 DEF HandoverCall
<1>3. CASE Environment
  BY <1>3 DEF Environment, CloseLedger, PowerChanges
<1>4. CASE UNCHANGED vars
  BY <1>4 DEF vars
<1> QED
  BY <1>1, <1>2, <1>3, <1>4

\* A call about a proposal leaves the rules alone.
LEMMA ProposalCallsKeepRules ==
    ASSUME RulesTyped, ProposalCall
    PROVE  /\ UNCHANGED <<ledger, adminVars, configVars, power>>
           /\ signer' \in Accounts
<1> DEFINE Kept == /\ UNCHANGED <<ledger, adminVars, configVars, power>>
                   /\ signer' \in Accounts
<1>0. signer \in Accounts /\ Voters \subseteq Accounts
  BY GovernanceInputs DEF RulesTyped, Handover!HandoverTypeOK
<1>1. ASSUME NEW a \in Voters, NEW c \in Contents, NEW n \in PeriodInputs,
             Propose(a, c, n)
      PROVE  Kept
  BY <1>0, <1>1 DEF Propose, RequireAuth
<1>2. ASSUME NEW id \in Ids, NEW a \in Voters, NEW s \in BOOLEAN, NEW w \in WeightInputs,
             Vote(a, id, s, w)
      PROVE  Kept
  BY <1>0, <1>2 DEF Vote, RequireAuth
<1>3. ASSUME NEW id \in Ids, NEW a \in Accounts, CancelProposal(a, id)
      PROVE  Kept
  BY <1>3 DEF CancelProposal, RequireAuth
<1>4. ASSUME NEW id \in Ids, Finalize(id)
      PROVE  Kept
  BY <1>0, <1>4 DEF Finalize
<1> QED
  BY <1>1, <1>2, <1>3, <1>4 DEF ProposalCall

LEMMA RulesStep ==
    ASSUME RulesTyped, [Next]_vars
    PROVE  RulesTyped'
<1> USE DEF Handover!HandoverTypeOK
<1>0. admin \in Accounts
  BY DEF RulesTyped
<1>1. CASE ProposalCall
  <2>1. UNCHANGED <<ledger, adminVars, configVars, power>> /\ signer' \in Accounts
    BY <1>1, ProposalCallsKeepRules
  <2> QED
    BY <2>1 DEF RulesTyped, adminVars, configVars
<1>2. CASE ConfigCall
  <2>1. signer' = admin /\ UNCHANGED <<ledger, adminVars, power>>
    BY <1>2 DEF ConfigCall, SetWeightSource, SetProposalDeposit, SetQuorum,
       SetPassThresholdBps, RequireAdmin, RequireAuth
  <2>2. /\ quorum' \in 0 .. IMax
        /\ passBps' \in MinPassThresholdBps .. MaxPassThresholdBps
        /\ weighing' \in BOOLEAN
        /\ deposit' \in [token : Tokens \cup {None}, amount : 0 .. IMax]
    <3>1. CASE \E on \in SourceInputs : SetWeightSource(on)
      BY <3>1, GovernanceInputs DEF SetWeightSource, RulesTyped
    <3>2. ASSUME NEW d \in DepositInputs, SetProposalDeposit(d)
          PROVE  /\ UNCHANGED <<quorum, passBps, weighing>>
                 /\ deposit' \in [token : Tokens \cup {None}, amount : 0 .. IMax]
      <4>1. /\ d \in [token : Tokens \cup {None}, amount : Int]
            /\ d.amount <= IMax /\ d.amount >= 0 /\ IMax \in Nat
        BY <3>2, GovernanceInputs, GovernanceBounds DEF SetProposalDeposit
      <4>2. d.amount \in 0 .. IMax /\ 0 \in 0 .. IMax
        BY <4>1
      <4>3. deposit' = [d EXCEPT !.amount = IF d.token = None THEN 0 ELSE d.amount]
        BY <3>2 DEF SetProposalDeposit
      <4>4. (IF d.token = None THEN 0 ELSE d.amount) \in 0 .. IMax
        BY <4>2
      <4>5. deposit' \in [token : Tokens \cup {None}, amount : 0 .. IMax]
        BY <4>1, <4>3, <4>4
      <4> QED
        BY <3>2, <4>5 DEF SetProposalDeposit
    <3>3. CASE \E q \in QuorumInputs : SetQuorum(q)
      BY <3>3, GovernanceInputs, GovernanceBounds DEF SetQuorum, RulesTyped
    <3>4. CASE \E bps \in ThresholdInputs : SetPassThresholdBps(bps)
      BY <3>4 DEF SetPassThresholdBps, RulesTyped
    <3> QED
      BY <1>2, <3>1, <3>2, <3>3, <3>4 DEF ConfigCall, RulesTyped
  <2> QED
    BY <1>0, <2>1, <2>2 DEF RulesTyped, adminVars
<1>3. CASE HandoverCall
  <2>1. UNCHANGED <<ledger, configVars, power>>
    BY <1>3 DEF HandoverCall
  <2>2. /\ admin' \in Accounts /\ signer' \in Accounts
        /\ pendingAdmin' \in Accounts \cup {None}
        /\ proposedBy' \in Accounts \cup {None}
    <3>1. \/ \E a \in Successors : Handover!ProposeAdmin(a)
          \/ Handover!AcceptAdmin
          \/ Handover!CancelAdminTransfer
      BY <1>3 DEF HandoverCall
    <3> QED
      BY <3>1, GovernanceInputs
         DEF RulesTyped, Handover!ProposeAdmin, Handover!AcceptAdmin,
             Handover!CancelAdminTransfer, Handover!RequireAdmin, Handover!RequireAuth
  <2> QED
    BY <2>1, <2>2 DEF RulesTyped, configVars
<1>4. CASE CloseLedger
  <2>1. ledger' \in 0 .. LastLedger
    BY <1>4, GovernanceBounds DEF CloseLedger, RulesTyped
  <2> QED
    BY <1>4, <2>1 DEF CloseLedger, RulesTyped, adminVars, configVars
<1>5. ASSUME NEW a \in Voters, NEW p \in PowerInputs, PowerChanges(a, p)
      PROVE  RulesTyped'
  <2>1. power' \in [Accounts -> Int]
    BY <1>5, GovernanceInputs DEF PowerChanges, RulesTyped
  <2> QED
    BY <1>5, <2>1 DEF PowerChanges, RulesTyped, adminVars, configVars
<1>6. CASE UNCHANGED vars
  BY <1>6 DEF vars, RulesTyped, adminVars, configVars
<1> QED
  BY <1>1, <1>2, <1>3, <1>4, <1>5, <1>6 DEF Next, Environment

\* Paying in and paying out leave a count of units in each token.
LEMMA CollectTypes ==
    ASSUME escrow \in [Tokens -> Nat], NEW d, d.token \in Tokens \cup {None},
           d.amount \in Nat, Collect(d)
    PROVE  escrow' \in [Tokens -> Nat]
BY DEF Collect

LEMMA RefundTypes ==
    ASSUME escrow \in [Tokens -> Nat], NEW d, d.token \in Tokens \cup {None},
           d.amount \in Nat, Refund(d)
    PROVE  escrow' \in [Tokens -> Nat]
BY DEF Refund

LEMMA OutcomeTypes == ASSUME NEW p PROVE Outcome(p) \in Statuses
BY DEF Outcome, Statuses

LEMMA BooksStep ==
    ASSUME Typed, [Next]_vars
    PROVE  BooksTyped'
<1>0. TypeOK /\ BooksTyped /\ IMax \in Nat
  BY TypedParts, GovernanceBounds DEF Typed
<1>1. ASSUME NEW a \in Voters, NEW c \in Contents, NEW n \in PeriodInputs,
             Propose(a, c, n)
      PROVE  BooksTyped'
  <2>1. /\ Len(proposals') = Len(proposals) + 1 /\ Len(proposals') <= MaxProposals
        /\ proposals' \in Seq(Proposal)
    BY <1>0, <1>1, ProposeAdds
  <2>2. /\ slots' = [slots EXCEPT ![Hash(c)] = Len(proposals) + 1]
        /\ ballots' = ballots /\ Collect(DepositDue)
    BY <1>1 DEF Propose
  <2>3. Hash(c) \in Hashes /\ Len(proposals) \in Nat
    BY <1>0 DEF Hashes, BooksTyped
  <2>4. slots' \in [Hashes -> 0 .. Len(proposals')]
    BY <1>0, <2>1, <2>2, <2>3 DEF BooksTyped
  <2>5. DepositDue.token \in Tokens \cup {None} /\ DepositDue.amount \in Nat
    BY <1>0, DueTypes
  <2>6. escrow' \in [Tokens -> Nat]
    BY <1>0, <2>2, <2>5, CollectTypes DEF BooksTyped
  <2>7. Ids \subseteq Ids'
    BY <2>1, <2>3 DEF Ids
  <2>8. ballots' \subseteq [id : Ids', voter : Accounts, support : BOOLEAN,
                            weight : 1 .. IMax]
    BY <1>0, <2>2, <2>7 DEF BooksTyped
  <2> QED
    BY <1>0, <2>1, <2>2, <2>4, <2>6, <2>8 DEF BooksTyped
<1>2. ASSUME NEW id \in Ids, NEW a \in Voters, NEW s \in BOOLEAN, NEW w \in WeightInputs,
             Vote(a, id, s, w)
      PROVE  BooksTyped'
  <2> DEFINE b == [id |-> id, voter |-> a, support |-> s, weight |-> CappedWeight(a, w)]
  <2>1. /\ CappedWeight(a, w) \in 1 .. IMax
        /\ Len(proposals') = Len(proposals) /\ proposals' \in Seq(Proposal)
    BY <1>0, <1>2, VoteWrites
  <2>2. ballots' = ballots \cup {b} /\ UNCHANGED <<slots, escrow>>
    BY <1>2 DEF Vote
  <2>3. Ids' = Ids
    BY <2>1 DEF Ids
  <2>4. b \in [id : Ids, voter : Accounts, support : BOOLEAN, weight : 1 .. IMax]
    BY <2>1, GovernanceInputs
  <2> HIDE DEF b
  <2>5. ballots' \subseteq [id : Ids', voter : Accounts, support : BOOLEAN,
                            weight : 1 .. IMax]
    BY <1>0, <2>2, <2>3, <2>4 DEF BooksTyped
  <2>6. IsFiniteSet(ballots')
    BY <1>0, <2>2, FS_AddElement DEF BooksTyped
  <2> QED
    BY <1>0, <2>1, <2>2, <2>5, <2>6 DEF BooksTyped
<1>3. ASSUME NEW id \in Ids, NEW a \in Accounts, CancelProposal(a, id)
      PROVE  BooksTyped'
  <2>1. proposals' = [proposals EXCEPT ![id].status = "Cancelled"]
        /\ UNCHANGED <<slots, ballots, escrow>>
    BY <1>3 DEF CancelProposal
  <2>2. Len(proposals') = Len(proposals) /\ proposals' \in Seq(Proposal)
    BY <1>0, <2>1, CloseWrites DEF Statuses
  <2>3. Ids' = Ids
    BY <2>2 DEF Ids
  <2> QED
    BY <1>0, <2>1, <2>2, <2>3 DEF BooksTyped
<1>4. ASSUME NEW id \in Ids, Finalize(id)
      PROVE  BooksTyped'
  <2> DEFINE st == Outcome(proposals[id])
             h == Hash(proposals[id].content)
             d == proposals[id].deposit
  <2>1. /\ proposals' = [proposals EXCEPT ![id].status = st]
        /\ slots' = [slots EXCEPT ![h] = 0]
        /\ Refund(d) /\ ballots' = ballots
    BY <1>4 DEF Finalize
  <2>2. st \in Statuses
    BY OutcomeTypes
  <2>3. d.token \in Tokens \cup {None} /\ d.amount \in Nat
    <3>1. proposals[id] \in Proposal
      BY <1>0, ProposalTypes
    <3> QED
      BY <3>1 DEF Proposal
  <2> HIDE DEF st, h, d
  <2>4. Len(proposals') = Len(proposals) /\ proposals' \in Seq(Proposal)
    BY <1>0, <2>1, <2>2, CloseWrites
  <2>5. Ids' = Ids
    BY <2>4 DEF Ids
  <2>6. slots' \in [Hashes -> 0 .. Len(proposals')]
    <3>1. Len(proposals) \in Nat /\ slots \in [Hashes -> 0 .. Len(proposals)]
      BY <1>0 DEF BooksTyped
    <3>2. 0 \in 0 .. Len(proposals)
      BY <3>1
    <3>3. slots' \in [Hashes -> 0 .. Len(proposals)]
      BY <2>1, <3>1, <3>2
    <3> QED
      BY <2>4, <3>3
  <2>7. escrow' \in [Tokens -> Nat]
    BY <1>0, <2>1, <2>3, RefundTypes DEF BooksTyped
  <2> QED
    BY <1>0, <2>1, <2>4, <2>5, <2>6, <2>7 DEF BooksTyped
<1>5. ASSUME UNCHANGED bookVars
      PROVE  BooksTyped'
  BY <1>0, <1>5 DEF bookVars, BooksTyped, Ids
<1>6. CASE ProposalCall
  BY <1>1, <1>2, <1>3, <1>4, <1>6 DEF ProposalCall
<1>7. CASE ConfigCall \/ HandoverCall \/ Environment \/ UNCHANGED vars
  BY <1>5, <1>7, QuietCalls
<1> QED
  BY <1>6, <1>7 DEF Next

LEMMA TypedInit == Init => Typed
<1> SUFFICES ASSUME Init PROVE Typed
  OBVIOUS
<1>1. RulesTyped
  <2>1. Handover!HandoverTypeOK
    BY GovernanceInputs DEF Init, Handover!HandoverInit, Handover!HandoverTypeOK
  <2>2. /\ 0 \in 0 .. LastLedger /\ 0 \in 0 .. IMax
        /\ 5001 \in MinPassThresholdBps .. MaxPassThresholdBps
    BY GovernanceBounds DEF MinPassThresholdBps, MaxPassThresholdBps
  <2>3. deposit \in [token : Tokens \cup {None}, amount : 0 .. IMax]
    BY <2>2 DEF Init
  <2>4. /\ ledger \in 0 .. LastLedger /\ quorum \in 0 .. IMax
        /\ passBps \in MinPassThresholdBps .. MaxPassThresholdBps
    BY <2>2 DEF Init, DefaultQuorum, DefaultPassThresholdBps
  <2>5. power \in [Accounts -> Int]
    BY DEF Init
  <2>6. weighing \in BOOLEAN
    BY DEF Init
  <2> QED
    BY <2>1, <2>3, <2>4, <2>5, <2>6 DEF RulesTyped
<1>2. BooksTyped
  <2>1. /\ proposals = <<>> /\ ballots = {}
        /\ slots = [h \in Hashes |-> 0] /\ escrow = [t \in Tokens |-> 0]
    BY DEF Init
  <2>2. IsFiniteSet({})
    BY FS_EmptySet
  <2>3. Len(proposals) = 0 /\ proposals \in Seq(Proposal)
    BY <2>1
  <2> QED
    BY <2>1, <2>2, <2>3, GovernanceBounds DEF BooksTyped
<1> QED
  BY <1>1, <1>2, TypedParts

LEMMA TypedStep == Typed /\ [Next]_vars => Typed'
<1> SUFFICES ASSUME Typed, [Next]_vars PROVE Typed'
  OBVIOUS
<1>1. RulesTyped'
  BY TypedParts, RulesStep
<1>2. BooksTyped'
  BY BooksStep
<1>3. (RulesTyped /\ BooksTyped)' => Typed'
  BY DEF Typed, TypeOK, RulesTyped, BooksTyped
<1> QED
  BY <1>1, <1>2, <1>3

LEMMA AlwaysTyped == Spec => []Typed
  BY TypedInit, TypedStep, PTL DEF Spec

(***************************************************************************)
(* Every variable of the contract holds a value of its type: no tally      *)
(* leaves the range of i128, no slot names a proposal that was not made,   *)
(* and no ballot counts for one that does not exist.                       *)
(***************************************************************************)
THEOREM GovernanceTypes == Spec => []TypeOK
<1>1. Typed => TypeOK
  BY DEF Typed
<1> QED
  BY <1>1, AlwaysTyped, PTL

-----------------------------------------------------------------------------
(* What a step does, for the proofs below *)

\* The four calls that write the books, and everything else.
LEMMA StepCases ==
    ASSUME [Next]_vars
    PROVE  \/ \E a \in Voters, c \in Contents, n \in PeriodInputs : Propose(a, c, n)
           \/ \E id \in Ids, a \in Voters, s \in BOOLEAN, w \in WeightInputs :
                 Vote(a, id, s, w)
           \/ \E id \in Ids, a \in Accounts : CancelProposal(a, id)
           \/ \E id \in Ids : Finalize(id)
           \/ UNCHANGED bookVars
<1>1. CASE ProposalCall
  BY <1>1 DEF ProposalCall
<1>2. CASE ConfigCall \/ HandoverCall \/ Environment \/ UNCHANGED vars
  BY <1>2, QuietCalls
<1> QED
  BY <1>1, <1>2 DEF Next

\* A vote touches the tally of its side only.
LEMMA TalliedKeeps ==
    ASSUME NEW p \in Proposal, NEW s \in BOOLEAN, NEW v \in 1 .. IMax
    PROVE  LET q == Tallied(p, s, v)
           IN  /\ q.status = p.status /\ q.content = p.content /\ q.deposit = p.deposit
               /\ q.votes_for = IF s THEN p.votes_for + v ELSE p.votes_for
               /\ q.votes_against = IF s THEN p.votes_against ELSE p.votes_against + v
<1>1. CASE s
  BY <1>1 DEF Tallied, Proposal
<1>2. CASE ~s
  BY <1>2 DEF Tallied, Proposal
<1> QED
  BY <1>1, <1>2

LEMMA ClosedKeeps ==
    ASSUME NEW p \in Proposal, NEW st
    PROVE  LET q == [p EXCEPT !.status = st]
           IN  /\ q.status = st /\ q.content = p.content /\ q.deposit = p.deposit
               /\ q.votes_for = p.votes_for /\ q.votes_against = p.votes_against
BY DEF Proposal

\* A vote, seen from the proposals.
LEMMA VoteCase ==
    ASSUME TypeOK, NEW id \in Ids, NEW a \in Voters, NEW s \in BOOLEAN,
           NEW w \in WeightInputs, Vote(a, id, s, w)
    PROVE  LET v == CappedWeight(a, w)
           IN  /\ v \in 1 .. IMax
               /\ Ids' = Ids
               /\ proposals[id].status = "Active"
               /\ \A j \in Ids : j # id => proposals'[j] = proposals[j]
               /\ proposals'[id].status = proposals[id].status
               /\ proposals'[id].content = proposals[id].content
               /\ proposals'[id].deposit = proposals[id].deposit
               /\ proposals'[id].votes_for =
                     IF s THEN proposals[id].votes_for + v ELSE proposals[id].votes_for
               /\ proposals'[id].votes_against =
                     IF s THEN proposals[id].votes_against
                          ELSE proposals[id].votes_against + v
<1>1. proposals[id] \in Proposal
  BY ProposalTypes
<1>2. /\ CappedWeight(a, w) \in 1 .. IMax
      /\ Len(proposals') = Len(proposals)
      /\ proposals'[id] = Tallied(proposals[id], s, CappedWeight(a, w))
      /\ \A j \in Ids : j # id => proposals'[j] = proposals[j]
  BY VoteWrites
<1>3. Ids' = Ids
  BY <1>2 DEF Ids
<1>4. proposals[id].status = "Active"
  BY DEF Vote
<1> QED
  BY <1>1, <1>2, <1>3, <1>4, TalliedKeeps

\* Closing a proposal, seen from the proposals.
LEMMA CloseCase ==
    ASSUME TypeOK, NEW id \in Ids, NEW st \in Statuses,
           proposals' = [proposals EXCEPT ![id].status = st]
    PROVE  /\ Ids' = Ids
           /\ \A j \in Ids : j # id => proposals'[j] = proposals[j]
           /\ proposals'[id].status = st
           /\ proposals'[id].content = proposals[id].content
           /\ proposals'[id].deposit = proposals[id].deposit
           /\ proposals'[id].votes_for = proposals[id].votes_for
           /\ proposals'[id].votes_against = proposals[id].votes_against
<1>1. proposals[id] \in Proposal
  BY ProposalTypes
<1>2. /\ Len(proposals') = Len(proposals)
      /\ proposals'[id] = [proposals[id] EXCEPT !.status = st]
      /\ \A j \in Ids : j # id => proposals'[j] = proposals[j]
  BY CloseWrites
<1>3. Ids' = Ids
  BY <1>2 DEF Ids
<1> DEFINE q == [proposals[id] EXCEPT !.status = st]
<1>4. /\ q.status = st /\ q.content = proposals[id].content
      /\ q.deposit = proposals[id].deposit
      /\ q.votes_for = proposals[id].votes_for
      /\ q.votes_against = proposals[id].votes_against
  BY <1>1, ClosedKeeps
<1> HIDE DEF q
<1>5. proposals'[id] = q
  BY <1>2 DEF q
<1> QED
  BY <1>2, <1>3, <1>4, <1>5

\* A new proposal, seen from the proposals.
LEMMA ProposeCase ==
    ASSUME TypeOK, NEW a \in Voters, NEW c \in Contents, NEW n \in PeriodInputs,
           Propose(a, c, n)
    PROVE  LET new == Len(proposals) + 1
           IN  /\ Ids' = Ids \cup {new} /\ new \notin Ids /\ new # 0
               /\ \A j \in Ids : proposals'[j] = proposals[j]
               /\ proposals'[new].status = "Active" /\ proposals'[new].content = c
               /\ proposals'[new].deposit = DepositDue
               /\ proposals'[new].votes_for = 0 /\ proposals'[new].votes_against = 0
<1>1. /\ Len(proposals') = Len(proposals) + 1
      /\ proposals'[Len(proposals) + 1] = NewProposal(a, c, n)
      /\ \A id \in Ids : proposals'[id] = proposals[id]
  BY ProposeAdds
<1>2. Len(proposals) \in Nat
  BY DEF TypeOK
<1>3. /\ Ids' = Ids \cup {Len(proposals) + 1}
      /\ Len(proposals) + 1 \notin Ids /\ Len(proposals) + 1 # 0
  BY <1>1, <1>2 DEF Ids
<1> QED
  BY <1>1, <1>3 DEF NewProposal

\* finalize and cancel_proposal close a proposal that was open, and leave the ballots.
LEMMA CancelCase ==
    ASSUME NEW id \in Ids, NEW a \in Accounts, CancelProposal(a, id)
    PROVE  /\ proposals[id].status = "Active" /\ "Cancelled" \in Statuses
           /\ proposals' = [proposals EXCEPT ![id].status = "Cancelled"]
           /\ UNCHANGED <<slots, ballots, escrow>>
BY DEF CancelProposal, Statuses

LEMMA FinalizeCase ==
    ASSUME NEW id \in Ids, Finalize(id)
    PROVE  LET st == Outcome(proposals[id])
           IN  /\ proposals[id].status = "Active"
               /\ st \in Statuses /\ st # "Active"
               /\ proposals' = [proposals EXCEPT ![id].status = st]
               /\ slots' = [slots EXCEPT ![Hash(proposals[id].content)] = 0]
               /\ Refund(proposals[id].deposit)
               /\ UNCHANGED <<ballots, quorum, passBps>>
<1>1. Outcome(proposals[id]) \in {"Rejected", "Passed"}
  BY DEF Outcome
<1> QED
  BY <1>1 DEF Finalize, configVars, Statuses

-----------------------------------------------------------------------------
(* Decisions *)

(***************************************************************************)
(* A decided or cancelled proposal never changes again: not its outcome,   *)
(* not its tallies, not the deposit a second refund would be paid from.    *)
(***************************************************************************)
THEOREM GovernanceClosesOnce == Spec => ClosedProposalsAreFinal
<1> DEFINE Final == \A id \in Ids :
                       proposals[id].status # "Active" => proposals'[id] = proposals[id]
<1>1. ASSUME Typed, [Next]_vars
      PROVE  Final
  <2>0. TypeOK
    BY <1>1 DEF Typed
  <2>1. ASSUME NEW a \in Voters, NEW c \in Contents, NEW n \in PeriodInputs,
               Propose(a, c, n)
        PROVE  Final
    BY <2>0, <2>1, ProposeAdds
  <2>2. ASSUME NEW id \in Ids, NEW a \in Voters, NEW s \in BOOLEAN,
               NEW w \in WeightInputs, Vote(a, id, s, w)
        PROVE  Final
    BY <2>0, <2>2, VoteCase
  <2>3. ASSUME NEW id \in Ids, NEW a \in Accounts, CancelProposal(a, id)
        PROVE  Final
    BY <2>0, <2>3, CancelCase, CloseCase
  <2>4. ASSUME NEW id \in Ids, Finalize(id)
        PROVE  Final
    <3> DEFINE st == Outcome(proposals[id])
    <3>1. /\ proposals[id].status = "Active" /\ st \in Statuses
          /\ proposals' = [proposals EXCEPT ![id].status = st]
      BY <2>4, FinalizeCase
    <3> HIDE DEF st
    <3>2. \A j \in Ids : j # id => proposals'[j] = proposals[j]
      BY <2>0, <3>1, CloseCase
    <3> QED
      BY <3>1, <3>2
  <2>5. CASE UNCHANGED bookVars
    BY <2>5 DEF bookVars
  <2> QED
    BY <1>1, <2>1, <2>2, <2>3, <2>4, <2>5, StepCases
<1> QED
  BY <1>1, AlwaysTyped, PTL DEF Spec, ClosedProposalsAreFinal

\* Where the larger product is representable, so is every product finalize compares.
LEMMA ProductsFit ==
    ASSUME NEW f \in Nat, NEW t \in Nat, f <= t, NEW m \in Nat, NEW b \in Nat, b <= m,
           t * m <= IMax
    PROVE  f * m <= IMax /\ t * b <= IMax
<1>1. f * m <= t * m /\ t * b <= t * m
  BY SMT
<1>2. f * m \in Nat /\ t * b \in Nat /\ t * m \in Nat /\ IMax \in Nat
  BY GovernanceBounds
<1> QED
  BY <1>1, <1>2

\* What finalize calls passed has the votes it needs.
LEMMA PassedHasVotes ==
    ASSUME NEW p \in Proposal, quorum \in Nat,
           passBps \in MinPassThresholdBps .. MaxPassThresholdBps, Outcome(p) = "Passed"
    PROVE  /\ TotalVotes(p) > 0 /\ TotalVotes(p) >= quorum
           /\ TotalVotes(p) * MaxPassThresholdBps <= IMax =>
                 p.votes_for * MaxPassThresholdBps >= TotalVotes(p) * passBps
<1> DEFINE f == p.votes_for
           t == TotalVotes(p)
<1>1. f \in Nat /\ t \in Nat /\ f <= t
  <2>1. p.votes_for \in Nat /\ p.votes_against \in Nat
    BY GovernanceBounds DEF Proposal
  <2> QED
    BY <2>1 DEF TotalVotes
<1>2. passBps \in Nat /\ passBps <= MaxPassThresholdBps /\ MaxPassThresholdBps \in Nat
  <2>1. MinPassThresholdBps \in Nat /\ MaxPassThresholdBps \in Nat
    BY DEF MinPassThresholdBps, MaxPassThresholdBps
  <2> QED
    BY <2>1
<1>3. /\ ~(t = 0 \/ t < quorum)
      /\ SaturatingMul(f, MaxPassThresholdBps) >= SaturatingMul(t, passBps)
  BY DEF Outcome
<1> HIDE DEF f, t
<1>4. ASSUME t * MaxPassThresholdBps <= IMax
      PROVE  f * MaxPassThresholdBps >= t * passBps
  <2>1. f * MaxPassThresholdBps <= IMax /\ t * passBps <= IMax
    BY <1>1, <1>2, <1>4, ProductsFit
  <2>2. f * MaxPassThresholdBps \in Nat /\ t * passBps \in Nat /\ IMax \in Nat
    BY <1>1, <1>2, GovernanceBounds
  <2>3. /\ SaturatingMul(f, MaxPassThresholdBps) = f * MaxPassThresholdBps
        /\ SaturatingMul(t, passBps) = t * passBps
    BY <2>1, <2>2 DEF SaturatingMul
  <2> QED
    BY <1>3, <2>3
<1>5. t > 0 /\ t >= quorum
  BY <1>1, <1>3
<1> QED
  BY <1>4, <1>5 DEF f, t

(***************************************************************************)
(* No proposal passes without the quorum, nor, as long as the products     *)
(* compared are representable, without the share of the votes in force     *)
(* when it is decided.                                                     *)
(***************************************************************************)
THEOREM GovernancePassesOnSupport == Spec => PassesOnSupport
<1> DEFINE Supported ==
      \A id \in Ids :
          LET p == proposals'[id]
          IN  p.status = "Passed" /\ proposals[id].status # "Passed" =>
                /\ TotalVotes(p) > 0 /\ TotalVotes(p) >= quorum
                /\ TotalVotes(p) * MaxPassThresholdBps <= IMax =>
                      p.votes_for * MaxPassThresholdBps >= TotalVotes(p) * passBps
<1>1. ASSUME Typed, [Next]_vars
      PROVE  Supported
  <2>0. TypeOK
    BY <1>1 DEF Typed
  <2>1. ASSUME NEW a \in Voters, NEW c \in Contents, NEW n \in PeriodInputs,
               Propose(a, c, n)
        PROVE  \A id \in Ids : proposals'[id].status = proposals[id].status
    BY <2>0, <2>1, ProposeAdds
  <2>2. ASSUME NEW id \in Ids, NEW a \in Voters, NEW s \in BOOLEAN,
               NEW w \in WeightInputs, Vote(a, id, s, w)
        PROVE  \A j \in Ids : proposals'[j].status = proposals[j].status
    BY <2>0, <2>2, VoteCase
  <2>3. ASSUME NEW id \in Ids, NEW a \in Accounts, CancelProposal(a, id)
        PROVE  \A j \in Ids : \/ proposals'[j].status = proposals[j].status
                              \/ proposals'[j].status = "Cancelled"
    BY <2>0, <2>3, CancelCase, CloseCase
  <2>4. ASSUME NEW id \in Ids, Finalize(id)
        PROVE  Supported
    <3> DEFINE st == Outcome(proposals[id])
    <3>1. /\ proposals' = [proposals EXCEPT ![id].status = st] /\ st \in Statuses
      BY <2>4, FinalizeCase
    <3>2. /\ \A j \in Ids : j # id => proposals'[j] = proposals[j]
          /\ proposals'[id].status = st
          /\ proposals'[id].votes_for = proposals[id].votes_for
          /\ proposals'[id].votes_against = proposals[id].votes_against
      <4> HIDE DEF st
      <4> QED
        BY <2>0, <3>1, CloseCase
    <3>3. ASSUME st = "Passed"
          PROVE  LET p == proposals[id]
                 IN  /\ TotalVotes(p) > 0 /\ TotalVotes(p) >= quorum
                     /\ TotalVotes(p) * MaxPassThresholdBps <= IMax =>
                           p.votes_for * MaxPassThresholdBps >= TotalVotes(p) * passBps
      <4>1. proposals[id] \in Proposal
        BY <2>0, ProposalTypes
      <4>2. quorum \in Nat /\ passBps \in MinPassThresholdBps .. MaxPassThresholdBps
        BY <2>0, GovernanceBounds DEF TypeOK
      <4> QED
        BY <3>3, <4>1, <4>2, PassedHasVotes
    <3> HIDE DEF st
    <3>4. TotalVotes(proposals'[id]) = TotalVotes(proposals[id])
      BY <3>2 DEF TotalVotes
    <3> QED
      BY <3>2, <3>3, <3>4
  <2>5. CASE UNCHANGED bookVars
    BY <2>5 DEF bookVars
  <2> QED
    BY <1>1, <2>1, <2>2, <2>3, <2>4, <2>5, StepCases
<1> QED
  BY <1>1, AlwaysTyped, PTL DEF Spec, PassesOnSupport

-----------------------------------------------------------------------------
(* One open proposal per content *)

\* A closed proposal's slot may be anything; an open one's is its own, and that is
\* what keeps finalize from freeing the slot of another.
LEMMA SlotStep ==
    ASSUME Typed, OpenProposalHoldsItsSlot, [Next]_vars
    PROVE  OpenProposalHoldsItsSlot'
<1>0. /\ TypeOK
      /\ \A id \in Ids : proposals[id].content \in Contents
      /\ slots \in [Hashes -> 0 .. Len(proposals)]
  BY ProposalTypes DEF Typed, Proposal, TypeOK
<1>1. ASSUME NEW c \in Contents PROVE Hash(c) \in Hashes
  BY DEF Hashes
<1>2. ASSUME NEW a \in Voters, NEW c \in Contents, NEW n \in PeriodInputs,
             Propose(a, c, n)
      PROVE  OpenProposalHoldsItsSlot'
  <2> DEFINE new == Len(proposals) + 1
  <2>1. /\ Ids' = Ids \cup {new}
        /\ \A j \in Ids : proposals'[j] = proposals[j]
        /\ proposals'[new].content = c
    BY <1>0, <1>2, ProposeCase
  <2>2. slots[Hash(c)] = 0 /\ slots' = [slots EXCEPT ![Hash(c)] = new]
    BY <1>2 DEF Propose
  <2> HIDE DEF new
  <2>3. ASSUME NEW j \in Ids, proposals[j].status = "Active"
        PROVE  slots'[Hash(proposals[j].content)] = j
    <3>1. slots[Hash(proposals[j].content)] = j /\ j # 0
      BY <2>3 DEF OpenProposalHoldsItsSlot, Ids
    <3> QED
      BY <1>0, <1>1, <2>2, <3>1
  <2>4. slots'[Hash(c)] = new
    BY <1>0, <1>1, <2>2
  <2> QED
    BY <2>1, <2>3, <2>4 DEF OpenProposalHoldsItsSlot
<1>3. ASSUME NEW id \in Ids, NEW a \in Voters, NEW s \in BOOLEAN, NEW w \in WeightInputs,
             Vote(a, id, s, w)
      PROVE  OpenProposalHoldsItsSlot'
  <2>1. /\ Ids' = Ids
        /\ \A j \in Ids : /\ proposals'[j].status = proposals[j].status
                          /\ proposals'[j].content = proposals[j].content
    BY <1>0, <1>3, VoteCase
  <2>2. slots' = slots
    BY <1>3 DEF Vote
  <2> QED
    BY <2>1, <2>2 DEF OpenProposalHoldsItsSlot
<1>4. ASSUME NEW id \in Ids, NEW a \in Accounts, CancelProposal(a, id)
      PROVE  OpenProposalHoldsItsSlot'
  <2>1. /\ Ids' = Ids /\ slots' = slots
        /\ \A j \in Ids : j # id => proposals'[j] = proposals[j]
        /\ proposals'[id].status = "Cancelled"
    BY <1>0, <1>4, CancelCase, CloseCase
  <2> QED
    BY <2>1 DEF OpenProposalHoldsItsSlot
<1>5. ASSUME NEW id \in Ids, Finalize(id)
      PROVE  OpenProposalHoldsItsSlot'
  <2> DEFINE st == Outcome(proposals[id])
  <2>1. /\ proposals[id].status = "Active" /\ st \in Statuses /\ st # "Active"
        /\ proposals' = [proposals EXCEPT ![id].status = st]
        /\ slots' = [slots EXCEPT ![Hash(proposals[id].content)] = 0]
    BY <1>5, FinalizeCase
  <2> HIDE DEF st
  <2>2. /\ Ids' = Ids
        /\ \A j \in Ids : j # id => proposals'[j] = proposals[j]
        /\ proposals'[id].status = st
    BY <1>0, <2>1, CloseCase
  <2>3. slots[Hash(proposals[id].content)] = id
    BY <2>1 DEF OpenProposalHoldsItsSlot
  <2>4. ASSUME NEW j \in Ids, j # id, proposals[j].status = "Active"
        PROVE  slots'[Hash(proposals[j].content)] = j
    <3>1. slots[Hash(proposals[j].content)] = j
      BY <2>4 DEF OpenProposalHoldsItsSlot
    <3>2. Hash(proposals[j].content) # Hash(proposals[id].content)
      BY <2>3, <2>4, <3>1
    <3> QED
      BY <1>0, <1>1, <2>1, <3>1, <3>2
  <2> QED
    BY <2>1, <2>2, <2>4 DEF OpenProposalHoldsItsSlot
<1>6. CASE UNCHANGED bookVars
  BY <1>6 DEF bookVars, OpenProposalHoldsItsSlot, Ids
<1> QED
  BY <1>2, <1>3, <1>4, <1>5, <1>6, StepCases

(***************************************************************************)
(* However proposals are made, voted on, decided and cancelled, no two     *)
(* open ones share a content.                                              *)
(***************************************************************************)
THEOREM GovernanceKeepsSlots == Spec => []OpenProposalHoldsItsSlot
<1>1. Init => OpenProposalHoldsItsSlot
  BY DEF Init, OpenProposalHoldsItsSlot, Ids
<1> QED
  BY <1>1, SlotStep, AlwaysTyped, PTL DEF Spec

-----------------------------------------------------------------------------
(* The deposits *)

\* What the open proposals paid in one token, one by one.
PaidIn(t) ==
    [id \in OpenIds |-> IF proposals[id].deposit.token = t
                          THEN proposals[id].deposit.amount ELSE 0]
Share(d, t) == IF d.token = t THEN d.amount ELSE 0

LEMMA PaidTypes ==
    ASSUME TypeOK, NEW t \in Tokens
    PROVE  /\ IsFiniteSet(OpenIds)
           /\ PaidIn(t) \in [OpenIds -> 0 .. IMax]
<1>1. OpenIds \subseteq 1 .. Len(proposals) /\ Len(proposals) \in Nat
  BY DEF OpenIds, Ids, TypeOK
<1>2. IsFiniteSet(1 .. Len(proposals))
  BY <1>1, FS_Interval
<1>3. IsFiniteSet(OpenIds)
  BY <1>1, <1>2, FS_Subset
<1>4. \A id \in OpenIds : proposals[id].deposit.amount \in 0 .. IMax
  BY ProposalTypes DEF OpenIds, Proposal
<1>5. 0 \in 0 .. IMax
  BY GovernanceBounds
<1> QED
  BY <1>3, <1>4, <1>5 DEF PaidIn

LEMMA CollectAdds ==
    ASSUME escrow \in [Tokens -> Nat], NEW t \in Tokens, NEW d,
           d.token \in Tokens \cup {None}, d.amount \in Nat, Collect(d)
    PROVE  escrow'[t] = escrow[t] + Share(d, t) /\ Share(d, t) \in Nat
<1>1. CASE d.token = None
  <2>1. d.token # t /\ escrow' = escrow
    BY <1>1, GovernanceInputs DEF Collect
  <2> QED
    BY <2>1 DEF Share
<1>2. CASE d.token # None
  BY <1>2 DEF Collect, Share
<1> QED
  BY <1>1, <1>2

LEMMA RefundTakes ==
    ASSUME escrow \in [Tokens -> Nat], NEW t \in Tokens, NEW d,
           d.token \in Tokens \cup {None}, d.amount \in Nat, Refund(d)
    PROVE  escrow'[t] = escrow[t] - Share(d, t) /\ Share(d, t) \in Nat
<1>1. CASE d.token = None
  <2>1. d.token # t /\ escrow' = escrow
    BY <1>1, GovernanceInputs DEF Refund
  <2> QED
    BY <2>1 DEF Share
<1>2. CASE d.token # None
  BY <1>2 DEF Refund, Share
<1> QED
  BY <1>1, <1>2

\* Closing one proposal takes its deposit out of the sum.
LEMMA ClosingFrees ==
    ASSUME TypeOK, NEW t \in Tokens, NEW id \in Ids, proposals[id].status = "Active",
           Ids' = Ids, proposals'[id].status # "Active",
           \A j \in Ids : j # id => proposals'[j] = proposals[j]
    PROVE  /\ Total(PaidIn(t)') \in Nat
           /\ Total(PaidIn(t)) = Total(PaidIn(t)') + Share(proposals[id].deposit, t)
<1> DEFINE old == PaidIn(t)
           new == PaidIn(t)'
           rest == OpenIds'
<1>1. IsFiniteSet(OpenIds) /\ old \in [OpenIds -> 0 .. IMax] /\ IMax \in Nat
  BY PaidTypes, GovernanceBounds
<1>2. OpenIds = rest \cup {id} /\ id \notin rest
  BY DEF OpenIds
<1>3. \A j \in rest : proposals'[j] = proposals[j]
  BY <1>2 DEF OpenIds
<1>4. /\ DOMAIN new = rest
      /\ \A j \in rest : old[j] = new[j]
      /\ new = [j \in rest |-> new[j]]
  BY <1>2, <1>3 DEF PaidIn
<1>5. old[id] = Share(proposals[id].deposit, t)
  BY <1>2 DEF PaidIn, Share
<1>6. IsFiniteSet(rest)
  BY <1>1, <1>2, FS_Subset
<1> HIDE DEF old, new, rest
<1>7. new \in [rest -> 0 .. IMax]
  BY <1>1, <1>2, <1>4
<1>8. old \in [rest \cup {id} -> 0 .. IMax]
  BY <1>1, <1>2
<1>9. \A j \in rest : old[j] = new[j]
  BY <1>4
<1>10. Total(old) = Total(new) + old[id]
  BY <1>1, <1>2, <1>6, <1>7, <1>8, <1>9, TotalExtend
<1>11. Total(new) \in Nat
  BY <1>1, <1>6, <1>7, TotalIsNat
<1> QED
  BY <1>5, <1>10, <1>11 DEF old, new

LEMMA EscrowStep ==
    ASSUME Typed, EscrowCoversOpenDeposits, [Next]_vars
    PROVE  EscrowCoversOpenDeposits'
<1> SUFFICES ASSUME NEW t \in Tokens
             PROVE  escrow'[t] >= Total(PaidIn(t)')
  BY DEF EscrowCoversOpenDeposits, DepositsOf, PaidIn
<1>0. TypeOK /\ escrow \in [Tokens -> Nat] /\ IMax \in Nat
  BY GovernanceBounds DEF Typed, TypeOK
<1>1. escrow[t] >= Total(PaidIn(t))
  BY DEF EscrowCoversOpenDeposits, DepositsOf, PaidIn
<1>2. /\ IsFiniteSet(OpenIds) /\ PaidIn(t) \in [OpenIds -> 0 .. IMax]
      /\ Total(PaidIn(t)) \in Nat
  <2>1. IsFiniteSet(OpenIds) /\ PaidIn(t) \in [OpenIds -> 0 .. IMax]
    BY <1>0, PaidTypes
  <2> QED
    BY <1>0, <2>1, TotalIsNat
<1>3. ASSUME NEW a \in Voters, NEW c \in Contents, NEW n \in PeriodInputs,
             Propose(a, c, n)
      PROVE  escrow'[t] >= Total(PaidIn(t)')
  <2> DEFINE new == Len(proposals) + 1
             old == PaidIn(t)
             paid == PaidIn(t)'
  <2>1. /\ Ids' = Ids \cup {new} /\ new \notin Ids
        /\ \A j \in Ids : proposals'[j] = proposals[j]
        /\ proposals'[new].status = "Active" /\ proposals'[new].deposit = DepositDue
    BY <1>0, <1>3, ProposeCase
  <2>2. /\ DepositDue.token \in Tokens \cup {None}
        /\ DepositDue.amount \in 0 .. IMax /\ DepositDue.amount \in Nat
    BY <1>0, DueTypes
  <2>3. Collect(DepositDue)
    BY <1>3 DEF Propose
  <2>4. escrow'[t] = escrow[t] + Share(DepositDue, t) /\ Share(DepositDue, t) \in Nat
    BY <1>0, <2>2, <2>3, CollectAdds
  <2> HIDE DEF new
  <2>5. OpenIds' = OpenIds \cup {new} /\ new \notin OpenIds
    BY <2>1 DEF OpenIds
  <2>6. \A j \in OpenIds : proposals'[j] = proposals[j]
    BY <2>1 DEF OpenIds
  <2>7. /\ paid = [j \in OpenIds \cup {new} |-> paid[j]]
        /\ \A j \in OpenIds : paid[j] = old[j]
        /\ paid[new] = Share(DepositDue, t)
    BY <2>1, <2>5, <2>6 DEF PaidIn, Share
  <2> HIDE DEF old, paid
  <2>8. old \in [OpenIds -> 0 .. IMax] /\ Total(old) \in Nat /\ escrow[t] >= Total(old)
    BY <1>1, <1>2 DEF old
  <2>9. paid[new] \in 0 .. IMax
    BY <1>0, <2>2, <2>7 DEF Share
  <2>10. paid \in [OpenIds \cup {new} -> 0 .. IMax]
    BY <2>7, <2>8, <2>9
  <2>11. \A j \in OpenIds : paid[j] = old[j]
    BY <2>7
  <2>12. Total(paid) = Total(old) + paid[new]
    <3>1. IsFiniteSet(OpenIds)
      BY <1>2
    <3>2. new \notin OpenIds
      BY <2>5
    <3>3. old \in [OpenIds -> 0 .. IMax]
      BY <2>8
    <3>4. IMax \in Nat
      BY <1>0
    <3> QED
      BY <2>10, <2>11, <3>1, <3>2, <3>3, <3>4, TotalExtend
  <2>13. escrow[t] \in Nat
    BY <1>0
  <2>14. escrow'[t] >= Total(paid)
    BY <2>4, <2>7, <2>8, <2>12, <2>13
  <2> QED
    BY <2>14 DEF paid
<1>4. ASSUME NEW id \in Ids, NEW a \in Voters, NEW s \in BOOLEAN, NEW w \in WeightInputs,
             Vote(a, id, s, w)
      PROVE  escrow'[t] >= Total(PaidIn(t)')
  <2>1. /\ Ids' = Ids
        /\ \A j \in Ids : /\ proposals'[j].status = proposals[j].status
                          /\ proposals'[j].deposit = proposals[j].deposit
    BY <1>0, <1>4, VoteCase
  <2>2. OpenIds' = OpenIds
    BY <2>1 DEF OpenIds
  <2>3. PaidIn(t)' = PaidIn(t)
    BY <2>1, <2>2 DEF PaidIn, OpenIds
  <2>4. escrow' = escrow
    BY <1>4 DEF Vote
  <2> QED
    BY <1>1, <2>3, <2>4
<1>5. ASSUME NEW id \in Ids, NEW a \in Accounts, CancelProposal(a, id)
      PROVE  escrow'[t] >= Total(PaidIn(t)')
  <2>1. /\ proposals[id].status = "Active" /\ Ids' = Ids /\ escrow' = escrow
        /\ \A j \in Ids : j # id => proposals'[j] = proposals[j]
        /\ proposals'[id].status # "Active"
    BY <1>0, <1>5, CancelCase, CloseCase
  <2>2. /\ Total(PaidIn(t)') \in Nat
        /\ Total(PaidIn(t)) = Total(PaidIn(t)') + Share(proposals[id].deposit, t)
    BY <1>0, <2>1, ClosingFrees
  <2>3. Share(proposals[id].deposit, t) \in Nat
    <3>1. proposals[id] \in Proposal
      BY <1>0, ProposalTypes
    <3> QED
      BY <3>1 DEF Proposal, Share
  <2>4. escrow[t] \in Nat
    BY <1>0
  <2> QED
    BY <1>1, <2>1, <2>2, <2>3, <2>4
<1>6. ASSUME NEW id \in Ids, Finalize(id)
      PROVE  escrow'[t] >= Total(PaidIn(t)')
  <2> DEFINE st == Outcome(proposals[id])
             d == proposals[id].deposit
  <2>1. /\ proposals[id].status = "Active" /\ st \in Statuses /\ st # "Active"
        /\ proposals' = [proposals EXCEPT ![id].status = st]
        /\ Refund(d)
    BY <1>6, FinalizeCase
  <2> HIDE DEF st
  <2>2. /\ Ids' = Ids
        /\ \A j \in Ids : j # id => proposals'[j] = proposals[j]
        /\ proposals'[id].status # "Active"
    BY <1>0, <2>1, CloseCase
  <2>3. /\ Total(PaidIn(t)') \in Nat
        /\ Total(PaidIn(t)) = Total(PaidIn(t)') + Share(d, t)
    BY <1>0, <2>1, <2>2, ClosingFrees
  <2>4. d.token \in Tokens \cup {None} /\ d.amount \in Nat
    <3>1. proposals[id] \in Proposal
      BY <1>0, ProposalTypes
    <3> QED
      BY <3>1 DEF Proposal
  <2> HIDE DEF d
  <2>5. escrow'[t] = escrow[t] - Share(d, t) /\ Share(d, t) \in Nat
    BY <1>0, <2>1, <2>4, RefundTakes
  <2>6. escrow[t] \in Nat
    BY <1>0
  <2> QED
    BY <1>1, <2>3, <2>5, <2>6
<1>7. CASE UNCHANGED bookVars
  <2>1. escrow' = escrow /\ PaidIn(t)' = PaidIn(t)
    BY <1>7 DEF bookVars, PaidIn, OpenIds, Ids
  <2> QED
    BY <1>1, <2>1
<1> QED
  BY <1>3, <1>4, <1>5, <1>6, <1>7, StepCases

(***************************************************************************)
(* The contract owns the deposits of all open proposals, token by token,   *)
(* however the deposit is reconfigured: finalize can pay back what each    *)
(* of them paid.                                                           *)
(***************************************************************************)
THEOREM GovernanceCoversDeposits == Spec => []EscrowCoversOpenDeposits
<1>1. ASSUME Init PROVE EscrowCoversOpenDeposits
  <2>1. OpenIds = {} /\ escrow = [t \in Tokens |-> 0]
    BY <1>1 DEF Init, OpenIds, Ids
  <2>2. ASSUME NEW t \in Tokens PROVE DepositsOf(t, OpenIds) = 0
    <3>1. DepositsOf(t, OpenIds) = Total([id \in {} |-> 0])
      BY <2>1 DEF DepositsOf
    <3> QED
      BY <3>1, TotalZero
  <2> QED
    BY <2>1, <2>2 DEF EscrowCoversOpenDeposits
<1> QED
  BY <1>1, EscrowStep, AlwaysTyped, PTL DEF Spec

-----------------------------------------------------------------------------
(* The votes *)

\* One more ballot weighs what it weighs.
LEMMA WeighedMore ==
    ASSUME NEW S, IsFiniteSet(S), NEW b, b \notin S, b.weight \in 1 .. IMax,
           \A x \in S : x.weight \in 1 .. IMax
    PROVE  Weighed(S \cup {b}) = Weighed(S) + b.weight
<1> DEFINE old == [x \in S |-> x.weight]
           new == [x \in S \cup {b} |-> x.weight]
<1>1. old \in [S -> 0 .. IMax]
  BY GovernanceBounds
<1>2. new \in [S \cup {b} -> 0 .. IMax]
  BY GovernanceBounds
<1>3. \A x \in S : new[x] = old[x]
  OBVIOUS
<1>4. new[b] = b.weight /\ IMax \in Nat
  BY GovernanceBounds
<1>5. Weighed(S) = Total(old) /\ Weighed(S \cup {b}) = Total(new)
  BY DEF Weighed
<1> HIDE DEF old, new
<1>6. Total(new) = Total(old) + new[b]
  <2>1. IMax \in Nat
    BY <1>4
  <2> QED
    BY <1>1, <1>2, <1>3, <2>1, TotalExtend
<1> QED
  BY <1>4, <1>5, <1>6

\* Where neither ballots nor tallies change, they still agree.
LEMMA SameTallies ==
    ASSUME TalliesAreBallots, ballots' = ballots, Ids' = Ids,
           \A j \in Ids : /\ proposals'[j].votes_for = proposals[j].votes_for
                          /\ proposals'[j].votes_against = proposals[j].votes_against
    PROVE  TalliesAreBallots'
<1>1. ASSUME NEW j \in Ids
      PROVE  /\ proposals'[j].votes_for = Weighed(BallotsFor(j, TRUE)')
             /\ proposals'[j].votes_against = Weighed(BallotsFor(j, FALSE)')
             /\ \A b, e \in ballots' :
                   b.id = j /\ e.id = j /\ b.voter = e.voter => b = e
  <2>1. /\ BallotsFor(j, TRUE)' = BallotsFor(j, TRUE)
        /\ BallotsFor(j, FALSE)' = BallotsFor(j, FALSE)
    BY DEF BallotsFor
  <2>2. /\ proposals[j].votes_for = Weighed(BallotsFor(j, TRUE))
        /\ proposals[j].votes_against = Weighed(BallotsFor(j, FALSE))
        /\ \A b, e \in ballots : b.id = j /\ e.id = j /\ b.voter = e.voter => b = e
    BY DEF TalliesAreBallots
  <2> QED
    BY <2>1, <2>2
<1> QED
  BY <1>1 DEF TalliesAreBallots

LEMMA TallyStep ==
    ASSUME Typed, TalliesAreBallots, [Next]_vars
    PROVE  TalliesAreBallots'
<1>0. /\ TypeOK /\ IsFiniteSet(ballots)
      /\ ballots \subseteq [id : Ids, voter : Accounts, support : BOOLEAN,
                            weight : 1 .. IMax]
  BY DEF Typed, TypeOK
<1>1. ASSUME NEW a \in Voters, NEW c \in Contents, NEW n \in PeriodInputs,
             Propose(a, c, n)
      PROVE  TalliesAreBallots'
  <2>0. PICK new : new = Len(proposals) + 1
    OBVIOUS
  <2>1. /\ Ids' = Ids \cup {new} /\ new \notin Ids
        /\ \A j \in Ids : proposals'[j] = proposals[j]
        /\ proposals'[new].votes_for = 0 /\ proposals'[new].votes_against = 0
    BY <1>0, <1>1, <2>0, ProposeCase
  <2>2. ballots' = ballots
    BY <1>1 DEF Propose
  <2>3. \A b \in ballots : b.id # new
    BY <1>0, <2>1
  <2>4. BallotsFor(new, TRUE) = {} /\ BallotsFor(new, FALSE) = {}
    BY <2>3 DEF BallotsFor
  <2>5. Weighed({}) = 0
    <3>1. Weighed({}) = Total([b \in {} |-> 0])
      BY DEF Weighed
    <3> QED
      BY <3>1, TotalZero
  <2>6. \A b, e \in ballots' : b.id = new /\ e.id = new /\ b.voter = e.voter => b = e
    BY <2>2, <2>3
  <2>7. BallotsFor(new, TRUE)' = {} /\ BallotsFor(new, FALSE)' = {}
    BY <2>2, <2>4 DEF BallotsFor
  <2>8. ASSUME NEW j \in Ids
        PROVE  /\ proposals'[j].votes_for = Weighed(BallotsFor(j, TRUE)')
               /\ proposals'[j].votes_against = Weighed(BallotsFor(j, FALSE)')
               /\ \A b, e \in ballots' :
                     b.id = j /\ e.id = j /\ b.voter = e.voter => b = e
    <3>1. BallotsFor(j, TRUE)' = BallotsFor(j, TRUE)
          /\ BallotsFor(j, FALSE)' = BallotsFor(j, FALSE)
      BY <2>2 DEF BallotsFor
    <3> QED
      BY <2>1, <2>2, <3>1 DEF TalliesAreBallots
  <2>9. ASSUME NEW j \in Ids'
        PROVE  /\ proposals'[j].votes_for = Weighed(BallotsFor(j, TRUE)')
               /\ proposals'[j].votes_against = Weighed(BallotsFor(j, FALSE)')
               /\ \A b, e \in ballots' :
                     b.id = j /\ e.id = j /\ b.voter = e.voter => b = e
    <3>1. CASE j \in Ids
      BY <2>8, <3>1
    <3>2. CASE j = new
      BY <2>1, <2>5, <2>6, <2>7, <3>2
    <3> QED
      BY <2>1, <3>1, <3>2
  <2> QED
    BY <2>9 DEF TalliesAreBallots
<1>2. ASSUME NEW id \in Ids, NEW a \in Voters, NEW s \in BOOLEAN, NEW w \in WeightInputs,
             Vote(a, id, s, w)
      PROVE  TalliesAreBallots'
  <2> DEFINE v == CappedWeight(a, w)
             b == [id |-> id, voter |-> a, support |-> s, weight |-> v]
  <2>1. /\ v \in 1 .. IMax /\ Ids' = Ids
        /\ \A j \in Ids : j # id => proposals'[j] = proposals[j]
        /\ proposals'[id].votes_for =
              IF s THEN proposals[id].votes_for + v ELSE proposals[id].votes_for
        /\ proposals'[id].votes_against =
              IF s THEN proposals[id].votes_against
                   ELSE proposals[id].votes_against + v
    BY <1>0, <1>2, VoteCase
  <2>2. ballots' = ballots \cup {b} /\ ~HasVoted(id, a)
    BY <1>2 DEF Vote
  <2> HIDE DEF v
  <2>3. b.id = id /\ b.voter = a /\ b.support = s /\ b.weight = v
    OBVIOUS
  <2> HIDE DEF b
  <2>4. \A e \in ballots : ~(e.id = id /\ e.voter = a)
    BY <2>2 DEF HasVoted
  <2>5. ASSUME NEW k \in BOOLEAN, k = s
        PROVE  Weighed(BallotsFor(id, k)') = Weighed(BallotsFor(id, k)) + v
    <3> DEFINE S == BallotsFor(id, k)
    <3>1. S \subseteq ballots
      BY DEF BallotsFor
    <3>2. IsFiniteSet(S)
      BY <1>0, <3>1, FS_Subset
    <3>3. \A x \in S : x.weight \in 1 .. IMax
      BY <1>0, <3>1
    <3>4. b \notin S
      BY <2>3, <2>4, <3>1
    <3>5. BallotsFor(id, k)' = S \cup {b}
      BY <2>2, <2>3, <2>5 DEF BallotsFor
    <3> HIDE DEF S
    <3>6. Weighed(S \cup {b}) = Weighed(S) + b.weight
      BY <2>1, <2>3, <3>2, <3>3, <3>4, WeighedMore
    <3> QED
      BY <2>3, <3>5, <3>6 DEF S
  <2>6. ASSUME NEW k \in BOOLEAN, k # s
        PROVE  BallotsFor(id, k)' = BallotsFor(id, k)
    BY <2>2, <2>3, <2>6 DEF BallotsFor
  <2>7. ASSUME NEW j \in Ids, j # id, NEW k \in BOOLEAN
        PROVE  BallotsFor(j, k)' = BallotsFor(j, k)
    BY <2>2, <2>3, <2>7 DEF BallotsFor
  <2>8. /\ proposals'[id].votes_for = Weighed(BallotsFor(id, TRUE)')
        /\ proposals'[id].votes_against = Weighed(BallotsFor(id, FALSE)')
    <3>1. /\ proposals[id].votes_for = Weighed(BallotsFor(id, TRUE))
          /\ proposals[id].votes_against = Weighed(BallotsFor(id, FALSE))
      BY DEF TalliesAreBallots
    <3>2. CASE s = TRUE
      <4>1. Weighed(BallotsFor(id, TRUE)') = Weighed(BallotsFor(id, TRUE)) + v
        BY <2>5, <3>2
      <4>2. BallotsFor(id, FALSE)' = BallotsFor(id, FALSE)
        BY <2>6, <3>2
      <4> QED
        BY <2>1, <3>1, <3>2, <4>1, <4>2
    <3>3. CASE s = FALSE
      <4>1. Weighed(BallotsFor(id, FALSE)') = Weighed(BallotsFor(id, FALSE)) + v
        BY <2>5, <3>3
      <4>2. BallotsFor(id, TRUE)' = BallotsFor(id, TRUE)
        BY <2>6, <3>3
      <4> QED
        BY <2>1, <3>1, <3>3, <4>1, <4>2
    <3> QED
      BY <3>2, <3>3
  <2>9. ASSUME NEW j \in Ids, j # id
        PROVE  /\ proposals'[j].votes_for = Weighed(BallotsFor(j, TRUE)')
               /\ proposals'[j].votes_against = Weighed(BallotsFor(j, FALSE)')
    <3>1. /\ BallotsFor(j, TRUE)' = BallotsFor(j, TRUE)
          /\ BallotsFor(j, FALSE)' = BallotsFor(j, FALSE)
      BY <2>7, <2>9
    <3> QED
      BY <2>1, <2>9, <3>1 DEF TalliesAreBallots
  <2>10. ASSUME NEW j \in Ids, NEW e \in ballots', NEW f \in ballots',
                e.id = j, f.id = j, e.voter = f.voter
         PROVE  e = f
    BY <2>2, <2>3, <2>4, <2>10 DEF TalliesAreBallots
  <2>11. ASSUME NEW j \in Ids
         PROVE  /\ proposals'[j].votes_for = Weighed(BallotsFor(j, TRUE)')
                /\ proposals'[j].votes_against = Weighed(BallotsFor(j, FALSE)')
                /\ \A e, f \in ballots' :
                      e.id = j /\ f.id = j /\ e.voter = f.voter => e = f
    BY <2>8, <2>9, <2>10
  <2> QED
    BY <2>1, <2>11 DEF TalliesAreBallots
<1>3. ASSUME NEW id \in Ids, NEW st \in Statuses, ballots' = ballots,
             proposals' = [proposals EXCEPT ![id].status = st]
      PROVE  TalliesAreBallots'
  <2>1. /\ Ids' = Ids
        /\ \A j \in Ids : /\ proposals'[j].votes_for = proposals[j].votes_for
                          /\ proposals'[j].votes_against = proposals[j].votes_against
    BY <1>0, <1>3, CloseCase
  <2> QED
    BY <1>3, <2>1, SameTallies
<1>4. ASSUME NEW id \in Ids, NEW a \in Accounts, CancelProposal(a, id)
      PROVE  TalliesAreBallots'
  BY <1>3, <1>4, CancelCase
<1>5. ASSUME NEW id \in Ids, Finalize(id)
      PROVE  TalliesAreBallots'
  BY <1>3, <1>5, FinalizeCase
<1>6. CASE UNCHANGED bookVars
  <2>1. Ids' = Ids /\ proposals' = proposals /\ ballots' = ballots
    BY <1>6 DEF bookVars, Ids
  <2> QED
    BY <2>1, SameTallies
<1> QED
  BY <1>1, <1>2, <1>4, <1>5, <1>6, StepCases

(***************************************************************************)
(* The tallies are the ballots, one per address and proposal, each with    *)
(* the weight it was capped to: no retry, no second choice and no closing  *)
(* of a proposal makes a vote count twice or not at all.                   *)
(***************************************************************************)
THEOREM GovernanceCountsBallots == Spec => []TalliesAreBallots
<1>1. Init => TalliesAreBallots
  BY DEF Init, TalliesAreBallots, Ids
<1> QED
  BY <1>1, TallyStep, AlwaysTyped, PTL DEF Spec

-----------------------------------------------------------------------------
(* The admin role *)

LEMMA HandoverStep ==
    ASSUME Typed, [Next]_vars
    PROVE  [Handover!HandoverNext]_(Handover!handoverVars)
<1> USE DEF adminVars
<1>0. RulesTyped /\ admin \in Accounts
  BY TypedParts DEF RulesTyped, Handover!HandoverTypeOK
<1>1. ASSUME signer' \in Accounts, UNCHANGED adminVars
      PROVE  Handover!HandoverNext
  BY <1>1 DEF Handover!HandoverNext, Handover!OtherCall, Handover!RequireAuth
<1>2. CASE ProposalCall
  <2>1. signer' \in Accounts /\ UNCHANGED adminVars
    BY <1>0, <1>2, ProposalCallsKeepRules
  <2> QED
    BY <1>1, <2>1
<1>3. CASE ConfigCall
  <2>1. signer' = admin /\ UNCHANGED adminVars
    BY <1>3 DEF ConfigCall, SetWeightSource, SetProposalDeposit, SetQuorum,
       SetPassThresholdBps, RequireAdmin, RequireAuth
  <2> QED
    BY <1>0, <1>1, <2>1
<1>4. CASE HandoverCall
  BY <1>4, GovernanceInputs DEF HandoverCall, Handover!HandoverNext
<1>5. CASE Environment \/ UNCHANGED vars
  BY <1>5 DEF Environment, CloseLedger, PowerChanges, vars, Handover!handoverVars
<1> QED
  BY <1>2, <1>3, <1>4, <1>5 DEF Next

(***************************************************************************)
(* The admin role of governance passes on exactly as the two-step handover *)
(* allows, so what is proved of the handover holds of it.                  *)
(***************************************************************************)
THEOREM GovernanceImplementsHandover == Spec => Handover!HandoverSpec
<1>1. Init => \E a \in Accounts : Handover!HandoverInit(a)
  BY GovernanceInputs DEF Init
<1>2. Typed /\ [Next]_vars => [Handover!HandoverNext]_(Handover!handoverVars)
  BY HandoverStep
<1> QED
  BY <1>1, <1>2, AlwaysTyped, PTL DEF Spec, Handover!HandoverSpec
=============================================================================
