-------------------------- MODULE ComplianceProofs --------------------------
(***************************************************************************)
(* The handover of the admin role, and the register of verified addresses  *)
(* whose admin it passes on, for any addresses, records, batches and       *)
(* jurisdictions.                                                          *)
(***************************************************************************)
EXTENDS Compliance, WellFoundedInduction, TLAPS

-----------------------------------------------------------------------------
(* The handover *)

\* The inductive invariant.
HandoverInv == HandoverTypeOK /\ PendingProposalIsCurrentAdmins

LEMMA HandoverInvInit ==
    ASSUME NEW a \in Accounts, HandoverInit(a)
    PROVE  HandoverInv
BY DEF HandoverInit, HandoverInv, HandoverTypeOK, PendingProposalIsCurrentAdmins

LEMMA HandoverInvStep == HandoverInv /\ [HandoverNext]_handoverVars => HandoverInv'
<1> SUFFICES ASSUME HandoverInv, [HandoverNext]_handoverVars
             PROVE  HandoverInv'
  OBVIOUS
<1> USE NoneIsNoAccount
        DEF HandoverInv, HandoverTypeOK, PendingProposalIsCurrentAdmins,
            RequireAdmin, RequireAuth
<1>1. ASSUME NEW a \in Accounts, ProposeAdmin(a)
      PROVE  HandoverInv'
  BY <1>1 DEF ProposeAdmin
<1>2. CASE AcceptAdmin
  BY <1>2 DEF AcceptAdmin
<1>3. CASE CancelAdminTransfer
  BY <1>3 DEF CancelAdminTransfer
<1>4. CASE OtherCall
  BY <1>4 DEF OtherCall
<1>5. CASE UNCHANGED handoverVars
  BY <1>5 DEF handoverVars
<1> QED
  BY <1>1, <1>2, <1>3, <1>4, <1>5 DEF HandoverNext

(***************************************************************************)
(* No proposal outlives the admin who signed it.                           *)
(***************************************************************************)
THEOREM ProposalsAreCurrent ==
    HandoverSpec => [](HandoverTypeOK /\ PendingProposalIsCurrentAdmins)
<1>1. (\E a \in Accounts : HandoverInit(a)) => HandoverInv
  BY HandoverInvInit
<1>2. HandoverInv => HandoverTypeOK /\ PendingProposalIsCurrentAdmins
  BY DEF HandoverInv
<1> QED
  BY <1>1, <1>2, HandoverInvStep, PTL DEF HandoverSpec

(***************************************************************************)
(* The admin role moves only with the consent of both sides: accept_admin  *)
(* asks for the successor's signature alone, and the admin's is the one    *)
(* under the proposal, which PendingProposalIsCurrentAdmins ties to the    *)
(* admin being replaced.                                                   *)
(***************************************************************************)
THEOREM HandoverNeedsBoth == HandoverSpec => AdminChangesWithBothSignatures
<1>1. (\E a \in Accounts : HandoverInit(a)) => HandoverInv
  BY HandoverInvInit
<1>2. ASSUME HandoverInv, HandoverNext, admin' # admin
      PROVE  admin' = pendingAdmin /\ signer' = admin' /\ proposedBy = admin
  BY <1>2 DEF HandoverInv, PendingProposalIsCurrentAdmins, HandoverNext, ProposeAdmin,
              AcceptAdmin, CancelAdminTransfer, OtherCall, RequireAuth
<1>3. HandoverInv /\ [HandoverNext]_handoverVars =>
          [admin' # admin =>
              /\ admin' = pendingAdmin /\ signer' = admin'
              /\ proposedBy = admin]_handoverVars
  BY <1>2
<1> QED
  BY <1>1, <1>3, HandoverInvStep, PTL DEF HandoverSpec, AdminChangesWithBothSignatures

-----------------------------------------------------------------------------
(* Batches *)

\* Every nonempty set of natural numbers has a least element.
LEMMA LeastNat ==
    ASSUME NEW T, T \subseteq Nat, T # {}
    PROVE  \E m \in T : \A k \in T : m <= k
<1> DEFINE R == OpToRel(<, Nat)
<1>1. IsWellFoundedOn(R, Nat)
  BY NatLessThanWellFounded
<1>2. \A x, y \in Nat : <<y, x>> \in R <=> y < x
  BY DEF OpToRel
<1> HIDE DEF R
<1>3. PICK m \in T : \A y \in T : <<y, m>> \notin R
  BY <1>1, WFMin
<1>4. \A k \in T : ~(k < m)
  BY <1>2, <1>3
<1> QED
  BY <1>4

\* Some positions of a sequence have a last one.
LEMMA MaxIs ==
    ASSUME NEW n \in Nat, NEW T, T \subseteq 1 .. n, T # {}
    PROVE  Max(T) \in T /\ \A i \in T : i <= Max(T)
<1> DEFINE Gaps == {g \in Nat : n - g \in T}
<1>1. PICK t \in T : TRUE
  OBVIOUS
<1>2. n - t \in Gaps /\ Gaps \subseteq Nat
  BY <1>1
<1>3. PICK g \in Gaps : \A k \in Gaps : g <= k
  <2> HIDE DEF Gaps
  <2> QED
    BY <1>2, LeastNat
<1>4. n - g \in T /\ \A i \in T : n - g >= i
  <2>1. \A i \in T : i \in Nat /\ n - i \in Gaps
    OBVIOUS
  <2> QED
    BY <1>3, <2>1
<1>5. \E m \in T : \A i \in T : m >= i
  BY <1>4
<1>6. Max(T) \in T /\ \A i \in T : Max(T) >= i
  BY <1>5 DEF Max
<1> QED
  BY <1>6

LEMMA MaxOf ==
    ASSUME NEW n \in Nat, NEW T, T \subseteq 1 .. n, NEW m \in T, \A i \in T : i <= m
    PROVE  Max(T) = m
<1>1. Max(T) \in T /\ \A i \in T : i <= Max(T)
  BY MaxIs
<1>2. Max(T) \in 1 .. n /\ m \in 1 .. n /\ Max(T) <= m /\ m <= Max(T)
  BY <1>1
<1> QED
  BY <1>2

\* The records with each subject's last entry in the batch written over them.
LastEntries(recs, b) ==
    [s \in Subjects |->
       LET entries == {i \in DOMAIN b : b[i].subject = s}
       IN  IF entries = {} THEN recs[s] ELSE b[Max(entries)].record]

(***************************************************************************)
(* After a batch the record of a subject is that of its last entry.  The   *)
(* fold writes the entry at the end of the positions it is given onto what *)
(* it makes of the others; the table `last`, which has each subject's last *)
(* entry for any set of positions, solves that equation, and at no length  *)
(* can the fold have another value, for at the least such length it would  *)
(* already have one for the entries before.                                *)
(***************************************************************************)
LEMMA BatchLeavesLast ==
    ASSUME NEW recs, DOMAIN recs = Subjects, recs = [s \in Subjects |-> recs[s]],
           NEW n \in Nat, NEW b, DOMAIN b = 1 .. n,
           \A i \in 1 .. n : b[i].subject \in Subjects
    PROVE  WriteAll(recs, b) = LastEntries(recs, b)
<1> DEFINE P == SUBSET (1 .. n)
           written(f, T) ==
             IF T = {} THEN recs
             ELSE [f[T \ {Max(T)}] EXCEPT ![b[Max(T)].subject] = b[Max(T)].record]
           Solves(f) == f = [T \in P |-> written(f, T)]
           iter == CHOOSE f : Solves(f)
           mine(T, s) == {i \in T : b[i].subject = s}
           entry(T, s) == IF mine(T, s) = {} THEN recs[s] ELSE b[Max(mine(T, s))].record
           left(T) == [s \in Subjects |-> entry(T, s)]
           last == [T \in P |-> left(T)]
<1>1. WriteAll(recs, b) = iter[1 .. n]
  BY DEF WriteAll, FoldLeft, MapThenFoldSet
<1>2. left({}) = recs
  OBVIOUS
<1>3. ASSUME NEW T \in P, T # {}
      PROVE  /\ T \ {Max(T)} \in P
             /\ left(T) = [left(T \ {Max(T)}) EXCEPT ![b[Max(T)].subject] = b[Max(T)].record]
  <2> DEFINE m == Max(T)
             old == left(T \ {m})
             new == [old EXCEPT ![b[m].subject] = b[m].record]
  <2>1. m \in T /\ (\A i \in T : i <= m) /\ b[m].subject \in Subjects
    BY <1>3, MaxIs
  <2>2. DOMAIN new = Subjects /\ new = [s \in Subjects |-> new[s]]
    OBVIOUS
  <2> HIDE DEF m
  <2>3. ASSUME NEW s \in Subjects, s # b[m].subject
        PROVE  entry(T, s) = new[s]
    <3>1. mine(T, s) = mine(T \ {m}, s)
      BY <2>3
    <3>2. entry(T, s) = entry(T \ {m}, s)
      BY <3>1
    <3> HIDE DEF entry
    <3> QED
      BY <2>3, <3>2
  <2>4. entry(T, b[m].subject) = new[b[m].subject]
    <3>1. m \in mine(T, b[m].subject) /\ mine(T, b[m].subject) \subseteq 1 .. n
      BY <1>3, <2>1
    <3>2. \A i \in mine(T, b[m].subject) : i <= m
      BY <2>1
    <3>3. Max(mine(T, b[m].subject)) = m
      <4> HIDE DEF mine
      <4> QED
        BY <3>1, <3>2, MaxOf
    <3>4. entry(T, b[m].subject) = b[m].record
      BY <3>1, <3>3
    <3>5. new[b[m].subject] = b[m].record
      BY <2>1
    <3> QED
      BY <3>4, <3>5
  <2>5. left(T) = new
    <3> HIDE DEF new, entry
    <3> QED
      BY <2>2, <2>3, <2>4
  <2> QED
    BY <2>5 DEF m
<1> HIDE DEF left, entry, mine
<1>4. Solves(last)
  <2>1. ASSUME NEW T \in P
        PROVE  left(T) = written(last, T)
    <3>1. CASE T = {}
      BY <1>2, <3>1
    <3>2. CASE T # {}
      <4> DEFINE rest == T \ {Max(T)}
      <4>1. /\ rest \in P
            /\ left(T) = [left(rest) EXCEPT ![b[Max(T)].subject] = b[Max(T)].record]
        BY <1>3, <3>2
      <4>2. last[rest] = left(rest)
        BY <4>1
      <4>3. written(last, T) = [last[rest] EXCEPT ![b[Max(T)].subject] = b[Max(T)].record]
        BY <3>2
      <4> HIDE DEF rest, last, written
      <4> QED
        BY <4>1, <4>2, <4>3
    <3> QED
      BY <3>1, <3>2
  <2> HIDE DEF written
  <2>2. last = [T \in P |-> written(last, T)]
    BY <2>1
  <2> QED
    BY <2>2
<1>5. Solves(iter)
  <2> HIDE DEF Solves, last
  <2> QED
    BY <1>4
<1>6. ASSUME NEW T \in P
      PROVE  iter[T] = written(iter, T)
  <2>1. \A f : f = [U \in P |-> written(iter, U)] => f[T] = written(iter, T)
    <3> HIDE DEF written, iter, P
    <3> QED
      BY <1>6
  <2>2. iter = [U \in P |-> written(iter, U)]
    BY <1>5
  <2> HIDE DEF written, iter
  <2> QED
    BY <2>1, <2>2
<1> HIDE DEF iter, Solves, last
<1>7. ASSUME iter[1 .. n] # left(1 .. n)
      PROVE  FALSE
  <2> DEFINE Bad == {k \in 0 .. n : iter[1 .. k] # left(1 .. k)}
  <2>1. n \in Bad /\ Bad \subseteq Nat
    BY <1>7
  <2>2. PICK k \in Bad : \A j \in Bad : k <= j
    <3> HIDE DEF Bad
    <3> QED
      BY <2>1, LeastNat
  <2>3. k \in 0 .. n /\ iter[1 .. k] # left(1 .. k)
    BY <2>2
  <2>4. 1 .. k \in P
    BY <2>3
  <2>5. iter[1 .. k] = written(iter, 1 .. k)
    BY <1>6, <2>4
  <2>6. CASE k = 0
    <3>1. 1 .. k = {}
      BY <2>6
    <3> QED
      BY <1>2, <2>3, <2>5, <3>1
  <2>7. CASE k # 0
    <3>1. k \in 1 .. k /\ 1 .. k \subseteq 1 .. k /\ (\A i \in 1 .. k : i <= k) /\ k \in Nat
      BY <2>3, <2>7
    <3>2. Max(1 .. k) = k
      BY <3>1, MaxOf
    <3>3. (1 .. k) \ {k} = 1 .. (k - 1)
      BY <2>3, <2>7
    <3>4. left(1 .. k) = [left(1 .. (k - 1)) EXCEPT ![b[k].subject] = b[k].record]
      BY <1>3, <2>4, <3>1, <3>2, <3>3
    <3>5. written(iter, 1 .. k)
            = [iter[1 .. (k - 1)] EXCEPT ![b[k].subject] = b[k].record]
      BY <3>1, <3>2, <3>3
    <3>6. iter[1 .. (k - 1)] = left(1 .. (k - 1))
      <4>1. k - 1 \in 0 .. n /\ k - 1 \notin Bad
        BY <2>2, <2>3, <2>7
      <4> QED
        BY <4>1
    <3> HIDE DEF written
    <3> QED
      BY <2>3, <2>5, <3>4, <3>5, <3>6
  <2> QED
    BY <2>6, <2>7
<1>8. left(1 .. n) = LastEntries(recs, b)
  BY DEF left, entry, mine, LastEntries
<1> QED
  BY <1>1, <1>7, <1>8

-----------------------------------------------------------------------------
(* What a call does to the records *)

\* The call that wrote the record r validated it.
Valid(r) == r \in RecordInputs /\ ValidRecord(r)

\* What validation lets in has the type of a record.
LEMMA ValidRecords == \A r : Valid(r) => r \in Records
<1> SUFFICES ASSUME NEW r, Valid(r) PROVE r \in Records
  OBVIOUS
<1> DEFINE J == {q.jurisdiction : q \in RecordInputs}
<1>1. r \in [jurisdiction : J, level : Nat, expires_at : Nat]
  BY ComplianceInputs DEF Valid
<1>2. r.level <= MaxLevel /\ r.jurisdiction \in Codes
  BY DEF Valid, ValidRecord, ValidJurisdictionShape
<1> HIDE DEF J
<1> QED
  BY <1>1, <1>2 DEF Records, MaxLevel

\* The entries of a batch.
LEMMA BatchEntries ==
    ASSUME NEW b \in BatchInputs
    PROVE  /\ Len(b) \in Nat /\ DOMAIN b = 1 .. Len(b)
           /\ \A i \in 1 .. Len(b) :
                 b[i].subject \in Subjects /\ b[i].record \in RecordInputs
<1> DEFINE E == [subject : Subjects, record : RecordInputs]
<1>1. b \in Seq(E)
  BY ComplianceInputs
<1>2. \A e \in E : e.subject \in Subjects /\ e.record \in RecordInputs
  OBVIOUS
<1> HIDE DEF E
<1>3. Len(b) \in Nat /\ DOMAIN b = 1 .. Len(b) /\ \A i \in 1 .. Len(b) : b[i] \in E
  BY <1>1
<1> QED
  BY <1>2, <1>3

\* What a batch writes: the last entry of each subject it names.
LEMMA BatchWrites ==
    ASSUME NEW recs \in [Subjects -> Records \cup {None}], NEW b \in BatchInputs
    PROVE  WriteAll(recs, b) = LastEntries(recs, b)
<1>1. Len(b) \in Nat /\ DOMAIN b = 1 .. Len(b)
      /\ \A i \in 1 .. Len(b) : b[i].subject \in Subjects
  BY BatchEntries
<1>2. DOMAIN recs = Subjects /\ recs = [s \in Subjects |-> recs[s]]
  OBVIOUS
<1> QED
  BY <1>1, <1>2, BatchLeavesLast

\* A record is only written, after validation, or taken away, and by the admin.
LEMMA RecordCallWrites ==
    ASSUME TypeOK, RecordCall
    PROVE  /\ signer' = admin /\ UNCHANGED <<now, paused, denied, admin, pendingAdmin, proposedBy>>
           /\ DOMAIN records' = Subjects /\ records' = [s \in Subjects |-> records'[s]]
           /\ \A s \in Subjects :
                 records'[s] \in {records[s], None} \/ Valid(records'[s])
<1> DEFINE Signed == signer' = admin
                     /\ UNCHANGED <<now, paused, denied, admin, pendingAdmin, proposedBy>>
           Writes == /\ DOMAIN records' = Subjects
                     /\ records' = [s \in Subjects |-> records'[s]]
                     /\ \A s \in Subjects :
                           records'[s] \in {records[s], None} \/ Valid(records'[s])
<1>0. records \in [Subjects -> Records \cup {None}]
  BY DEF TypeOK, Records
<1>1. ASSUME NEW s \in Subjects, NEW r \in RecordInputs, SetKyc(s, r)
      PROVE  Signed /\ Writes
  BY <1>0, <1>1 DEF SetKyc, RequireAdmin, RequireAuth, Valid
<1>2. ASSUME NEW b \in BatchInputs, SetKycBatch(b)
      PROVE  Signed /\ Writes
  <2>1. records' =
             [s \in Subjects |->
                LET entries == {i \in DOMAIN b : b[i].subject = s}
                IN  IF entries = {} THEN records[s] ELSE b[Max(entries)].record]
    BY <1>0, <1>2, BatchWrites DEF SetKycBatch, LastEntries
  <2>2. Len(b) \in Nat /\ DOMAIN b = 1 .. Len(b)
        /\ \A i \in 1 .. Len(b) : b[i].record \in RecordInputs
    BY BatchEntries
  <2>3. ASSUME NEW s \in Subjects
        PROVE  records'[s] = records[s] \/ Valid(records'[s])
    <3> DEFINE entries == {i \in DOMAIN b : b[i].subject = s}
    <3>1. CASE entries = {}
      BY <2>1, <3>1
    <3>2. CASE entries # {}
      <4>1. entries \subseteq 1 .. Len(b)
        BY <2>2
      <4>2. records'[s] = b[Max(entries)].record
        BY <2>1, <3>2
      <4> HIDE DEF entries
      <4>3. Max(entries) \in DOMAIN b
        BY <2>2, <3>2, <4>1, MaxIs
      <4> QED
        BY <1>2, <2>2, <4>2, <4>3 DEF SetKycBatch, Valid
    <3> QED
      BY <3>1, <3>2
  <2>4. DOMAIN records' = Subjects /\ records' = [s \in Subjects |-> records'[s]]
    BY <2>1
  <2>5. Signed
    BY <1>2 DEF SetKycBatch, RequireAdmin, RequireAuth
  <2> QED
    BY <2>3, <2>4, <2>5
<1>3. ASSUME NEW b, RevokeKycBatch(b)
      PROVE  Signed /\ Writes
  BY <1>3 DEF RevokeKycBatch, RevokeAll, RequireAdmin, RequireAuth
<1>4. ASSUME NEW s \in Subjects, RevokeKyc(s)
      PROVE  Signed /\ Writes
  BY <1>4 DEF RevokeKyc, RevokeAll, RequireAdmin, RequireAuth
<1> QED
  BY <1>1, <1>2, <1>3, <1>4 DEF RecordCall

-----------------------------------------------------------------------------
(* What a call tells *)

\* A listener takes the last event about a subject.
LEMMA LastTold ==
    ASSUME NEW before, NEW told, NEW n \in Nat, DOMAIN told \subseteq 1 .. n,
           NEW s \in Subjects, NEW m \in DOMAIN told, told[m].subject = s,
           \A i \in DOMAIN told : told[i].subject = s => i <= m
    PROVE  LET about == {i \in DOMAIN told : told[i].subject = s}
           IN  about # {} /\ Max(about) = m
<1> DEFINE about == {i \in DOMAIN told : told[i].subject = s}
<1>1. about \subseteq 1 .. n /\ m \in about /\ \A i \in about : i <= m
  OBVIOUS
<1> HIDE DEF about
<1>2. about # {} /\ Max(about) = m
  BY <1>1, MaxOf
<1> QED
  BY <1>2 DEF about

LEMMA SetTells ==
    ASSUME NEW recs \in [Subjects -> Records \cup {None}],
           NEW t \in Subjects, NEW r
    PROVE  TellAll(recs, <<KycSet(t, r)>>, [recs EXCEPT ![t] = r])
<1> DEFINE told == <<KycSet(t, r)>>
           after == [recs EXCEPT ![t] = r]
<1>1. DOMAIN told = 1 .. 1 /\ told[1].event = "KycSet"
      /\ told[1].subject = t /\ told[1].record = r
  BY DEF KycSet
<1>2. \A s \in Subjects : after[s] = IF s = t THEN r ELSE recs[s]
  OBVIOUS
<1>3. 1 \in 1 .. 1 /\ \A i \in 1 .. 1 : i = 1
  OBVIOUS
<1> HIDE DEF told, after
<1>4. ASSUME NEW s \in Subjects
      PROVE  LET about == {i \in DOMAIN told : told[i].subject = s}
             IN  IF s = t THEN about # {} /\ Max(about) = 1 ELSE about = {}
  <2>1. CASE s = t
    BY <1>1, <1>3, <2>1, LastTold
  <2>2. CASE s # t
    BY <1>1, <1>3, <2>2
  <2> QED
    BY <2>1, <2>2
<1>5. \A i \in DOMAIN told : told[i].event # "KycRevoked"
  BY <1>1, <1>3
<1>6. TellAll(recs, told, after)
  BY <1>1, <1>2, <1>4, <1>5 DEF TellAll
<1> QED
  BY <1>6 DEF told, after

\* The events of a batch tell what its entries leave.
LEMMA BatchTells ==
    ASSUME NEW recs, NEW b \in BatchInputs
    PROVE  TellAll(recs, [i \in DOMAIN b |-> KycSet(b[i].subject, b[i].record)],
                   LastEntries(recs, b))
<1> DEFINE told == [i \in DOMAIN b |-> KycSet(b[i].subject, b[i].record)]
           after == LastEntries(recs, b)
<1>1. DOMAIN told = DOMAIN b
      /\ \A i \in DOMAIN b : /\ told[i].event = "KycSet"
                             /\ told[i].subject = b[i].subject
                             /\ told[i].record = b[i].record
  BY DEF KycSet
<1>2. \A s \in Subjects :
         LET entries == {i \in DOMAIN b : b[i].subject = s}
         IN  after[s] = IF entries = {} THEN recs[s] ELSE b[Max(entries)].record
  BY DEF LastEntries
<1> HIDE DEF told, after
<1>3. ASSUME NEW s \in Subjects
      PROVE  LET about == {i \in DOMAIN told : told[i].subject = s}
             IN  after[s] = IF about = {} THEN recs[s]
                            ELSE IF told[Max(about)].event = "KycSet"
                            THEN told[Max(about)].record ELSE None
  <2> DEFINE about == {i \in DOMAIN told : told[i].subject = s}
  <2>1. about = {i \in DOMAIN b : b[i].subject = s} /\ about \subseteq DOMAIN b
    BY <1>1
  <2>2. after[s] = IF about = {} THEN recs[s] ELSE b[Max(about)].record
    BY <1>2, <2>1
  <2>3. CASE about # {}
    <3>1. \A i \in about : i \in 1 .. Len(b)
      BY <2>1, BatchEntries
    <3>2. about \subseteq 1 .. Len(b) /\ Len(b) \in Nat
      BY <3>1, BatchEntries
    <3> HIDE DEF about
    <3>3. Max(about) \in DOMAIN b
      BY <2>1, <2>3, <3>2, MaxIs
    <3>4. after[s] = IF about = {} THEN recs[s]
                     ELSE IF told[Max(about)].event = "KycSet"
                     THEN told[Max(about)].record ELSE None
      BY <1>1, <2>2, <2>3, <3>3
    <3> QED
      BY <3>4 DEF about
  <2>4. CASE about = {}
    BY <2>2, <2>4
  <2> QED
    BY <2>3, <2>4
<1>4. \A i \in DOMAIN told : told[i].event # "KycRevoked"
  BY <1>1
<1>5. TellAll(recs, told, after)
  BY <1>3, <1>4 DEF TellAll
<1> QED
  BY <1>5 DEF told, after

\* A revocation tells of each record it finds once, at the first position that
\* names the subject.
LEMMA RevokeTells ==
    ASSUME NEW recs \in [Subjects -> Records \cup {None}],
           NEW n \in Nat, NEW subjects, DOMAIN subjects = 1 .. n
    PROVE  TellAll(recs, RevokeEvents(recs, subjects), RevokeAll(recs, ToSet(subjects)))
<1> DEFINE told == RevokeEvents(recs, subjects)
           after == RevokeAll(recs, ToSet(subjects))
           first(k) == \A j \in 1 .. k - 1 : subjects[j] # subjects[k]
<1>1. DOMAIN told = {k \in 1 .. n : recs[subjects[k]] # None /\ first(k)}
      /\ \A i \in DOMAIN told : /\ told[i].event = "KycRevoked"
                                /\ told[i].subject = subjects[i]
                                /\ told[i].record = recs[subjects[i]]
  BY DEF RevokeEvents, KycRevoked
<1>2. \A s \in Subjects :
         after[s] = IF \E k \in 1 .. n : subjects[k] = s THEN None ELSE recs[s]
  BY DEF RevokeAll, ToSet
<1> HIDE DEF told, after
<1>3. ASSUME NEW s \in Subjects, NEW i \in DOMAIN told, NEW j \in DOMAIN told,
             told[i].subject = s, told[j].subject = s
      PROVE  i = j
  <2>1. i \in 1 .. n /\ j \in 1 .. n /\ subjects[i] = s /\ subjects[j] = s
        /\ first(i) /\ first(j)
    BY <1>1, <1>3
  <2>2. ~(i < j) /\ ~(j < i)
    BY <2>1
  <2> QED
    BY <2>1, <2>2
<1>4. ASSUME NEW s \in Subjects, NEW i \in DOMAIN told, told[i].subject = s
      PROVE  /\ {j \in {k \in DOMAIN told : told[k].subject = s} : j < i} = {}
             /\ told[i].record = recs[s] /\ told[i].record # None
  <2>1. i \in 1 .. n /\ subjects[i] = s /\ recs[subjects[i]] # None
    BY <1>1, <1>4
  <2>2. \A j \in DOMAIN told : told[j].subject = s => ~(j < i)
    BY <1>3, <1>4, <2>1
  <2> QED
    BY <1>1, <2>1, <2>2
<1>5. ASSUME NEW s \in Subjects
      PROVE  LET about == {i \in DOMAIN told : told[i].subject = s}
             IN  after[s] = IF about = {} THEN recs[s]
                            ELSE IF told[Max(about)].event = "KycSet"
                            THEN told[Max(about)].record ELSE None
  <2> DEFINE about == {i \in DOMAIN told : told[i].subject = s}
             named == {k \in 1 .. n : subjects[k] = s}
  <2>1. CASE named = {}
    <3>1. after[s] = recs[s]
      BY <1>2, <2>1
    <3>2. about = {}
      BY <1>1, <2>1
    <3> QED
      BY <3>1, <3>2
  <2>2. CASE named # {} /\ recs[s] = None
    <3>1. after[s] = recs[s]
      BY <1>2, <2>2
    <3>2. about = {}
      BY <1>1, <2>2
    <3> QED
      BY <3>1, <3>2
  <2>3. CASE named # {} /\ recs[s] # None
    <3>1. named \subseteq Nat
      OBVIOUS
    <3>2. PICK m \in named : \A k \in named : m <= k
      <4> HIDE DEF named
      <4> QED
        BY <2>3, <3>1, LeastNat
    <3>3. m \in 1 .. n /\ subjects[m] = s
      BY <3>2
    <3>4. first(m)
      <4>1. ASSUME NEW j \in 1 .. m - 1, subjects[j] = s
            PROVE  FALSE
        <5>1. j \in named /\ ~(m <= j)
          BY <3>3, <4>1
        <5> QED
          BY <3>2, <5>1
      <4> QED
        BY <3>3, <4>1
    <3>5. m \in DOMAIN told /\ told[m].subject = s
      BY <1>1, <2>3, <3>3, <3>4
    <3>6. \A i \in DOMAIN told : told[i].subject = s => i <= m
      BY <1>3, <3>3, <3>5
    <3>7. DOMAIN told \subseteq 1 .. n
      BY <1>1
    <3>8. about # {} /\ Max(about) = m
      BY <3>5, <3>6, <3>7, LastTold
    <3>9. after[s] = None /\ told[m].event # "KycSet"
      BY <1>1, <1>2, <3>3, <3>5
    <3> HIDE DEF about
    <3>10. after[s] = IF about = {} THEN recs[s]
                      ELSE IF told[Max(about)].event = "KycSet"
                      THEN told[Max(about)].record ELSE None
      BY <3>8, <3>9
    <3> QED
      BY <3>10 DEF about
  <2> QED
    BY <2>1, <2>2, <2>3
<1>6. TellAll(recs, told, after)
  BY <1>4, <1>5 DEF TellAll
<1> QED
  BY <1>6 DEF told, after

\* The calls that write records tell all of it: of records that passed
\* validation, and of records that were there.
LEMMA RecordCallTells ==
    ASSUME TypeOK, RecordCall
    PROVE  /\ TellAll(records, events', records')
           /\ \A i \in DOMAIN events' :
                 \/ \E s \in Subjects, r \in RecordInputs :
                       ValidRecord(r) /\ events'[i] = KycSet(s, r)
                 \/ \E s \in Subjects :
                       records[s] # None /\ events'[i] = KycRevoked(s, records[s])
           /\ events' = [i \in DOMAIN events' |-> events'[i]]
<1> DEFINE Typed ==
             /\ \A i \in DOMAIN events' :
                   \/ \E s \in Subjects, r \in RecordInputs :
                         ValidRecord(r) /\ events'[i] = KycSet(s, r)
                   \/ \E s \in Subjects :
                         records[s] # None /\ events'[i] = KycRevoked(s, records[s])
             /\ events' = [i \in DOMAIN events' |-> events'[i]]
<1>0. records \in [Subjects -> Records \cup {None}]
  BY DEF TypeOK
<1>1. ASSUME NEW n \in Nat, NEW subjects, DOMAIN subjects = 1 .. n,
             \A i \in 1 .. n : subjects[i] \in Subjects,
             events' = RevokeEvents(records, subjects)
      PROVE  Typed
  BY <1>1 DEF RevokeEvents
<1>2. ASSUME NEW s \in Subjects, NEW r \in RecordInputs, SetKyc(s, r)
      PROVE  TellAll(records, events', records') /\ Typed
  <2>1. events' = <<KycSet(s, r)>> /\ records' = [records EXCEPT ![s] = r] /\ ValidRecord(r)
    BY <1>2 DEF SetKyc
  <2>2. TellAll(records, events', records')
    BY <1>0, <2>1, SetTells
  <2>3. DOMAIN events' = 1 .. 1 /\ events'[1] = KycSet(s, r)
        /\ events' = [i \in DOMAIN events' |-> events'[i]]
    BY <2>1
  <2>4. \A i \in DOMAIN events' : events'[i] = KycSet(s, r)
    BY <2>3
  <2> QED
    BY <2>1, <2>2, <2>3, <2>4
<1>3. ASSUME NEW b \in BatchInputs, SetKycBatch(b)
      PROVE  TellAll(records, events', records') /\ Typed
  <2>1. /\ events' = [i \in DOMAIN b |-> KycSet(b[i].subject, b[i].record)]
        /\ records' = WriteAll(records, b)
        /\ \A i \in DOMAIN b : ValidRecord(b[i].record)
    BY <1>3 DEF SetKycBatch
  <2>2. records' = LastEntries(records, b)
    BY <1>0, <2>1, BatchWrites
  <2>3. TellAll(records, events', records')
    BY <2>1, <2>2, BatchTells
  <2>4. \A i \in DOMAIN b : b[i].subject \in Subjects /\ b[i].record \in RecordInputs
    BY BatchEntries
  <2> QED
    BY <2>1, <2>3, <2>4
<1>4. ASSUME NEW b \in BatchInputs, RevokeKycBatch([i \in DOMAIN b |-> b[i].subject])
      PROVE  TellAll(records, events', records') /\ Typed
  <2> DEFINE subjects == [i \in DOMAIN b |-> b[i].subject]
  <2>1. events' = RevokeEvents(records, subjects) /\ records' = RevokeAll(records, ToSet(subjects))
    BY <1>4 DEF RevokeKycBatch
  <2>2. Len(b) \in Nat /\ DOMAIN subjects = 1 .. Len(b)
        /\ \A i \in 1 .. Len(b) : subjects[i] \in Subjects
    BY BatchEntries
  <2> HIDE DEF subjects
  <2> QED
    BY <1>0, <1>1, <2>1, <2>2, RevokeTells
<1>5. ASSUME NEW s \in Subjects, RevokeKyc(s)
      PROVE  TellAll(records, events', records') /\ Typed
  <2> DEFINE subjects == <<s>>
  <2>1. events' = RevokeEvents(records, subjects) /\ records' = RevokeAll(records, {s})
    BY <1>5 DEF RevokeKyc
  <2>2. 1 \in Nat /\ DOMAIN subjects = 1 .. 1 /\ subjects[1] = s
        /\ \A i \in 1 .. 1 : subjects[i] = s
    OBVIOUS
  <2>3. ToSet(subjects) = {s}
    BY <2>2 DEF ToSet
  <2> HIDE DEF subjects
  <2> QED
    BY <1>0, <1>1, <2>1, <2>2, <2>3, RevokeTells
<1> QED
  BY <1>2, <1>3, <1>4, <1>5 DEF RecordCall

-----------------------------------------------------------------------------
(* The invariant *)

\* Every call is a step of the handover, signed by some account.
LEMMA ComplianceHandoverStep ==
    ASSUME TypeOK, [Next]_vars
    PROVE  [HandoverNext]_handoverVars
<1>0. admin \in Accounts
  BY DEF TypeOK, HandoverTypeOK
<1>1. CASE RecordCall
  <2>1. signer' = admin /\ UNCHANGED <<admin, pendingAdmin, proposedBy>>
    BY <1>1, RecordCallWrites
  <2> QED
    BY <1>0, <2>1 DEF HandoverNext, OtherCall, RequireAuth
<1>2. CASE PolicyCall
  <2>1. signer' = admin /\ UNCHANGED <<admin, pendingAdmin, proposedBy>>
    BY <1>2 DEF PolicyCall, SetJurisdictionDenied, SetPaused, RequireAdmin, RequireAuth
  <2> QED
    BY <1>0, <2>1 DEF HandoverNext, OtherCall, RequireAuth
<1>3. CASE HandoverCall
  BY <1>3, ComplianceInputs DEF HandoverCall, HandoverNext
<1>4. CASE CloseLedger
  BY <1>4 DEF CloseLedger
<1>5. CASE UNCHANGED vars
  BY <1>5 DEF vars
<1> QED
  BY <1>1, <1>2, <1>3, <1>4, <1>5 DEF Next

\* The inductive invariant.
ComplianceInv == TypeOK /\ HandoverInv

LEMMA ComplianceInvInit == Init => ComplianceInv
<1> SUFFICES ASSUME Init PROVE ComplianceInv
  OBVIOUS
<1>1. HandoverInv
  BY HandoverInvInit DEF Init
<1>2. TypeOK
  <2>1. 0 \in 0 .. MaxTime
    BY ComplianceBounds
  <2>2. [s \in Subjects |-> None] \in [Subjects -> Records \cup {None}]
    OBVIOUS
  <2>3. <<>> \in [DOMAIN <<>> -> KycEvents]
    OBVIOUS
  <2> QED
    BY <1>1, <2>1, <2>2, <2>3 DEF Init, TypeOK, HandoverInv
<1> QED
  BY <1>1, <1>2 DEF ComplianceInv

LEMMA ComplianceInvStep == ComplianceInv /\ [Next]_vars => ComplianceInv'
<1> SUFFICES ASSUME ComplianceInv, [Next]_vars PROVE ComplianceInv'
  OBVIOUS
<1>0. TypeOK /\ HandoverInv /\ now \in 0 .. MaxTime /\ paused \in BOOLEAN
      /\ records \in [Subjects -> Records \cup {None}] /\ denied \subseteq Codes
  BY DEF ComplianceInv, TypeOK, Records
<1>1. HandoverInv'
  BY <1>0, ComplianceHandoverStep, HandoverInvStep
<1> DEFINE Rest == /\ now' \in 0 .. MaxTime /\ paused' \in BOOLEAN
                   /\ records' \in [Subjects -> Records \cup {None}] /\ denied' \subseteq Codes
<1>2. Rest
  <2>1. CASE RecordCall
    <3>1. /\ UNCHANGED <<now, paused, denied>>
          /\ DOMAIN records' = Subjects /\ records' = [s \in Subjects |-> records'[s]]
          /\ \A s \in Subjects :
                records'[s] \in {records[s], None} \/ Valid(records'[s])
      BY <1>0, <2>1, RecordCallWrites
    <3>2. \A s \in Subjects : records'[s] \in Records \cup {None}
      BY <1>0, <3>1, ValidRecords
    <3>3. records' \in [Subjects -> Records \cup {None}]
      BY <3>1, <3>2
    <3> QED
      BY <1>0, <3>1, <3>3
  <2>2. CASE PolicyCall
    <3>1. ASSUME NEW c \in JurisdictionInputs, NEW d \in BOOLEAN, SetJurisdictionDenied(c, d)
          PROVE  Rest
      BY <1>0, <3>1 DEF SetJurisdictionDenied, ValidJurisdictionShape
    <3>2. ASSUME NEW p \in PauseInputs, SetPaused(p)
          PROVE  Rest
      BY <1>0, <3>2, ComplianceInputs DEF SetPaused
    <3> QED
      BY <2>2, <3>1, <3>2 DEF PolicyCall
  <2>3. CASE HandoverCall
    BY <1>0, <2>3 DEF HandoverCall, registerVars
  <2>4. CASE CloseLedger
    BY <1>0, <2>4, ComplianceBounds DEF CloseLedger, registerVars
  <2>5. CASE UNCHANGED vars
    BY <1>0, <2>5 DEF vars, registerVars
  <2> QED
    BY <2>1, <2>2, <2>3, <2>4, <2>5 DEF Next
<1>3. events' \in [DOMAIN events' -> KycEvents]
  <2>1. CASE RecordCall
    <3>1. events' = [i \in DOMAIN events' |-> events'[i]]
          /\ \A i \in DOMAIN events' :
                \/ \E s \in Subjects, r \in RecordInputs :
                      ValidRecord(r) /\ events'[i] = KycSet(s, r)
                \/ \E s \in Subjects :
                      records[s] # None /\ events'[i] = KycRevoked(s, records[s])
      BY <1>0, <2>1, RecordCallTells
    <3>2. ASSUME NEW s \in Subjects, NEW r \in RecordInputs, ValidRecord(r)
          PROVE  KycSet(s, r) \in KycEvents
      <4>1. r \in Records
        BY <3>2, ValidRecords DEF Valid
      <4> QED
        BY <4>1 DEF KycSet, KycEvents
    <3>3. ASSUME NEW s \in Subjects, records[s] # None
          PROVE  KycRevoked(s, records[s]) \in KycEvents
      <4>1. records[s] \in Records
        BY <1>0, <3>3
      <4> QED
        BY <4>1 DEF KycRevoked, KycEvents
    <3>4. \A i \in DOMAIN events' : events'[i] \in KycEvents
      BY <3>1, <3>2, <3>3
    <3> QED
      BY <3>1, <3>4
  <2>2. CASE ~RecordCall /\ ~UNCHANGED vars
    <3>1. events' = <<>>
      BY <2>2
         DEF Next, PolicyCall, SetJurisdictionDenied, SetPaused, HandoverCall, CloseLedger
    <3>2. <<>> \in [DOMAIN <<>> -> KycEvents]
      OBVIOUS
    <3> QED
      BY <3>1, <3>2
  <2>3. CASE UNCHANGED vars
    BY <2>3 DEF vars, ComplianceInv, TypeOK
  <2> QED
    BY <2>1, <2>2, <2>3
<1> QED
  BY <1>0, <1>1, <1>2, <1>3 DEF ComplianceInv, TypeOK, HandoverInv

LEMMA ComplianceAlwaysInv == Spec => []ComplianceInv
  BY ComplianceInvInit, ComplianceInvStep, PTL DEF Spec

-----------------------------------------------------------------------------
(* The theorems *)

(***************************************************************************)
(* The register's admin role passes on exactly as the two-step handover    *)
(* says: with the signatures of both sides.                                *)
(***************************************************************************)
THEOREM ComplianceHandsOver == Spec => AdminChangesWithBothSignatures
<1>1. Init => \E a \in Accounts : HandoverInit(a)
  BY DEF Init
<1>2. ComplianceInv /\ [Next]_vars => [HandoverNext]_handoverVars
  BY ComplianceHandoverStep DEF ComplianceInv
<1>3. Spec => HandoverSpec
  BY <1>1, <1>2, ComplianceAlwaysInv, PTL DEF Spec, HandoverSpec
<1> QED
  BY <1>3, HandoverNeedsBoth

(***************************************************************************)
(* The answers about an address for all levels are those of one standing,  *)
(* whatever was written about it and however old it is.                    *)
(***************************************************************************)
THEOREM ComplianceIsAStanding == Spec => []AnswersAreAStanding
<1>1. ASSUME ComplianceInv, NEW s \in Subjects
      PROVE  \E standing \in -1 .. MaxLevel :
                \A l \in 0 .. MaxLevel + 1 : Evaluate(s, l) <=> standing >= l
  <2> DEFINE r == records[s]
             counts == r # None /\ (r.expires_at = 0 \/ r.expires_at > now)
                       /\ r.jurisdiction \notin denied
  <2>1. r # None => r.level \in 0 .. MaxLevel
    BY <1>1 DEF ComplianceInv, TypeOK, Records
  <2>2. CASE counts
    <3>1. \A l \in 0 .. MaxLevel + 1 : Evaluate(s, l) <=> r.level >= l
      BY <2>2 DEF Evaluate
    <3>2. r.level \in -1 .. MaxLevel
      BY <2>1, <2>2 DEF MaxLevel
    <3> QED
      BY <3>1, <3>2
  <2>3. CASE ~counts
    <3>1. \A l \in 0 .. MaxLevel + 1 : ~Evaluate(s, l) /\ ~(-1 >= l)
      BY <2>3 DEF Evaluate, MaxLevel
    <3>2. -1 \in -1 .. MaxLevel
      BY DEF MaxLevel
    <3> QED
      BY <3>1, <3>2
  <2> QED
    BY <2>2, <2>3
<1>2. ComplianceInv => AnswersAreAStanding
  BY <1>1 DEF AnswersAreAStanding
<1> QED
  BY <1>2, ComplianceAlwaysInv, PTL

(***************************************************************************)
(* The events of every call, in order, account for what it did to the      *)
(* records: a listener who follows them has the records themselves,        *)
(* however long the batch and however often it names a subject.            *)
(***************************************************************************)
THEOREM ComplianceEventsTellAll == Spec => EventsTellEveryDecision
<1>1. ASSUME ComplianceInv, [Next]_vars, ~UNCHANGED vars
      PROVE  TellAll(records, events', records')
  <2>1. CASE RecordCall
    BY <1>1, <2>1, RecordCallTells DEF ComplianceInv
  <2>2. CASE ~RecordCall
    <3>1. events' = <<>> /\ records' = records
      BY <1>1, <2>2
         DEF Next, PolicyCall, SetJurisdictionDenied, SetPaused, HandoverCall, CloseLedger,
             registerVars
    <3>2. DOMAIN events' = {}
      BY <3>1
    <3> QED
      BY <3>1, <3>2 DEF TellAll
  <2> QED
    BY <2>1, <2>2
<1>2. ComplianceInv /\ [Next]_vars => [TellAll(records, events', records')]_vars
  BY <1>1
<1> QED
  BY <1>2, ComplianceAlwaysInv, PTL DEF Spec, EventsTellEveryDecision

(***************************************************************************)
(* Only a call the admin signed makes an address compliant at a level it   *)
(* was not compliant at; time makes nobody compliant.                      *)
(***************************************************************************)
THEOREM ComplianceByAdminOnly == Spec => CompliantOnlyByAdmin
<1> DEFINE ByAdmin ==
      \A s \in Subjects, l \in 0 .. MaxLevel :
          ~Evaluate(s, l) /\ Evaluate(s, l)' =>
              now' = now /\ signer' = admin /\ admin' = admin
<1>1. ASSUME ComplianceInv, [Next]_vars
      PROVE  ByAdmin
  <2>0. now \in Nat /\ records \in [Subjects -> Records \cup {None}]
    BY <1>1 DEF ComplianceInv, TypeOK, Records
  <2>1. CASE RecordCall
    BY <1>1, <2>1, RecordCallWrites DEF ComplianceInv
  <2>2. CASE PolicyCall
    BY <2>2 DEF PolicyCall, SetJurisdictionDenied, SetPaused, RequireAdmin, RequireAuth
  <2>3. CASE HandoverCall \/ UNCHANGED vars
    BY <2>3 DEF HandoverCall, vars, registerVars, Evaluate
  <2>4. CASE CloseLedger
    <3>1. now' = now + 1 /\ records' = records /\ denied' = denied
      BY <2>4 DEF CloseLedger, registerVars
    <3>2. ASSUME NEW s \in Subjects, NEW l \in 0 .. MaxLevel, Evaluate(s, l)'
          PROVE  Evaluate(s, l)
      <4>1. records[s] # None => records[s].expires_at \in Nat
        BY <2>0 DEF Records
      <4> QED
        BY <2>0, <3>1, <3>2, <4>1 DEF Evaluate
    <3> QED
      BY <3>2
  <2> QED
    BY <1>1, <2>1, <2>2, <2>3, <2>4 DEF Next
<1> QED
  BY <1>1, ComplianceAlwaysInv, PTL DEF Spec, CompliantOnlyByAdmin

(***************************************************************************)
(* A record that is written counts at its level at once, unless its        *)
(* jurisdiction is denied: what validation lets in is what evaluation      *)
(* asks for, to the second.                                                *)
(***************************************************************************)
THEOREM ComplianceWritesCount == Spec => WrittenRecordsCount
<1> DEFINE Counts ==
      \A s \in Subjects, l \in 0 .. MaxLevel :
          LET r == records'[s]
          IN  r # records[s] /\ r # None /\ r.level = l /\ r.jurisdiction \notin denied =>
                  Evaluate(s, l)'
<1>1. ASSUME ComplianceInv, [Next]_vars
      PROVE  Counts
  <2>1. CASE RecordCall
    <3>1. /\ UNCHANGED <<now, denied>>
          /\ \A s \in Subjects :
                records'[s] \in {records[s], None} \/ Valid(records'[s])
      BY <1>1, <2>1, RecordCallWrites DEF ComplianceInv
    <3> QED
      BY <3>1 DEF Valid, ValidRecord, Evaluate
  <2>2. CASE ~RecordCall
    <3>1. records' = records
      BY <1>1, <2>2
         DEF Next, PolicyCall, SetJurisdictionDenied, SetPaused, HandoverCall, CloseLedger,
             vars, registerVars
    <3> QED
      BY <3>1
  <2> QED
    BY <2>1, <2>2
<1> QED
  BY <1>1, ComplianceAlwaysInv, PTL DEF Spec, WrittenRecordsCount
=============================================================================
