----------------------------- MODULE Compliance -----------------------------
(***************************************************************************)
(* The register of verified addresses (contracts/compliance/src/lib.rs):   *)
(* the admin writes and revokes records, one or a batch at a time, and     *)
(* denies jurisdictions; token contracts ask whether an address is         *)
(* compliant at a level.                                                   *)
(*                                                                         *)
(* One invocation is one step; one that panics is rolled back and is no    *)
(* step.  The admin role is that of AdminHandover, whose variables and     *)
(* actions this module extends.                                            *)
(***************************************************************************)
EXTENDS AdminHandover, Integers, SequencesExt

CONSTANTS
    Codes,             \* strings of two uppercase letters
    MaxBatchSize,      \* MAX_BATCH_SIZE
    MaxTime            \* bound: the model closes no ledger after this second

\* What callers pass.
CONSTANTS
    Subjects, RecordInputs, BatchInputs, JurisdictionInputs, PauseInputs, Successors

\* Highest verification level on the scale.
MaxLevel == 3

ASSUME ComplianceBounds == MaxBatchSize \in Nat /\ MaxTime \in Nat
ASSUME ComplianceInputs ==
    /\ Subjects \subseteq Accounts /\ Successors \subseteq Accounts
    /\ None \notin RecordInputs
    /\ RecordInputs \subseteq [jurisdiction : {r.jurisdiction : r \in RecordInputs},
                               level : Nat, expires_at : Nat]
    /\ BatchInputs \subseteq Seq([subject : Subjects, record : RecordInputs])
    /\ PauseInputs \subseteq BOOLEAN

VARIABLES
    now,               \* env.ledger().timestamp()
    paused,
    records,           \* KycStatus, None if there is no entry
    denied,            \* the jurisdictions with a JurisdictionDenied entry
    events             \* history: the KYC events of the last step, by position in its loop

registerVars == <<paused, records, denied>>
vars == <<now, registerVars, events, handoverVars>>

-----------------------------------------------------------------------------
(* Checks *)

\* validate_jurisdiction_shape
ValidJurisdictionShape(code) == code \in Codes

\* Mutant of ValidRecord: a record that expires this second is taken.
ValidRecord_ExpiringNow(r) ==
    /\ r.level <= MaxLevel
    /\ r.expires_at = 0 \/ r.expires_at >= now
    /\ ValidJurisdictionShape(r.jurisdiction)

\* validate_record
ValidRecord(r) ==
    /\ r.level <= MaxLevel
    /\ r.expires_at = 0 \/ r.expires_at > now
    /\ ValidJurisdictionShape(r.jurisdiction)

\* Mutant of Evaluate: only the very level asked for will do.
Evaluate_Exact(subject, minLevel) ==
    LET r == records[subject]
    IN  /\ r # None
        /\ r.level = minLevel
        /\ r.expires_at = 0 \/ r.expires_at > now
        /\ r.jurisdiction \notin denied

\* What is_compliant and screen answer.
Evaluate(subject, minLevel) ==
    LET r == records[subject]
    IN  /\ r # None
        /\ r.level >= minLevel
        /\ r.expires_at = 0 \/ r.expires_at > now
        /\ r.jurisdiction \notin denied

-----------------------------------------------------------------------------
Init ==
    /\ \E a \in Accounts : HandoverInit(a)
    /\ paused = FALSE
    /\ records = [s \in Subjects |-> None]
    /\ denied = {}
    /\ now = 0
    /\ events = <<>>

(* Events *)

KycSet(subject, r) == [event |-> "KycSet", subject |-> subject, record |-> r]

\* Carries the record that was removed.
KycRevoked(subject, r) == [event |-> "KycRevoked", subject |-> subject, record |-> r]

\* Mutant of RevokeEvents: every record is read before any is removed.
RevokeEvents_ReadFirst(recs, subjects) ==
    [i \in {k \in DOMAIN subjects : recs[subjects[k]] # None}
       |-> KycRevoked(subjects[i], recs[subjects[i]])]

\* A revocation announces the records it finds, one by one: none where there is
\* none, nor where the subject was named before.
RevokeEvents(recs, subjects) ==
    [i \in {k \in DOMAIN subjects : /\ recs[subjects[k]] # None
                                   /\ \A j \in 1 .. k - 1 : subjects[j] # subjects[k]}
       |-> KycRevoked(subjects[i], recs[subjects[i]])]

(* Records *)

\* Mutant of SetKyc: anybody writes a record.
SetKyc_Unsigned(subject, r) ==
    /\ \E a \in Accounts : RequireAuth(a)
    /\ ~paused
    /\ ValidRecord(r)
    /\ records' = [records EXCEPT ![subject] = r]
    /\ events' = <<KycSet(subject, r)>>
    /\ UNCHANGED <<now, paused, denied, admin, pendingAdmin, proposedBy>>

SetKyc(subject, r) ==
    /\ RequireAdmin
    /\ ~paused
    /\ ValidRecord(r)
    /\ records' = [records EXCEPT ![subject] = r]
    /\ events' = <<KycSet(subject, r)>>
    /\ UNCHANGED <<now, paused, denied, admin, pendingAdmin, proposedBy>>

\* Mutant of WriteAll: the entries are written from the last to the first.
WriteAll_Backwards(recs, batch) ==
    FoldLeft(LAMBDA written, entry : [written EXCEPT ![entry.subject] = entry.record],
             recs, Reverse(batch))

\* The records after those of a batch were written in its order.
WriteAll(recs, batch) ==
    FoldLeft(LAMBDA written, entry : [written EXCEPT ![entry.subject] = entry.record],
             recs, batch)

\* A batch is written whole or not at all, and whether or not the contract is
\* paused.
SetKycBatch(batch) ==
    /\ RequireAdmin
    /\ Len(batch) <= MaxBatchSize
    /\ \A i \in DOMAIN batch : ValidRecord(batch[i].record)
    /\ records' = WriteAll(records, batch)
    /\ events' = [i \in DOMAIN batch |-> KycSet(batch[i].subject, batch[i].record)]
    /\ UNCHANGED <<now, paused, denied, admin, pendingAdmin, proposedBy>>

\* Subjects without a record are skipped.
RevokeAll(recs, subjects) == [s \in Subjects |-> IF s \in subjects THEN None ELSE recs[s]]

RevokeKyc(subject) ==
    /\ RequireAdmin
    /\ ~paused
    /\ records' = RevokeAll(records, {subject})
    /\ events' = RevokeEvents(records, <<subject>>)
    /\ UNCHANGED <<now, paused, denied, admin, pendingAdmin, proposedBy>>

RevokeKycBatch(subjects) ==
    /\ RequireAdmin
    /\ Len(subjects) <= MaxBatchSize
    /\ records' = RevokeAll(records, ToSet(subjects))
    /\ events' = RevokeEvents(records, subjects)
    /\ UNCHANGED <<now, paused, denied, admin, pendingAdmin, proposedBy>>

(* Jurisdictions and the brake *)

SetJurisdictionDenied(code, isDenied) ==
    /\ RequireAdmin
    /\ ValidJurisdictionShape(code)
    /\ denied' = IF isDenied THEN denied \cup {code} ELSE denied \ {code}
    /\ events' = <<>>
    /\ UNCHANGED <<now, paused, records, admin, pendingAdmin, proposedBy>>

SetPaused(p) ==
    /\ RequireAdmin
    /\ paused' = p
    /\ events' = <<>>
    /\ UNCHANGED <<now, records, denied, admin, pendingAdmin, proposedBy>>

(* The admin role and the environment *)

HandoverCall ==
    /\ \/ \E a \in Successors : ProposeAdmin(a)
       \/ AcceptAdmin
       \/ CancelAdminTransfer
    /\ events' = <<>>
    /\ UNCHANGED <<now, registerVars>>

\* The network closes a ledger, in a later second.
CloseLedger ==
    /\ now < MaxTime
    /\ now' = now + 1
    /\ events' = <<>>
    /\ UNCHANGED <<registerVars, handoverVars>>

-----------------------------------------------------------------------------
RecordCall ==
    \/ \E s \in Subjects, r \in RecordInputs : SetKyc(s, r)
    \/ \E b \in BatchInputs :
          \/ SetKycBatch(b)
          \/ RevokeKycBatch([i \in DOMAIN b |-> b[i].subject])
    \/ \E s \in Subjects : RevokeKyc(s)

PolicyCall ==
    \/ \E c \in JurisdictionInputs, d \in BOOLEAN : SetJurisdictionDenied(c, d)
    \/ \E p \in PauseInputs : SetPaused(p)

Next == RecordCall \/ PolicyCall \/ HandoverCall \/ CloseLedger

Spec == Init /\ [][Next]_vars

-----------------------------------------------------------------------------
(* Properties *)

Records == [jurisdiction : Codes, level : 0 .. MaxLevel, expires_at : Nat]
KycEvents == [event : {"KycSet", "KycRevoked"}, subject : Subjects, record : Records]

\* Every variable holds a value of its type; no jurisdiction is stored, in a
\* record or as denied, in a shape the other side could never match.
TypeOK ==
    /\ HandoverTypeOK
    /\ now \in 0 .. MaxTime
    /\ paused \in BOOLEAN
    /\ records \in [Subjects -> Records \cup {None}]
    /\ denied \subseteq Codes
    /\ events \in [DOMAIN events -> KycEvents]

(***************************************************************************)
(* An address becomes compliant at some level only by a call the admin     *)
(* signed: neither time, nor the pause, nor a handover of the role makes   *)
(* anybody compliant, and a record that lapsed stays lapsed until it is    *)
(* renewed.                                                                *)
(***************************************************************************)
CompliantOnlyByAdmin ==
    [][\A s \in Subjects, l \in 0 .. MaxLevel :
          ~Evaluate(s, l) /\ Evaluate(s, l)' =>
              now' = now /\ signer' = admin /\ admin' = admin]_vars

(***************************************************************************)
(* What validate_record lets in and what evaluate asks for agree to the    *)
(* second: a record counts at its level in the very ledger it is written   *)
(* in, unless its jurisdiction is denied (IR-08).                          *)
(***************************************************************************)
WrittenRecordsCount ==
    [][\A s \in Subjects, l \in 0 .. MaxLevel :
          LET r == records'[s]
          IN  r # records[s] /\ r # None /\ r.level = l /\ r.jurisdiction \notin denied =>
                  Evaluate(s, l)']_vars

(***************************************************************************)
(* Whatever record, expiry and denial say, the answers about an address    *)
(* for all minimum levels come down to one number: the highest level it    *)
(* passes, or less than any.  RwaAsset and Vault know an address by this   *)
(* standing alone.                                                         *)
(***************************************************************************)
AnswersAreAStanding ==
    \A s \in Subjects : \E standing \in -1 .. MaxLevel :
        \A l \in 0 .. MaxLevel + 1 : Evaluate(s, l) <=> standing >= l

(***************************************************************************)
(* The events published tell every decision, in order, through the single  *)
(* calls and the batches alike: a listener who holds the records and takes *)
(* each event in turn holds the new ones, also when a batch names a        *)
(* subject twice, and no record changes unannounced.  A revocation carries *)
(* the very record it ended: one that the listener holds at that point.    *)
(***************************************************************************)
TellAll(before, told, after) ==
    \A s \in Subjects :
        LET about == {i \in DOMAIN told : told[i].subject = s}
            holds(T) == IF T = {} THEN before[s]
                        ELSE IF told[Max(T)].event = "KycSet" THEN told[Max(T)].record
                        ELSE None
        IN  /\ after[s] = holds(about)
            /\ \A i \in about : told[i].event = "KycRevoked" =>
                  /\ told[i].record # None
                  /\ told[i].record = holds({j \in about : j < i})

EventsTellEveryDecision == [][TellAll(records, events', records')]_vars

(***************************************************************************)
(* "Emergency circuit breaker; blocks set_kyc/revoke_kyc and their batch   *)
(* forms" (contracts/compliance/README.md:22): no record changes while the *)
(* contract is paused.                                                     *)
(***************************************************************************)
PauseBlocksRecords == [][paused => records' = records]_vars
=============================================================================
