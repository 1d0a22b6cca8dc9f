---------------------------- MODULE MCCompliance ----------------------------
(***************************************************************************)
(* Values of the constants of Compliance for the runs.                     *)
(***************************************************************************)
EXTENDS Compliance

CONSTANTS alice, bob, carol, us, fr, usa

Record(code, level, expiry) == [jurisdiction |-> code, level |-> level, expires_at |-> expiry]

\* Two records that never expire, one that does, a level off the scale and a
\* malformed code.
SomeRecords == {Record(us, 3, 0), Record(fr, 1, 0), Record(us, 2, 2),
                Record(us, 4, 0), Record(usa, 1, 0)}

\* Batches of up to two entries, and one too large.
Entry(s, r) == [subject |-> s, record |-> r]
Entries == {Entry(s, r) : s \in Subjects, r \in SomeRecords}
SomeBatches == BoundedSeq(Entries, 2)
                 \cup {[i \in 1 .. 3 |-> Entry(bob, Record(us, 3, 0))]}
=============================================================================
