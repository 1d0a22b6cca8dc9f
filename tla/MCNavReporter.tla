----------------------------- MODULE MCNavReporter -----------------------------
(***************************************************************************)
(* Values of the constants of NavReporter for the runs.                    *)
(***************************************************************************)
EXTENDS NavReporter

\* An appraisal, one of a later tick and further from it than the limit, and a file
\* whose signature does not hold.
SomeAppraisals ==
    {[tick |-> 1, price |-> 5, signed |-> TRUE], [tick |-> 2, price |-> 8, signed |-> TRUE],
     [tick |-> 1, price |-> 5, signed |-> FALSE]}
=============================================================================
