------------------------------ MODULE NavReporter ------------------------------
(***************************************************************************)
(* The command that publishes a signed appraisal                           *)
(* (tools/nav-reporter/src/reporter.ts: submitSignedAppraisal), run again  *)
(* and again by its operator, with the SDK's write path (Settlement) and   *)
(* the feed it reports to (OracleAdapter).  Others report to the feed      *)
(* meanwhile.                                                              *)
(*                                                                         *)
(* A run checks the signature, reads the feed as its RPC node sees it and  *)
(* refuses what the feed would, submits the report and turns the answer    *)
(* into an exit code; after an unknown outcome it reads the price back.    *)
(* One asset, whose limit and reporters stay as they are; prices are whole *)
(* numbers, the limit a difference, and a tick is a second.                *)
(***************************************************************************)
EXTENDS Settlement, FiniteSetsExt

CONSTANTS
    Appraisals,        \* what is in the files: tick, price and whether the signature holds
    Prices,            \* what others may report
    Limit              \* max_deviation_bps, as the largest difference

ExitCodes == {0} \cup 2 .. 5
Steps == {"off", "preflight", "submit", "settle", "verify"}

ASSUME ReporterInputs ==
    /\ Appraisals \subseteq [tick : Moments, price : Int, signed : BOOLEAN]
    /\ Prices \subseteq Int /\ Limit \in Nat
    /\ None \notin Prices \cup ExitCodes /\ \A a \in Appraisals : a.price # None

VARIABLES
    feed,              \* tick |-> the price recorded for it
    seenFeed,          \* the feed as the RPC node answers
    step,              \* where the run is
    appraisal, dryRun, \* what it was started with
    report,            \* tx |-> the appraisal it reports
    exit               \* exit code of the last run, None while one is going on

runVars == <<step, appraisal, dryRun, report, exit>>
vars == <<settlementVars, feed, seenFeed, runVars>>

-----------------------------------------------------------------------------
(* The feed *)

Recorded(f) == {t \in Moments : f[t] # None}
LastTick(f) == Max(Recorded(f))
Near(p, q) == p - q <= Limit /\ q - p <= Limit

\* The contract's checks of a report, at a moment (Record in OracleAdapter).
Acceptable(f, moment, tick, price) ==
    /\ price > 0 /\ tick <= moment
    /\ Recorded(f) # {} => tick > LastTick(f) /\ Near(f[LastTick(f)], price)

-----------------------------------------------------------------------------
Init ==
    /\ SettlementInit
    /\ feed = [t \in Moments |-> None]
    /\ seenFeed = feed
    /\ step = "off" /\ exit = None
    /\ appraisal \in Appraisals /\ dryRun = FALSE
    /\ report = [t \in Txs |-> appraisal]

(* A run *)

\* The operator starts a run; a signature that does not hold ends it at once.
Start(a, dry) ==
    /\ step = "off"
    /\ a.signed => built < Attempts
    /\ appraisal' = a /\ dryRun' = dry
    /\ IF a.signed THEN step' = "preflight" /\ exit' = None
                   ELSE step' = "off" /\ exit' = 2
    /\ UNCHANGED <<settlementVars, feed, seenFeed, report>>

Exit(code) == step' = "off" /\ exit' = code

\* The preflight reads; one that fails ends the run like a failed submission.  Of the
\* deviation check the code uses only the exceptions it throws, never its result.
Preflight ==
    /\ step = "preflight"
    /\ \/ TransportFails /\ Exit(4)
       \/ \E clock \in Moments :      \* the local clock
             IF appraisal.price <= 0 \/ appraisal.tick > clock THEN Exit(3)
             ELSE IF Recorded(seenFeed) # {} /\ appraisal.tick <= LastTick(seenFeed)
               THEN IF /\ appraisal.tick = LastTick(seenFeed)
                       /\ appraisal.price = seenFeed[appraisal.tick]
                      THEN Exit(0)
                      ELSE Exit(3)
             ELSE IF dryRun THEN Exit(0)
             ELSE step' = "submit" /\ exit' = None
    /\ UNCHANGED <<settlementVars, feed, seenFeed, appraisal, dryRun, report>>

\* The report is simulated as it is built, on the feed of that moment.
BuildFails ==
    /\ step = "submit" /\ phase = "idle"
    /\ \/ TransportFails
       \/ ~Acceptable(seenFeed, seen.closed, appraisal.tick, appraisal.price)
    /\ Exit(4)
    /\ UNCHANGED <<settlementVars, feed, seenFeed, appraisal, dryRun, report>>

BuildReport ==
    /\ step = "submit"
    /\ Acceptable(seenFeed, seen.closed, appraisal.tick, appraisal.price)
    /\ Build
    /\ report' = [report EXCEPT ![built'] = appraisal]
    /\ step' = "settle"
    /\ UNCHANGED <<feed, seenFeed, appraisal, dryRun, exit>>

\* What a settled report makes of the run.
CodeOf(a) == CASE a = "success" -> 0
               [] a = "unknown" -> None
               [] OTHER -> 4

\* One request of signAndSubmit; with its answer the run ends or goes on to verify.
Settle(Request) ==
    /\ step = "settle"
    /\ Request
    /\ IF answer'[built] = None THEN UNCHANGED <<step, exit>>
       ELSE IF CodeOf(answer'[built]) # None THEN Exit(CodeOf(answer'[built]))
       ELSE step' = "verify" /\ UNCHANGED exit
    /\ UNCHANGED <<feed, seenFeed, appraisal, dryRun, report>>

\* Mutant of Verify: the latest price is compared, whatever its tick.
Verify_Latest ==
    /\ step = "verify"
    /\ \/ /\ Recorded(seenFeed) # {}
          /\ Exit(IF seenFeed[LastTick(seenFeed)] = appraisal.price THEN 0 ELSE 5)
       \/ Exit(5)
    /\ UNCHANGED <<settlementVars, feed, seenFeed, appraisal, dryRun, report>>

\* The price of the tick is read back; a read that fails leaves the outcome unknown.
Verify ==
    /\ step = "verify"
    /\ \/ seenFeed[appraisal.tick] = appraisal.price /\ Exit(0)
       \/ seenFeed[appraisal.tick] # appraisal.price /\ Exit(5)
       \/ TransportFails /\ Exit(5)
    /\ UNCHANGED <<settlementVars, feed, seenFeed, appraisal, dryRun, report>>

Run == Preflight \/ BuildFails \/ BuildReport \/ Settle(Responded) \/ Verify
Interrupted == Settle(Lost)

(* The network *)

\* A ledger closes; a report it includes is recorded if the contract takes it, and
\* may fail for other reasons too.
LedgerCloses ==
    /\ \/ CloseEmpty /\ UNCHANGED feed
       \/ \E t \in Txs : CloseWith(t, "FAILED") /\ UNCHANGED feed
       \/ \E t \in Txs :
             /\ CloseWith(t, "SUCCESS")
             /\ Acceptable(feed, now', report[t].tick, report[t].price)
             /\ feed' = [feed EXCEPT ![report[t].tick] = report[t].price]
    /\ UNCHANGED <<seenFeed, runVars>>

\* A ledger closes with a report of somebody else.
OthersReport ==
    /\ CloseEmpty
    /\ \E m \in Moments, p \in Prices :
          /\ Acceptable(feed, now', m, p)
          /\ feed' = [feed EXCEPT ![m] = p]
    /\ UNCHANGED <<seenFeed, runVars>>

NodeCatchesUp ==
    /\ CatchUp
    /\ seenFeed' = feed
    /\ UNCHANGED <<feed, runVars>>

Network == LedgerCloses \/ OthersReport \/ NodeCatchesUp

Next ==
    \/ \E a \in Appraisals, dry \in BOOLEAN : Start(a, dry)
    \/ Run
    \/ Interrupted
    \/ Network

\* A run goes on, with requests that are answered; no ledger has to close, no node to
\* catch up, no request to fail and nobody to start another run.
Spec == Init /\ [][Next]_vars /\ WF_vars(Run)

-----------------------------------------------------------------------------
(* Properties *)

\* Every variable holds a value of its type.
TypeOK ==
    /\ SettlementTypeOK
    /\ feed \in [Moments -> Int \cup {None}] /\ seenFeed \in [Moments -> Int \cup {None}]
    /\ step \in Steps /\ exit \in ExitCodes \cup {None}
    /\ appraisal \in Appraisals /\ dryRun \in BOOLEAN
    /\ report \in [Txs -> Appraisals]

(***************************************************************************)
(* A run that was not a dry run ends with code 0 only if the appraised     *)
(* price stands in the feed for the appraised tick, also when the outcome  *)
(* of its transaction remained unknown, and however stale the node's       *)
(* answers were.                                                           *)
(***************************************************************************)
SuccessMeansRecorded ==
    exit = 0 /\ ~dryRun => feed[appraisal.tick] = appraisal.price

(***************************************************************************)
(* Every run ends with an exit code, although the network may never close  *)
(* another ledger: polling is bounded by the transaction's own time.       *)
(***************************************************************************)
EveryRunEnds == step # "off" ~> step = "off"

(***************************************************************************)
(* "refuses deviation exceeding limit"                                     *)
(* (tools/nav-reporter/test/nav_reporter.test.ts): no price further from   *)
(* the latest one read than the limit passes the preflight checks.         *)
(***************************************************************************)
PreflightRefusesDeviation ==
    [][step = "preflight" /\ (step' = "submit" \/ exit' = 0) /\ Recorded(seenFeed) # {}
          => Near(seenFeed[LastTick(seenFeed)], appraisal.price)]_vars
=============================================================================
