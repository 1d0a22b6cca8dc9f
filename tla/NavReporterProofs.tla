-------------------------- MODULE NavReporterProofs --------------------------
(***************************************************************************)
(* A client of the SDK and the reporter's command on top of it, for any    *)
(* number of transactions, polls and moments, any appraisals, prices and   *)
(* limit, whether or not requests fail.                                    *)
(***************************************************************************)
EXTENDS NavReporter, WellFoundedInduction, TLAPS

-----------------------------------------------------------------------------
(* What the client is told of its transactions *)

\* A transaction is in the queue only once it is built and while it has not been
\* applied; the last one built is not in it before it was submitted.
QueueInv ==
    /\ \A t \in Txs : t \in queue => t <= built /\ landed[t] = None
    /\ \A t \in Txs : t > built => landed[t] = None /\ answer[t] = None
    /\ phase # "idle" => built > 0 /\ answer[built] = None
    /\ phase = "built" => built \notin queue /\ landed[built] = None
    /\ phase = "polling" => polls > 0

\* What the node has seen is true; what it has not seen was applied in a ledger later
\* than its own, within the transaction's time.
NodeInv ==
    /\ seen.closed <= now
    /\ \A t \in Txs : seen.landed[t] # None => landed[t] = seen.landed[t]
    /\ \A t \in Txs : seen.landed[t] = None /\ landed[t] # None
                      => seen.closed < tx[t].max_time

\* Why no answer is belied later: what is refused was never submitted, what has expired
\* is past its time in the network too, not in the node's eyes alone.
AnswerInv ==
    \A t \in Txs :
        /\ answer[t] = "success" => landed[t] = "SUCCESS"
        /\ answer[t] = "failed" => landed[t] = "FAILED"
        /\ answer[t] \in {"rejected", "notAccepted"} => landed[t] = None /\ t \notin queue
        /\ answer[t] = "expired" => landed[t] = None /\ now > tx[t].max_time

\* The inductive invariant of the SDK's write path.
SettlementInv == SettlementTypeOK /\ QueueInv /\ NodeInv /\ AnswerInv

\* A step of the command, as the write path sees it.
SettlementStep ==
    \/ CloseEmpty
    \/ \E t \in Txs, status \in Statuses : CloseWith(t, status)
    \/ CatchUp
    \/ Build
    \/ Responded
    \/ Lost
    \/ UNCHANGED settlementVars

LEMMA SettlementInvInit == SettlementInit => SettlementInv
BY SettlementBounds
   DEF SettlementInit, SettlementInv, SettlementTypeOK, QueueInv, NodeInv, AnswerInv, View,
       Txs, Moments, Statuses, Answers

LEMMA SettlementInvStep == SettlementInv /\ SettlementStep => SettlementInv'
<1> SUFFICES ASSUME SettlementInv, SettlementStep
             PROVE  SettlementInv'
  OBVIOUS
<1> USE SettlementBounds DEF SettlementInv
<1>1. CASE CloseEmpty
  <2> USE <1>1 DEF CloseEmpty, clientVars
  <2>1. SettlementTypeOK'
    BY DEF SettlementTypeOK
  <2>2. QueueInv'
    BY DEF QueueInv
  <2>3. now \in Nat /\ now' \in Nat /\ now < now'
    BY DEF SettlementTypeOK, Moments
  <2>4. seen.closed \in Nat /\ \A t \in Txs : tx[t].max_time \in Nat
    BY DEF SettlementTypeOK, Moments
  <2>5. NodeInv'
    BY <2>3, <2>4 DEF NodeInv
  <2>6. AnswerInv'
    BY <2>3, <2>4 DEF AnswerInv
  <2> QED
    BY <2>1, <2>2, <2>5, <2>6
<1>2. ASSUME NEW t \in Txs, NEW status \in Statuses, CloseWith(t, status)
      PROVE  SettlementInv'
  <2> USE <1>2 DEF CloseWith, clientVars
  <2>1. SettlementTypeOK'
    BY DEF SettlementTypeOK
  <2>2. now \in Nat /\ now' \in Nat /\ now < now' /\ now' <= tx[t].max_time
    BY DEF SettlementTypeOK, Moments
  <2>3. seen.closed \in Nat /\ \A u \in Txs : tx[u].max_time \in Nat
    BY DEF SettlementTypeOK, Moments
  <2>4. /\ landed[t] = None /\ t <= built /\ status # None
        /\ \A u \in Txs : landed'[u] = IF u = t THEN status ELSE landed[u]
    BY DEF SettlementTypeOK, QueueInv
  <2>5. built \in Int /\ t \in Int
    BY DEF SettlementTypeOK, Txs
  <2>6. QueueInv'
    <3>1. phase = "built" => built # t
      BY DEF QueueInv
    <3>2. \A u \in Txs : u > built => u # t
      BY <2>4, <2>5
    <3>3. phase # "idle" => built \in Txs
      BY <2>5 DEF QueueInv, SettlementTypeOK, Txs
    <3> QED
      BY <2>4, <3>1, <3>2, <3>3 DEF QueueInv
  <2>7. NodeInv'
    BY <2>2, <2>3, <2>4 DEF NodeInv
  <2>8. answer[t] \notin {"success", "failed", "rejected", "notAccepted", "expired"}
    BY <2>2, <2>3, <2>4 DEF AnswerInv, Statuses
  <2>9. AnswerInv'
    BY <2>2, <2>3, <2>4, <2>8 DEF AnswerInv
  <2> QED
    BY <2>1, <2>6, <2>7, <2>9
<1>3. CASE CatchUp
  <2> USE <1>3 DEF CatchUp, networkVars, clientVars, View
  <2>1. SettlementTypeOK'
    BY DEF SettlementTypeOK
  <2>2. QueueInv'
    BY DEF QueueInv
  <2>3. NodeInv'
    BY DEF NodeInv, SettlementTypeOK, Moments
  <2>4. AnswerInv'
    BY DEF AnswerInv
  <2> QED
    BY <2>1, <2>2, <2>3, <2>4
<1>4. CASE Build
  <2> USE <1>4 DEF Build, networkVars
  <2>1. built \in Nat /\ built' = built + 1 /\ built' \in Txs
    BY DEF SettlementTypeOK, Txs
  <2>2. /\ \A t \in Txs : t <= built => tx'[t] = tx[t] /\ t # built'
        /\ landed[built'] = None /\ answer[built'] = None /\ built' \notin queue
    BY <2>1 DEF SettlementTypeOK, QueueInv, Txs
  <2>3. SettlementTypeOK'
    BY <2>1 DEF SettlementTypeOK
  <2>4. QueueInv'
    BY <2>1, <2>2 DEF QueueInv, Txs
  <2>5. \A t \in Txs : landed[t] # None \/ answer[t] # None => tx'[t] = tx[t]
    BY <2>1, <2>2 DEF QueueInv, Txs
  <2>6. NodeInv'
    BY <2>5 DEF NodeInv
  <2>7. AnswerInv'
    BY <2>5 DEF AnswerInv, Answers
  <2> QED
    BY <2>3, <2>4, <2>6, <2>7
<1>5. ASSUME phase # "idle",
             NEW a \in Answers, Answered(a), UNCHANGED <<built, tx, now, sequence, landed, seen>>,
             polls' \in 0 .. MaxPolls, queue' \in {queue, queue \cup {built}},
             queue' # queue => phase = "built" /\ a = "transport",
             a = "success" => landed[built] = "SUCCESS",
             a = "failed" => landed[built] = "FAILED",
             a \in {"rejected", "notAccepted"} => landed[built] = None /\ built \notin queue,
             a = "expired" => landed[built] = None /\ now > tx[built].max_time
      PROVE  SettlementInv'
  <2> USE <1>5 DEF Answered
  <2>1. built \in Txs /\ built \in Nat
    BY DEF SettlementTypeOK, QueueInv, Txs
  <2>2. \A t \in Txs : answer'[t] = IF t = built THEN a ELSE answer[t]
    BY <2>1 DEF SettlementTypeOK
  <2>3. SettlementTypeOK'
    BY <2>1 DEF SettlementTypeOK
  <2>4. QueueInv'
    BY <2>1, <2>2 DEF QueueInv, Txs
  <2>5. NodeInv'
    BY DEF NodeInv
  <2>6. AnswerInv'
    BY <2>1, <2>2 DEF AnswerInv
  <2> QED
    BY <2>3, <2>4, <2>5, <2>6
<1>6. phase # "idle" => built \in Txs
  BY DEF SettlementTypeOK, QueueInv, Txs
<1>7. CASE SubmitDeclined
  <2>1. built \notin queue /\ landed[built] = None
    BY <1>7 DEF SubmitDeclined, QueueInv
  <2>2. PICK a \in {"rejected", "notAccepted"} : Answered(a)
    BY <1>7 DEF SubmitDeclined
  <2> QED
    BY <1>5, <1>7, <2>1, <2>2 DEF SubmitDeclined, networkVars, Answers, SettlementTypeOK
<1>8. CASE SubmitTaken
  <2> USE <1>8 DEF SubmitTaken
  <2>1. built \in Txs /\ landed[built] = None /\ answer[built] = None
    BY <1>6 DEF QueueInv
  <2>2. SettlementTypeOK'
    BY <2>1 DEF SettlementTypeOK
  <2>3. QueueInv'
    BY <2>1 DEF QueueInv, SettlementTypeOK, Txs
  <2>4. NodeInv'
    BY DEF NodeInv
  <2>5. AnswerInv'
    BY <2>1 DEF AnswerInv, Answers
  <2> QED
    BY <2>2, <2>3, <2>4, <2>5
<1>9. CASE PollFound
  <2>1. landed[built] = seen.landed[built] /\ landed[built] \in Statuses
    BY <1>6, <1>9 DEF PollFound, NodeInv, SettlementTypeOK
  <2> QED
    BY <1>5, <1>9, <2>1 DEF PollFound, networkVars, Answers, Statuses, SettlementTypeOK
<1>10. CASE PollNotFound
  <2> USE <1>10 DEF PollNotFound, networkVars
  <2>1. built \in Txs /\ polls \in 1 .. MaxPolls
    BY <1>6 DEF QueueInv, SettlementTypeOK
  <2>2. "expired" # None /\ "unknown" # None
    BY DEF Answers
  <2>3. CASE LastAnswer = None
    <3>1. polls > 1
      BY <2>2, <2>3 DEF LastAnswer
    <3>2. SettlementTypeOK'
      BY <2>1, <2>3 DEF SettlementTypeOK
    <3>3. QueueInv'
      BY <2>1, <2>3, <3>1 DEF QueueInv
    <3>4. NodeInv'
      BY DEF NodeInv
    <3>5. AnswerInv'
      BY <2>3 DEF AnswerInv
    <3> QED
      BY <3>2, <3>3, <3>4, <3>5
  <2>4. CASE LastAnswer # None
    <3>1. LastAnswer \in {"expired", "unknown"}
      BY <2>4 DEF LastAnswer
    <3>2. LastAnswer = "expired" => seen.closed > tx[built].max_time
      BY <2>2 DEF LastAnswer
    <3>3. seen.closed \in Nat /\ now \in Nat /\ tx[built].max_time \in Nat
      BY <2>1 DEF SettlementTypeOK, Moments
    <3>4. LastAnswer = "expired" => landed[built] = None /\ now > tx[built].max_time
      BY <2>1, <3>2, <3>3 DEF NodeInv
    <3>5. Answered(LastAnswer) /\ polls' \in 0 .. MaxPolls
      BY <2>1, <2>4
    <3> QED
      BY <1>5, <3>1, <3>4, <3>5 DEF Answers
  <2> QED
    BY <2>3, <2>4
<1>11. CASE Lost
  BY <1>5, <1>11 DEF Lost, SubmitLost, PollLost, networkVars, Answers, SettlementTypeOK
<1>12. CASE UNCHANGED settlementVars
  BY <1>12 DEF settlementVars, networkVars, clientVars, SettlementTypeOK, QueueInv, NodeInv,
               AnswerInv
<1> QED
  BY <1>1, <1>2, <1>3, <1>4, <1>7, <1>8, <1>9, <1>10, <1>11, <1>12
     DEF SettlementStep, Responded

-----------------------------------------------------------------------------
(* The feed *)

LEMMA LeastNat ==
    ASSUME NEW T, T \subseteq Nat, T # {}
    PROVE  \E m \in T : \A k \in T : m <= k
<1> DEFINE R == OpToRel(<, Nat)
<1>1. IsWellFoundedOn(R, Nat)
  BY NatLessThanWellFounded
<1>2. \A x, y \in Nat : <<y, x>> \in R <=> y < x
  BY DEF OpToRel
<1> HIDE DEF R
<1>3. PICK m \in T : \A y \in T : <<y, m>> \notin R
  BY <1>1, WFMin
<1>4. \A k \in T : ~(k < m)
  BY <1>2, <1>3
<1> QED
  BY <1>4

\* No recorded tick is later than the latest.
LEMMA LastTickIsLast ==
    ASSUME NEW f, NEW t \in Recorded(f)
    PROVE  LastTick(f) \in Recorded(f) /\ t <= LastTick(f)
<1> DEFINE Gaps == {g \in Nat : MaxTime - g \in Recorded(f)}
<1>1. Recorded(f) \subseteq 0 .. MaxTime /\ MaxTime \in Nat
  BY SettlementBounds DEF Recorded, Moments
<1>2. MaxTime - t \in Gaps
  BY <1>1
<1>3. PICK g \in Gaps : \A k \in Gaps : g <= k
  <2> HIDE DEF Gaps
  <2> QED
    BY <1>2, LeastNat DEF Gaps
<1>4. \A m \in Recorded(f) : m \in Nat /\ MaxTime - m \in Gaps
  BY <1>1
<1>5. MaxTime - g \in Recorded(f) /\ \A m \in Recorded(f) : MaxTime - g >= m
  BY <1>1, <1>3, <1>4
<1>6. \E m \in Recorded(f) : \A k \in Recorded(f) : m >= k
  BY <1>5
<1>7. LastTick(f) \in Recorded(f) /\ \A m \in Recorded(f) : LastTick(f) >= m
  BY <1>6 DEF LastTick, Max
<1> QED
  BY <1>1, <1>7

\* The contract takes a report only for a tick that has no price yet.
LEMMA AcceptedIsNew ==
    ASSUME NEW f, NEW moment, NEW tick \in Moments, NEW price,
           Acceptable(f, moment, tick, price)
    PROVE  f[tick] = None
<1> SUFFICES ASSUME tick \in Recorded(f)
             PROVE  FALSE
  BY DEF Recorded
<1>1. tick > LastTick(f)
  BY DEF Acceptable
<1>2. tick <= LastTick(f) /\ LastTick(f) \in Moments
  BY LastTickIsLast DEF Recorded
<1>3. tick \in Int /\ LastTick(f) \in Int
  BY <1>2 DEF Moments
<1> QED
  BY <1>1, <1>2, <1>3

\* Prices that are recorded stay, a report that was applied successfully is in the feed,
\* and the node has seen nothing that is not.
FeedInv ==
    /\ \A m \in Moments : seenFeed[m] # None => feed[m] = seenFeed[m]
    /\ \A t \in Txs : landed[t] = "SUCCESS" => feed[report[t].tick] = report[t].price
    /\ step = "settle" => phase # "idle" /\ report[built] = appraisal
    /\ step \in {"preflight", "submit"} => exit = None

\* The inductive invariant of the command.
ReporterInv == TypeOK /\ SettlementInv /\ FeedInv /\ SuccessMeansRecorded

FeedGrows == \A m \in Moments : feed[m] # None => feed'[m] = feed[m]

LEMMA Submitted == SettlementInv /\ phase # "idle" => built \in Txs
BY SettlementBounds DEF SettlementInv, SettlementTypeOK, QueueInv, Txs

LEMMA StepSettles == [Next]_vars => SettlementStep
<1> SUFFICES ASSUME [Next]_vars
             PROVE  SettlementStep
  OBVIOUS
<1>1. CASE LedgerCloses
  <2>1. "FAILED" \in Statuses /\ "SUCCESS" \in Statuses
    BY DEF Statuses
  <2> QED
    BY <1>1, <2>1 DEF LedgerCloses, SettlementStep
<1>2. CASE Run
  <2>1. CASE Settle(Responded)
    BY <2>1 DEF Settle, SettlementStep
  <2>2. CASE Preflight \/ BuildFails \/ BuildReport \/ Verify
    BY <2>2 DEF Preflight, BuildFails, BuildReport, Verify, SettlementStep
  <2> QED
    BY <1>2, <2>1, <2>2 DEF Run
<1>3. CASE Interrupted
  BY <1>3 DEF Interrupted, Settle, SettlementStep
<1>4. CASE OthersReport \/ NodeCatchesUp
  BY <1>4 DEF OthersReport, NodeCatchesUp, SettlementStep
<1>5. CASE (\E a \in Appraisals, dry \in BOOLEAN : Start(a, dry)) \/ UNCHANGED vars
  BY <1>5 DEF Start, vars, SettlementStep
<1> QED
  BY <1>1, <1>2, <1>3, <1>4, <1>5 DEF Next, Network

LEMMA ReporterInvInit == Init => ReporterInv
<1> SUFFICES ASSUME Init
             PROVE  ReporterInv
  OBVIOUS
<1>1. SettlementInv
  BY SettlementInvInit DEF Init
<1>2. exit # 0
  BY ReporterInputs DEF Init, ExitCodes
<1>3. \A t \in Txs : landed[t] # "SUCCESS"
  BY SettlementBounds DEF Init, SettlementInit, Statuses
<1> QED
  BY <1>1, <1>2, <1>3
     DEF Init, ReporterInv, TypeOK, FeedInv, SuccessMeansRecorded, SettlementInv, Steps

\* A step of the network leaves the run alone and only adds to the feed.
LEMMA NetworkStep ==
    ASSUME ReporterInv, Network
    PROVE  ReporterInv'
<1>1. SettlementInv'
  <2>1. [Next]_vars
    BY DEF Next
  <2> QED
    BY <2>1, StepSettles, SettlementInvStep DEF ReporterInv
<1>2. UNCHANGED runVars /\ UNCHANGED clientVars
  BY DEF Network, LedgerCloses, OthersReport, NodeCatchesUp, CloseEmpty, CloseWith, CatchUp
<1>3. \A t \in Txs : report[t] \in Appraisals /\ report[t].tick \in Moments
                     /\ report[t].price \in Int /\ report[t].price # None
  BY ReporterInputs DEF ReporterInv, TypeOK
<1>4. appraisal.tick \in Moments /\ appraisal.price # None
  BY ReporterInputs DEF ReporterInv, TypeOK
<1>5. /\ FeedGrows /\ feed' \in [Moments -> Int \cup {None}]
      /\ \A t \in Txs : landed'[t] = "SUCCESS" =>
            landed[t] = "SUCCESS" \/ feed'[report[t].tick] = report[t].price
      /\ seenFeed' = seenFeed \/ (seenFeed' = feed /\ feed' = feed)
  <2> USE DEF ReporterInv, TypeOK
  <2>1. CASE CloseEmpty /\ UNCHANGED <<feed, seenFeed>>
    BY <2>1 DEF CloseEmpty, FeedGrows
  <2>2. ASSUME NEW t \in Txs, CloseWith(t, "FAILED"), UNCHANGED <<feed, seenFeed>>
        PROVE  <1>5!:
    BY <2>2 DEF CloseWith, FeedGrows, SettlementTypeOK
  <2>3. ASSUME NEW t \in Txs, CloseWith(t, "SUCCESS"),
               Acceptable(feed, now', report[t].tick, report[t].price),
               feed' = [feed EXCEPT ![report[t].tick] = report[t].price],
               UNCHANGED seenFeed
        PROVE  <1>5!:
    <3>1. feed[report[t].tick] = None
      BY <1>3, <2>3, AcceptedIsNew
    <3>2. FeedGrows /\ feed' \in [Moments -> Int \cup {None}]
      BY <1>3, <2>3, <3>1 DEF FeedGrows
    <3>3. feed'[report[t].tick] = report[t].price
      BY <1>3, <2>3
    <3>4. \A u \in Txs : u # t => landed'[u] = landed[u]
      BY <2>3 DEF CloseWith, SettlementTypeOK
    <3> QED
      BY <2>3, <3>2, <3>3, <3>4
  <2>4. ASSUME NEW m \in Moments, NEW p \in Prices, CloseEmpty,
               Acceptable(feed, now', m, p), feed' = [feed EXCEPT ![m] = p],
               UNCHANGED seenFeed
        PROVE  <1>5!:
    <3>1. feed[m] = None
      BY <2>4, AcceptedIsNew
    <3>2. p \in Int
      BY ReporterInputs
    <3> QED
      BY <2>4, <3>1, <3>2 DEF CloseEmpty, FeedGrows
  <2>5. CASE NodeCatchesUp
    BY <2>5 DEF NodeCatchesUp, CatchUp, networkVars, FeedGrows
  <2> QED
    BY <2>1, <2>2, <2>3, <2>4, <2>5 DEF Network, LedgerCloses, OthersReport
<1>6. TypeOK'
  BY <1>1, <1>2, <1>5 DEF ReporterInv, TypeOK, SettlementInv, runVars
<1>7. FeedInv'
  BY <1>2, <1>3, <1>5 DEF FeedGrows, FeedInv, ReporterInv, runVars, clientVars
<1>8. SuccessMeansRecorded'
  BY <1>2, <1>4, <1>5 DEF FeedGrows, SuccessMeansRecorded, ReporterInv, runVars
<1> QED
  BY <1>1, <1>6, <1>7, <1>8 DEF ReporterInv

\* A step of the run leaves the network's books alone; it ends with code 0 only on a
\* price the node has seen or on a report that was applied.
LEMMA RunStep ==
    ASSUME ReporterInv, Run \/ Interrupted
    PROVE  ReporterInv'
<1> USE DEF ReporterInv, TypeOK
<1>1. SettlementInv'
  <2>1. [Next]_vars
    BY DEF Next
  <2> QED
    BY <2>1, StepSettles, SettlementInvStep
<1>2. appraisal.tick \in Moments /\ appraisal.price # None /\ 0 # None /\ 4 # None
  BY ReporterInputs DEF ExitCodes
<1>3. /\ UNCHANGED <<feed, seenFeed, appraisal, dryRun, landed>>
      /\ \A t \in Txs : landed[t] # None => report'[t] = report[t]
      /\ report' \in [Txs -> Appraisals]
      /\ step' = "settle" => phase' # "idle" /\ report'[built'] = appraisal'
      /\ step' \in {"preflight", "submit"} => exit' = None
      /\ step' \in Steps /\ exit' \in ExitCodes \cup {None}
      /\ exit' = 0 /\ ~dryRun => exit = 0 \/ feed[appraisal.tick] = appraisal.price
  <2> USE DEF Exit, ExitCodes, Steps
  <2>1. CASE Preflight
    <3> USE <2>1 DEF Preflight, settlementVars, networkVars, clientVars
    <3>1. exit' = 0 /\ ~dryRun => seenFeed[appraisal.tick] = appraisal.price
      BY <1>2
    <3> QED
      BY <1>2, <3>1 DEF FeedInv
  <2>2. CASE BuildFails
    BY <2>2 DEF BuildFails, settlementVars, networkVars, clientVars
  <2>3. CASE BuildReport
    <3> USE <2>3 DEF BuildReport, Build, networkVars
    <3>1. built' \in Txs /\ landed[built'] = None
      BY SettlementBounds DEF SettlementInv, SettlementTypeOK, QueueInv, Txs
    <3> QED
      BY <3>1 DEF FeedInv
  <2>4. ASSUME Settle(Responded) \/ Settle(Lost)
        PROVE  <1>3!:
    <3>1. /\ step = "settle" /\ (Responded \/ Lost)
          /\ UNCHANGED <<feed, seenFeed, appraisal, dryRun, report>>
          /\ IF answer'[built] = None THEN UNCHANGED <<step, exit>>
             ELSE IF CodeOf(answer'[built]) # None THEN Exit(CodeOf(answer'[built]))
             ELSE step' = "verify" /\ UNCHANGED exit
      BY <2>4 DEF Settle
    <3>2. UNCHANGED <<landed, built>>
      BY <3>1 DEF Responded, Lost, SubmitDeclined, SubmitTaken, SubmitLost, PollFound,
                  PollNotFound, PollLost, networkVars
    <3>3. phase # "idle" /\ built \in Txs /\ report[built] = appraisal
      BY <3>1, Submitted DEF FeedInv
    <3>4. answer'[built] = "success" => landed[built] = "SUCCESS"
      BY <1>1, <3>2, <3>3 DEF SettlementInv, AnswerInv
    <3>5. answer'[built] = None => phase' # "idle"
      <4>1. "rejected" # None /\ "notAccepted" # None /\ "transport" # None
            /\ "success" # None /\ "failed" # None
        BY SettlementBounds DEF Answers
      <4>2. answer \in [Txs -> Answers \cup {None}]
        BY DEF SettlementInv, SettlementTypeOK
      <4> QED
        BY <3>1, <3>3, <4>1, <4>2
           DEF Responded, Lost, SubmitDeclined, SubmitTaken, SubmitLost, PollFound,
               PollNotFound, PollLost, Answered
    <3>6. CodeOf(answer'[built]) \in {0, 4, None}
          /\ (CodeOf(answer'[built]) = 0 => answer'[built] = "success")
      BY <1>2 DEF CodeOf
    <3>7. CASE answer'[built] = None
      BY <3>1, <3>2, <3>3, <3>5, <3>7 DEF FeedInv
    <3>8. CASE answer'[built] # None
      BY <1>2, <3>1, <3>2, <3>3, <3>4, <3>6, <3>8 DEF FeedInv
    <3> QED
      BY <3>7, <3>8
  <2>5. CASE Verify
    <3> USE <2>5 DEF Verify, settlementVars, networkVars, clientVars
    <3>1. exit' = 0 => seenFeed[appraisal.tick] = appraisal.price
      OBVIOUS
    <3> QED
      BY <1>2, <3>1 DEF FeedInv
  <2> QED
    BY <2>1, <2>2, <2>3, <2>4, <2>5 DEF Run, Interrupted
<1>4. TypeOK'
  BY <1>1, <1>3 DEF SettlementInv
<1>5. "SUCCESS" # None
  BY SettlementBounds DEF Statuses
<1>6. FeedInv'
  BY <1>3, <1>5 DEF FeedInv
<1>7. SuccessMeansRecorded'
  BY <1>3 DEF SuccessMeansRecorded
<1> QED
  BY <1>1, <1>4, <1>6, <1>7

LEMMA ReporterInvStep == ReporterInv /\ [Next]_vars => ReporterInv'
<1> SUFFICES ASSUME ReporterInv, [Next]_vars
             PROVE  ReporterInv'
  OBVIOUS
<1>1. SettlementInv'
  BY StepSettles, SettlementInvStep DEF ReporterInv
<1>2. ASSUME NEW a \in Appraisals, NEW dry \in BOOLEAN, Start(a, dry)
      PROVE  ReporterInv'
  <2> USE <1>2 DEF Start
  <2>1. exit' # 0 /\ exit' \in ExitCodes \cup {None} /\ step' \in {"off", "preflight"}
        /\ (step' = "preflight" => exit' = None)
    BY ReporterInputs DEF ExitCodes
  <2> QED
    BY <1>1, <2>1
       DEF ReporterInv, TypeOK, FeedInv, SuccessMeansRecorded, Steps, SettlementInv,
           settlementVars, networkVars, clientVars
<1>3. CASE UNCHANGED vars
  BY <1>1, <1>3
     DEF ReporterInv, TypeOK, FeedInv, SuccessMeansRecorded, SettlementInv,
         vars, settlementVars, networkVars, clientVars, runVars
<1> QED
  BY <1>2, <1>3, RunStep, NetworkStep DEF Next

(***************************************************************************)
(* Every variable of the command, of the SDK's write path and of the       *)
(* network keeps its type; in particular polling has a poll left           *)
(* (tools/nav-reporter/src/reporter.ts, sdk/src/base.ts).                  *)
(***************************************************************************)
THEOREM ReporterTypes == Spec => []TypeOK
<1>1. ReporterInv => TypeOK
  BY DEF ReporterInv
<1> QED
  BY <1>1, ReporterInvInit, ReporterInvStep, PTL DEF Spec

(***************************************************************************)
(* What signAndSubmit and awaitSettlement tell their caller is true and    *)
(* stays true, however far the node lags and whatever is lost: after       *)
(* "expired", "rejected" or "notAccepted" the transaction never lands      *)
(* (sdk/src/base.ts, sdk/src/errors.ts).                                   *)
(***************************************************************************)
THEOREM ReporterIsToldTheTruth == Spec => []AnswersAreTrue
<1>1. ReporterInv => AnswersAreTrue
  BY DEF ReporterInv, SettlementInv, AnswerInv, AnswersAreTrue
<1> QED
  BY <1>1, ReporterInvInit, ReporterInvStep, PTL DEF Spec

(***************************************************************************)
(* A run of submitSignedAppraisal that ends with code 0 and was not a dry  *)
(* run leaves the appraised price in the feed for its tick, for good.      *)
(***************************************************************************)
THEOREM ReporterSucceedsOnlyIfRecorded == Spec => []SuccessMeansRecorded
<1>1. ReporterInv => SuccessMeansRecorded
  BY DEF ReporterInv
<1> QED
  BY <1>1, ReporterInvInit, ReporterInvStep, PTL DEF Spec

-----------------------------------------------------------------------------
(* What stays *)

\* What was applied, answered or recorded once.
Kept ==
    /\ FeedGrows
    /\ \A t \in Txs : landed[t] # None => landed'[t] = landed[t]
    /\ \A t \in Txs : answer[t] # None => answer'[t] = answer[t]

\* The client answers about the transaction it built last, and only once.
LEMMA AnswersOnce ==
    ASSUME SettlementInv, Responded \/ Lost
    PROVE  /\ \A t \in Txs : answer[t] # None => answer'[t] = answer[t]
           /\ UNCHANGED landed
<1>1. /\ UNCHANGED landed
      /\ UNCHANGED answer \/ \E a : Answered(a)
      /\ phase # "idle"
  BY DEF Responded, Lost, SubmitDeclined, SubmitTaken, SubmitLost, PollFound, PollNotFound,
         PollLost, networkVars
<1>2. answer[built] = None /\ answer \in [Txs -> Answers \cup {None}]
  BY <1>1 DEF SettlementInv, SettlementTypeOK, QueueInv
<1> QED
  BY <1>1, <1>2 DEF Answered

LEMMA StepKeeps ==
    ASSUME ReporterInv, [Next]_vars
    PROVE  Kept
<1> USE DEF ReporterInv, TypeOK
<1>1. \A t \in Txs : report[t].tick \in Moments
  BY ReporterInputs
<1>2. ASSUME NEW t \in Txs, NEW status, CloseWith(t, status)
      PROVE  /\ \A u \in Txs : landed[u] # None => landed'[u] = landed[u]
             /\ UNCHANGED answer
  <2>1. landed[t] = None
    BY <1>2 DEF CloseWith, SettlementInv, QueueInv
  <2> QED
    BY <1>2, <2>1 DEF CloseWith, clientVars, SettlementTypeOK
<1>3. ASSUME NEW m \in Moments, NEW p, NEW moment, Acceptable(feed, moment, m, p),
             feed' = [feed EXCEPT ![m] = p]
      PROVE  FeedGrows
  <2>1. feed[m] = None
    BY <1>3, AcceptedIsNew
  <2> QED
    BY <1>3, <2>1 DEF FeedGrows
<1>4. CASE UNCHANGED <<feed, landed, answer>>
  BY <1>4 DEF Kept, FeedGrows
<1>5. CASE LedgerCloses
  <2>1. CASE CloseEmpty /\ UNCHANGED feed
    BY <1>4, <2>1 DEF CloseEmpty, clientVars
  <2>2. ASSUME NEW t \in Txs, CloseWith(t, "FAILED"), UNCHANGED feed
        PROVE  Kept
    BY <1>2, <2>2 DEF Kept, FeedGrows
  <2>3. ASSUME NEW t \in Txs, CloseWith(t, "SUCCESS"),
               Acceptable(feed, now', report[t].tick, report[t].price),
               feed' = [feed EXCEPT ![report[t].tick] = report[t].price]
        PROVE  Kept
    BY <1>1, <1>2, <1>3, <2>3 DEF Kept
  <2> QED
    BY <1>5, <2>1, <2>2, <2>3 DEF LedgerCloses
<1>6. CASE OthersReport
  <2>1. UNCHANGED <<landed, answer>>
    BY <1>6 DEF OthersReport, CloseEmpty, clientVars
  <2>2. FeedGrows
    BY <1>3, <1>6 DEF OthersReport
  <2> QED
    BY <2>1, <2>2 DEF Kept
<1>7. CASE NodeCatchesUp
  BY <1>4, <1>7 DEF NodeCatchesUp, CatchUp, networkVars, clientVars
<1>8. CASE Settle(Responded) \/ Settle(Lost)
  <2>1. UNCHANGED feed /\ (Responded \/ Lost)
    BY <1>8 DEF Settle
  <2> QED
    BY <2>1, AnswersOnce DEF Kept, FeedGrows
<1>9. CASE Preflight \/ BuildFails \/ BuildReport \/ Verify
  BY <1>4, <1>9 DEF Preflight, BuildFails, BuildReport, Build, Verify, settlementVars,
                    networkVars, clientVars
<1>10. CASE (\E a \in Appraisals, dry \in BOOLEAN : Start(a, dry)) \/ UNCHANGED vars
  BY <1>4, <1>10 DEF Start, vars, settlementVars, networkVars, clientVars
<1> QED
  BY <1>5, <1>6, <1>7, <1>8, <1>9, <1>10 DEF Next, Run, Interrupted, Network

(***************************************************************************)
(* What was applied, what the client was told and what the feed records    *)
(* never change afterwards.  So the answers of ReporterIsToldTheTruth      *)
(* stay true, and a price reported successfully stays in the feed whoever  *)
(* reports, retries or is interrupted later.                               *)
(***************************************************************************)
THEOREM ReporterKeepsWhatHappened == Spec => [][Kept]_vars
<1>1. ReporterInv /\ [Next]_vars => [Kept]_vars
  BY StepKeeps
<1> QED
  BY <1>1, ReporterInvInit, ReporterInvStep, PTL DEF Spec

-----------------------------------------------------------------------------
(* How long a run can take *)

\* How many more steps a run can take at most: each poll is one, and an unknown outcome
\* is read back.
StepsLeft ==
    CASE step = "preflight" -> 4 + MaxPolls
      [] step = "submit"    -> 3 + MaxPolls
      [] step = "settle"    -> IF phase = "polling" THEN 1 + polls ELSE 2 + MaxPolls
      [] step = "verify"    -> 1
      [] step = "off"       -> 0

\* A transaction is under way exactly while the run waits for it, and a run that has yet
\* to build one can.
RunPhase ==
    /\ step = "settle" <=> phase # "idle"
    /\ step \in {"preflight", "submit"} => built < Attempts

LEMMA RunPhaseInit == Init => RunPhase
BY DEF Init, SettlementInit, RunPhase

LEMMA StepsLeftIsANumber ==
    ASSUME ReporterInv, RunPhase
    PROVE  /\ StepsLeft \in Nat
           /\ StepsLeft > 0 <=> step # "off"
           /\ step = "settle" => StepsLeft > 1
<1>1. /\ polls \in Nat /\ MaxPolls \in Nat /\ step \in Steps
      /\ phase = "polling" => polls > 0
  BY SettlementBounds DEF ReporterInv, TypeOK, SettlementTypeOK, SettlementInv, QueueInv
<1> QED
  BY <1>1 DEF StepsLeft, Steps

\* A request of signAndSubmit without a final answer leaves the client polling, with a
\* poll less if it was polling before.
LEMMA UnansweredPolls ==
    ASSUME ReporterInv, Responded \/ Lost, answer'[built] = None
    PROVE  /\ phase' = "polling" /\ polls' \in 1 .. MaxPolls
           /\ phase = "polling" => polls' < polls
<1> USE DEF ReporterInv
<1>1. /\ answer \in [Txs -> Answers \cup {None}] /\ polls \in 0 .. MaxPolls /\ polls \in Nat
      /\ MaxPolls \in Nat
  BY SettlementBounds DEF SettlementInv, SettlementTypeOK
<1>2. phase # "idle" /\ built \in Txs
  <2>1. phase # "idle"
    BY DEF Responded, Lost, SubmitDeclined, SubmitTaken, SubmitLost, PollFound, PollNotFound,
           PollLost
  <2> QED
    BY <2>1, Submitted
<1>3. \A a \in Answers : ~Answered(a)
  BY <1>1, <1>2, SettlementBounds DEF Answered
<1>4. SubmitTaken \/ PollNotFound
  BY <1>3 DEF Responded, Lost, SubmitDeclined, SubmitLost, PollFound, PollLost, Answers
<1>5. CASE SubmitTaken
  BY <1>5 DEF SubmitTaken
<1>6. CASE PollNotFound
  <2>1. LastAnswer = None
    BY <1>3, <1>6 DEF PollNotFound, LastAnswer, Answers
  <2>2. polls > 1
    BY <2>1, SettlementBounds DEF LastAnswer, Answers
  <2> QED
    BY <1>1, <1>6, <2>1, <2>2 DEF PollNotFound
<1> QED
  BY <1>4, <1>5, <1>6

\* With the final answer no transaction is under way any more.
LEMMA AnsweredIsIdle ==
    ASSUME ReporterInv, Responded \/ Lost, answer'[built] # None
    PROVE  phase' = "idle"
<1> USE DEF ReporterInv
<1>1. phase # "idle" => answer[built] = None
  BY DEF SettlementInv, QueueInv
<1> QED
  BY <1>1
     DEF Responded, Lost, SubmitDeclined, SubmitTaken, SubmitLost, PollFound, PollNotFound,
         PollLost, Answered

LEMMA SettleMovesOn ==
    ASSUME ReporterInv, RunPhase, Settle(Responded) \/ Settle(Lost)
    PROVE  StepsLeft' < StepsLeft /\ RunPhase' /\ built' = built
<1>1. /\ step = "settle" /\ (Responded \/ Lost)
      /\ IF answer'[built] = None THEN UNCHANGED <<step, exit>>
         ELSE IF CodeOf(answer'[built]) # None THEN Exit(CodeOf(answer'[built]))
         ELSE step' = "verify" /\ UNCHANGED exit
  BY DEF Settle
<1>2. UNCHANGED built
  BY <1>1 DEF Responded, Lost, SubmitDeclined, SubmitTaken, SubmitLost, PollFound,
              PollNotFound, PollLost
<1>3. /\ StepsLeft > 1 /\ StepsLeft \in Nat /\ polls \in Nat /\ MaxPolls \in Nat
  BY <1>1, StepsLeftIsANumber, SettlementBounds DEF ReporterInv, SettlementInv, SettlementTypeOK
<1>4. CASE answer'[built] = None
  <2>1. /\ phase' = "polling" /\ polls' \in 1 .. MaxPolls
        /\ phase = "polling" => polls' < polls
    BY <1>1, <1>4, UnansweredPolls
  <2>2. step' = "settle"
    BY <1>1, <1>4
  <2>3. RunPhase'
    BY <2>1, <2>2 DEF RunPhase
  <2>4. polls' \in Nat /\ polls' <= MaxPolls
    BY <1>3, <2>1
  <2>5. CASE phase = "polling"
    BY <1>1, <1>2, <1>3, <2>1, <2>2, <2>3, <2>4, <2>5 DEF StepsLeft
  <2>6. CASE phase # "polling"
    BY <1>1, <1>2, <1>3, <2>1, <2>2, <2>3, <2>4, <2>6 DEF StepsLeft
  <2> QED
    BY <2>5, <2>6
<1>5. CASE answer'[built] # None
  <2>1. step' \in {"off", "verify"}
    BY <1>1, <1>5 DEF Exit
  <2>2. phase' = "idle"
    BY <1>1, <1>5, AnsweredIsIdle
  <2>3. StepsLeft' \in {0, 1}
    BY <2>1 DEF StepsLeft
  <2> QED
    BY <1>2, <1>3, <2>1, <2>2, <2>3 DEF RunPhase
<1> QED
  BY <1>4, <1>5

LEMMA RunMovesOn ==
    ASSUME ReporterInv, RunPhase, Run \/ Interrupted
    PROVE  StepsLeft' < StepsLeft /\ RunPhase' /\ built' \in {built, built + 1}
<1>1. MaxPolls \in Nat /\ built \in Nat
  BY SettlementBounds DEF ReporterInv, SettlementInv, SettlementTypeOK
<1>2. CASE Preflight
  <2>1. step = "preflight" /\ step' \in {"off", "submit"} /\ UNCHANGED settlementVars
    BY <1>2 DEF Preflight, Exit
  <2>2. phase = "idle" /\ built < Attempts /\ phase' = phase /\ built' = built
    BY <2>1 DEF RunPhase, settlementVars, clientVars
  <2> QED
    BY <1>1, <2>1, <2>2 DEF RunPhase, StepsLeft
<1>3. CASE BuildFails
  <2>1. step = "submit" /\ step' = "off" /\ phase = "idle" /\ UNCHANGED <<phase, built>>
    BY <1>3 DEF BuildFails, Exit, settlementVars, clientVars
  <2> QED
    BY <1>1, <2>1 DEF RunPhase, StepsLeft
<1>4. CASE BuildReport
  <2>1. step = "submit" /\ step' = "settle" /\ phase' = "built" /\ built' = built + 1
    BY <1>4 DEF BuildReport, Build
  <2> QED
    BY <1>1, <2>1 DEF RunPhase, StepsLeft
<1>5. CASE Settle(Responded) \/ Settle(Lost)
  BY <1>5, SettleMovesOn
<1>6. CASE Verify
  <2>1. step = "verify" /\ step' = "off" /\ UNCHANGED <<phase, built>>
    BY <1>6 DEF Verify, Exit, settlementVars, clientVars
  <2> QED
    BY <1>1, <2>1 DEF RunPhase, StepsLeft
<1> QED
  BY <1>2, <1>3, <1>4, <1>5, <1>6 DEF Run, Interrupted

LEMMA OthersLeaveTheRun ==
    ASSUME Network \/ UNCHANGED vars
    PROVE  UNCHANGED <<step, phase, polls, built>>
BY DEF Network, LedgerCloses, OthersReport, NodeCatchesUp, CloseEmpty, CloseWith, CatchUp,
       vars, settlementVars, clientVars, runVars

LEMMA RunPhaseStep == ReporterInv /\ RunPhase /\ [Next]_vars => RunPhase'
<1> SUFFICES ASSUME ReporterInv, RunPhase, [Next]_vars
             PROVE  RunPhase'
  OBVIOUS
<1>1. ASSUME NEW a \in Appraisals, NEW dry \in BOOLEAN, Start(a, dry)
      PROVE  RunPhase'
  BY <1>1 DEF Start, RunPhase, settlementVars, clientVars
<1>2. CASE Network \/ UNCHANGED vars
  BY <1>2, OthersLeaveTheRun DEF RunPhase
<1> QED
  BY <1>1, <1>2, RunMovesOn DEF Next

(***************************************************************************)
(* Every run of submitSignedAppraisal is bounded by what it was given when *)
(* it began: each of its steps, answered or not, brings it strictly nearer *)
(* to its end, and nothing the network does puts the end further off, not  *)
(* even a ledger that never closes or a node that never catches up.  A run *)
(* has a transaction under way only while it waits for that one, and       *)
(* builds at most one.  What EveryRunEnds needs besides is only that the   *)
(* program goes on.                                                        *)
(***************************************************************************)
THEOREM ReporterRunsAreBounded ==
    Spec => /\ [](StepsLeft \in Nat /\ (StepsLeft > 0 <=> step # "off") /\ RunPhase)
            /\ [][/\ Run \/ Interrupted => StepsLeft' < StepsLeft
                  /\ Network => StepsLeft' = StepsLeft
                  /\ built' # built => /\ step = "submit" /\ built' = built + 1
                                       /\ StepsLeft' < StepsLeft]_vars
<1> DEFINE MovesOn == /\ Run \/ Interrupted => StepsLeft' < StepsLeft
                      /\ Network => StepsLeft' = StepsLeft
                      /\ built' # built => /\ step = "submit" /\ built' = built + 1
                                           /\ StepsLeft' < StepsLeft
<1>1. ReporterInv /\ RunPhase => StepsLeft \in Nat /\ (StepsLeft > 0 <=> step # "off")
  BY StepsLeftIsANumber
<1>2. ASSUME ReporterInv, RunPhase, [Next]_vars
      PROVE  MovesOn
  <2>1. Run \/ Interrupted => StepsLeft' < StepsLeft
    BY <1>2, RunMovesOn
  <2>2. Network => StepsLeft' = StepsLeft
    BY OthersLeaveTheRun DEF StepsLeft
  <2>3. ASSUME built' # built
        PROVE  BuildReport
    <3>1. CASE Settle(Responded) \/ Settle(Lost)
      BY <1>2, <2>3, <3>1, SettleMovesOn
    <3>2. CASE Preflight \/ BuildFails \/ Verify
      BY <2>3, <3>2 DEF Preflight, BuildFails, Verify, settlementVars, clientVars
    <3>3. CASE \E a \in Appraisals, dry \in BOOLEAN : Start(a, dry)
      BY <2>3, <3>3 DEF Start, settlementVars, clientVars
    <3>4. CASE Network \/ UNCHANGED vars
      BY <2>3, <3>4, OthersLeaveTheRun
    <3> QED
      BY <1>2, <3>1, <3>2, <3>3, <3>4 DEF Next, Run, Interrupted
  <2>4. built' # built => step = "submit" /\ built' = built + 1 /\ StepsLeft' < StepsLeft
    BY <2>1, <2>3 DEF BuildReport, Build, Run
  <2> QED
    BY <2>1, <2>2, <2>4
<1>3. ReporterInv /\ RunPhase /\ [Next]_vars => [MovesOn]_vars
  BY <1>2
<1> QED
  BY <1>1, <1>3, ReporterInvInit, ReporterInvStep, RunPhaseInit, RunPhaseStep, PTL DEF Spec
=============================================================================
