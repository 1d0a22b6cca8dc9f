------------------------------ MODULE Settlement ------------------------------
(***************************************************************************)
(* How a client of the SDK learns what became of a transaction             *)
(* (sdk/src/base.ts: buildWriteTx, signAndSubmit, awaitSettlement).  It    *)
(* builds a transaction from the sequence number an RPC node tells it,     *)
(* submits it, and polls that node until the transaction is found or its   *)
(* time is over; each request is a step.                                   *)
(*                                                                         *)
(* The network may include a transaction it has taken in, in any ledger    *)
(* that closes within the transaction's time, or never; the node lags      *)
(* behind the network by any number of ledgers; a request may fail with or *)
(* without having reached the node.  The local clock sets the time limit   *)
(* and the number of polls, and may be wrong by anything.                  *)
(***************************************************************************)
EXTENDS Integers

CONSTANTS
    Attempts,          \* bound: transactions are 1 .. Attempts
    MaxTime,           \* bound: no ledger closes later
    MaxPolls,          \* bound on awaitSettlement's attempts
    TransportFails,    \* whether requests may fail
    None

Txs == 1 .. Attempts
Moments == 0 .. MaxTime
Statuses == {"SUCCESS", "FAILED"}
Answers == {"success", "failed", "rejected", "notAccepted", "expired", "unknown",
            "transport"}

ASSUME SettlementBounds ==
    /\ Attempts \in Nat /\ MaxTime \in Nat /\ MaxPolls \in Nat \ {0}
    /\ TransportFails \in BOOLEAN
    /\ None \notin Statuses \cup Answers

VARIABLES
    \* The network.
    now,               \* when the last ledger closed
    sequence,          \* the source account's sequence number
    queue,             \* the transactions it has taken in
    landed,            \* tx |-> the status it was applied with
    seen,              \* the ledger the RPC node answers from
    \* The client.
    built,             \* how many transactions it has built
    tx,                \* tx |-> its sequence number and time limit
    phase,             \* of the last one built: "idle", "built", "polling"
    polls,             \* polls left
    answer             \* tx |-> what signAndSubmit returned or threw

networkVars == <<now, sequence, queue, landed>>
clientVars == <<built, tx, phase, polls, answer>>
settlementVars == <<networkVars, seen, clientVars>>

View == [closed |-> now, sequence |-> sequence, landed |-> landed]

SettlementInit ==
    /\ now = 0 /\ sequence = 0 /\ queue = {}
    /\ landed = [t \in Txs |-> None]
    /\ seen = View
    /\ built = 0 /\ phase = "idle" /\ polls = 0
    /\ tx = [t \in Txs |-> [sequence |-> 0, max_time |-> 0]]
    /\ answer = [t \in Txs |-> None]

-----------------------------------------------------------------------------
(* The network and the RPC node *)

\* A ledger closes without a transaction of this account, or with one.
CloseEmpty ==
    /\ \E m \in Moments : now < m /\ now' = m
    /\ UNCHANGED <<sequence, queue, landed, seen, clientVars>>

CloseWith(t, status) ==
    /\ t \in queue
    /\ tx[t].sequence = sequence + 1
    /\ \E m \in Moments : now < m /\ m <= tx[t].max_time /\ now' = m
    /\ sequence' = sequence + 1
    /\ landed' = [landed EXCEPT ![t] = status]
    /\ queue' = queue \ {t}
    /\ UNCHANGED <<seen, clientVars>>

CatchUp ==
    /\ seen # View
    /\ seen' = View
    /\ UNCHANGED <<networkVars, clientVars>>

-----------------------------------------------------------------------------
(* The client *)

Answered(a) ==
    /\ phase' = "idle"
    /\ answer' = [answer EXCEPT ![built] = a]

\* buildWriteTx, when the simulation it ends with succeeds.
Build ==
    /\ phase = "idle"
    /\ built < Attempts
    /\ built' = built + 1
    /\ \E m \in Moments :
          tx' = [tx EXCEPT ![built + 1] = [sequence |-> seen.sequence + 1, max_time |-> m]]
    /\ phase' = "built"
    /\ UNCHANGED <<polls, answer, networkVars, seen>>

\* sendTransaction: declined by the node, taken in, or without an answer.
SubmitDeclined ==
    /\ phase = "built"
    /\ \/ Answered("rejected")
       \/ Answered("notAccepted")
    /\ UNCHANGED <<built, tx, polls, networkVars, seen>>

SubmitTaken ==
    /\ phase = "built"
    /\ queue' = queue \cup {built}
    /\ phase' = "polling"
    /\ polls' \in 1 .. MaxPolls
    /\ UNCHANGED <<built, tx, answer, now, sequence, landed, seen>>

SubmitLost ==
    /\ TransportFails
    /\ phase = "built"
    /\ queue' \in {queue, queue \cup {built}}
    /\ Answered("transport")
    /\ UNCHANGED <<built, tx, polls, now, sequence, landed, seen>>

\* Mutant of LastAnswer: a transaction not found by the last poll is given up for
\* expired.
LastAnswer_GivesUp == IF polls > 1 THEN None ELSE "expired"

\* What awaitSettlement makes of a transaction not found: poll again, or answer by
\* the time of the ledger the response came from.
LastAnswer ==
    IF polls > 1 THEN None
    ELSE IF seen.closed > tx[built].max_time THEN "expired" ELSE "unknown"

PollFound ==
    /\ phase = "polling"
    /\ seen.landed[built] # None
    /\ Answered(IF seen.landed[built] = "SUCCESS" THEN "success" ELSE "failed")
    /\ UNCHANGED <<built, tx, polls, networkVars, seen>>

\* Mutant of PollNotFound: polling goes on until the node is past the time limit.
PollNotFound_UntilExpiry ==
    /\ phase = "polling"
    /\ seen.landed[built] = None
    /\ IF seen.closed > tx[built].max_time THEN Answered("expired")
                                          ELSE UNCHANGED <<phase, answer>>
    /\ UNCHANGED <<built, tx, polls, networkVars, seen>>

PollNotFound ==
    /\ phase = "polling"
    /\ seen.landed[built] = None
    /\ polls' = polls - 1
    /\ IF LastAnswer = None THEN UNCHANGED <<phase, answer>> ELSE Answered(LastAnswer)
    /\ UNCHANGED <<built, tx, networkVars, seen>>

PollLost ==
    /\ TransportFails
    /\ phase = "polling"
    /\ Answered("transport")
    /\ UNCHANGED <<built, tx, polls, networkVars, seen>>

\* A request of signAndSubmit that is answered, and one that is not.
Responded == SubmitDeclined \/ SubmitTaken \/ PollFound \/ PollNotFound
Lost == SubmitLost \/ PollLost

-----------------------------------------------------------------------------
(* Properties *)

SettlementTypeOK ==
    /\ now \in Moments /\ sequence \in Nat
    /\ queue \subseteq Txs
    /\ landed \in [Txs -> Statuses \cup {None}]
    /\ seen \in [closed : Moments, sequence : Nat, landed : [Txs -> Statuses \cup {None}]]
    /\ built \in 0 .. Attempts
    /\ tx \in [Txs -> [sequence : Nat, max_time : Moments]]
    /\ phase \in {"idle", "built", "polling"}
    /\ polls \in 0 .. MaxPolls
    /\ answer \in [Txs -> Answers \cup {None}]

(***************************************************************************)
(* What the client was told is true and stays true.  In particular a       *)
(* transaction said to have expired, to be refused or not to be accepted   *)
(* never lands afterwards, however far the node was behind and however     *)
(* wrong the local clock: whoever builds another one on that answer cannot *)
(* execute the operation twice (IR-05, sdk/src/errors.ts).                 *)
(***************************************************************************)
AnswersAreTrue ==
    \A t \in Txs :
        /\ answer[t] = "success" => landed[t] = "SUCCESS"
        /\ answer[t] = "failed" => landed[t] = "FAILED"
        /\ answer[t] \in {"expired", "rejected", "notAccepted"} => landed[t] = None
=============================================================================
