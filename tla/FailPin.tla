------------------------------ MODULE FailPin ------------------------------
(***************************************************************************)
(* The consumer of the dead letter queue (api/basic/fail-pin.js): a lambda *)
(* that gets a batch of messages, marks the pin of each as failed in turn, *)
(* and answers which of them it could not mark. SQS then deletes the       *)
(* others; what was not marked stays in the queue and is delivered again,  *)
(* and so is the whole batch when the lambda does not answer.              *)
(***************************************************************************)
EXTENDS PinTable, PinQueue

CONSTANTS
  Invocations,   \* the executions of the lambda that may overlap
  BatchSize      \* the most messages in a batch: 10 in the deployed stack

ASSUME BatchSizeType == BatchSize \in Nat \ {0}

VARIABLE batch   \* invocation -> the messages of its batch

Batch == [todo     : SUBSET Requests,   \* Records not reached yet
          marked   : SUBSET Requests,
          unmarked : SUBSET Requests]   \* batchItemFailures

NoBatch == [todo |-> {}, marked |-> {}, unmarked |-> {}]

BatchTypeOK == batch \in [Invocations -> Batch]

BatchInit == batch = [i \in Invocations |-> NoBatch]

-----------------------------------------------------------------------------
Records(i) == batch[i].todo \cup batch[i].marked \cup batch[i].unmarked

Hidden == UNION {Records(i) : i \in Invocations}

\* The event source mapping polls the dead letter queue.
ReceiveBatch(i) ==
  /\ batch[i] = NoBatch
  /\ \E msgs \in SUBSET {r \in Requests : queue[r] = "dead"} :
       /\ msgs # {} /\ msgs \cap Hidden = {}
       /\ Cardinality(msgs) <= BatchSize
       /\ batch' = [batch EXCEPT ![i].todo = msgs]
  /\ UNCHANGED <<tableVars, queueVars>>

\* Mutation: the update is not awaited, and fails.
MarkNothing(i, r) ==
  /\ r \in batch[i].todo
  /\ batch' = [batch EXCEPT ![i].todo = @ \ {r}, ![i].marked = @ \cup {r}]
  /\ UNCHANGED <<tableVars, queueVars>>

MarkFailed(i, r) ==
  /\ r \in batch[i].todo
  /\ UpdatePinStatus(CidOf[r], "failed")
  /\ batch' = [batch EXCEPT ![i].todo = @ \ {r}, ![i].marked = @ \cup {r}]
  /\ UNCHANGED queueVars

\* Four attempts fail, whether or not one of them took effect: the record
\* goes to batchItemFailures.
MarkingFails(i, r) ==
  /\ CanFail("lambda")
  /\ r \in batch[i].todo
  /\ batch' = [batch EXCEPT ![i].todo = @ \ {r}, ![i].unmarked = @ \cup {r}]
  /\ UpdatePinStatus(CidOf[r], "failed") \/ UNCHANGED tableVars
  /\ UNCHANGED queueVars

\* Mutation: without reportBatchItemFailures an answer deletes the batch.
CompleteWholeBatch(i) ==
  /\ batch[i] # NoBatch /\ batch[i].todo = {}
  /\ queue' = [r \in Requests |-> IF r \in Records(i) THEN "gone" ELSE queue[r]]
  /\ batch' = [batch EXCEPT ![i] = NoBatch]
  /\ UNCHANGED <<tableVars, receives>>

\* Mutation: every record is answered as a failure.
FailWholeBatch(i) ==
  /\ batch[i] # NoBatch /\ batch[i].todo = {}
  /\ batch' = [batch EXCEPT ![i] = NoBatch]
  /\ UNCHANGED <<tableVars, queueVars>>

\* The lambda returns its batchItemFailures and SQS deletes the rest.
CompleteBatch(i) ==
  /\ batch[i] # NoBatch /\ batch[i].todo = {}
  /\ queue' = [r \in Requests |->
                 IF r \in batch[i].marked THEN "gone" ELSE queue[r]]
  /\ batch' = [batch EXCEPT ![i] = NoBatch]
  /\ UNCHANGED <<tableVars, receives>>

\* The lambda throws, is killed, or times out: nothing is deleted.
LambdaKilled(i) ==
  /\ CanFail("lambda")
  /\ batch[i] # NoBatch
  /\ batch' = [batch EXCEPT ![i] = NoBatch]
  /\ UNCHANGED <<tableVars, queueVars>>

FailPinNext(i) ==
  \/ ReceiveBatch(i)
  \/ \E r \in Requests : MarkFailed(i, r) \/ MarkingFails(i, r)
  \/ CompleteBatch(i)
  \/ LambdaKilled(i)
=============================================================================
