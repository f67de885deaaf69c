---------------------------- MODULE EventConsumer ----------------------------
(***************************************************************************)
(* The consumer processes of one group reading one partition               *)
(* (libs/messaging/.../consumer.py) around an idempotent handler: the      *)
(* dedupe-by-event-id transaction every event service wraps its business   *)
(* write in (services/matching/.../events/handlers.py is the pattern).     *)
(*                                                                         *)
(* A process that lost the partition in a rebalance is not stopped: it     *)
(* goes on with the message it holds, beside the new owner.  Only the      *)
(* primary key of the processed-events table then stands between the two.  *)
(***************************************************************************)
EXTENDS Broker

CONSTANTS Consumers,    \* the consumer processes of the group
          NoOne,        \* the partition has no owner
          MaxAttempts,  \* 1 + the number of retry backoffs
          HasDlq,       \* was a dlq_sink given to the consumer?
          Poison        \* events whose handling always raises

ASSUME ConsumerAssumption ==
    /\ NoOne \notin Consumers
    /\ MaxAttempts \in Nat \ {0}
    /\ HasDlq \in BOOLEAN
    /\ Poison \subseteq Events

VARIABLES offset,       \* the group's committed offset: messages consumed for good
          owner,        \* the process the partition is assigned to
          pc,           \* pc[c]: what c is doing
          cur,          \* cur[c]: the position of the message c holds
          attempt,      \* attempt[c]: the attempt c is at
          processed,    \* the ids in the processed-events table
          effects       \* effects[e]: how often e's business write was committed

consumerVars == <<offset, owner, pc, cur, attempt, processed, effects>>

Activity == {"down", "idle", "checking", "writing", "deadLettering", "handled"}

ConsumerTypeOK ==
    /\ offset \in Nat
    /\ owner \in Consumers \cup {NoOne}
    /\ pc \in [Consumers -> Activity]
    /\ cur \in [Consumers -> Nat]
    /\ attempt \in [Consumers -> 1..MaxAttempts]
    /\ processed \in SUBSET Events
    /\ effects \in [Events -> Nat]

ConsumerInit ==
    /\ offset = 0
    /\ owner = NoOne
    /\ pc = [c \in Consumers |-> "idle"]
    /\ cur = [c \in Consumers |-> 0]
    /\ attempt = [c \in Consumers |-> 1]
    /\ processed = {}
    /\ effects = [e \in Events |-> 0]

\* The event of the message c holds.
Held(c) == topic[cur[c]]

Goto(c, activity) == pc' = [pc EXCEPT ![c] = activity]

\* The process of c ends; the group takes its partition away.
Dies(c) ==
    /\ Goto(c, "down")
    /\ owner' = IF owner = c THEN NoOne ELSE owner

-----------------------------------------------------------------------------
\* The group assigns a free partition to an idle process.
Assign(c) ==
    /\ owner = NoOne
    /\ pc[c] = "idle"
    /\ owner' = c
    /\ UNCHANGED <<offset, pc, cur, attempt, processed, effects>>

\* A rebalance moves the partition from a live process, whatever it is doing.
Rebalance(c) ==
    /\ owner \notin {NoOne, c}
    /\ pc[c] = "idle"
    /\ owner' = c
    /\ UNCHANGED <<offset, pc, cur, attempt, processed, effects>>

\* The container restarts a dead process (restart: unless-stopped).
Restart(c) ==
    /\ pc[c] = "down"
    /\ Goto(c, "idle")
    /\ UNCHANGED <<offset, owner, cur, attempt, processed, effects>>

ConsumerCrash(c) ==
    /\ pc[c] # "down"
    /\ Dies(c)
    /\ UNCHANGED <<offset, cur, attempt, processed, effects>>

-----------------------------------------------------------------------------
\* Mutant of Take: the offset is committed on receipt.
TakeAndCommit(c) ==
    /\ owner = c
    /\ pc[c] = "idle"
    /\ offset < Len(topic)
    /\ cur' = [cur EXCEPT ![c] = offset + 1]
    /\ offset' = offset + 1
    /\ attempt' = [attempt EXCEPT ![c] = 1]
    /\ Goto(c, "checking")
    /\ UNCHANGED <<owner, processed, effects>>

\* consume takes the next message: the one after the committed offset.
Take(c) ==
    /\ owner = c
    /\ pc[c] = "idle"
    /\ offset < Len(topic)
    /\ cur' = [cur EXCEPT ![c] = offset + 1]
    /\ attempt' = [attempt EXCEPT ![c] = 1]
    /\ Goto(c, "checking")
    /\ UNCHANGED <<offset, owner, processed, effects>>

\* The handler's transaction looks the event id up; a known one is skipped.
HandlerChecks(c) ==
    /\ pc[c] = "checking"
    /\ Held(c) \notin Poison
    /\ Goto(c, IF Held(c) \in processed THEN "handled" ELSE "writing")
    /\ UNCHANGED <<offset, owner, cur, attempt, processed, effects>>

\* Mutant of Write: no primary key on the processed-events table.
WriteUnchecked(e) ==
    /\ processed' = processed \cup {e}
    /\ effects' = [effects EXCEPT ![e] = @ + 1]

\* The business write and the event id go in together, unless another process
\* has put the same id there since the check (primary key).
Write(e) ==
    /\ e \notin processed
    /\ processed' = processed \cup {e}
    /\ effects' = [effects EXCEPT ![e] = @ + 1]

HandlerCommits(c) ==
    /\ pc[c] = "writing"
    /\ Write(Held(c))
    /\ Goto(c, "handled")
    /\ UNCHANGED <<offset, owner, cur, attempt>>

\* Mutants of Raises: one attempt too few, no limit.
RaisesBelow(c, limit) ==
    \/ /\ attempt[c] < limit
       /\ attempt' = [attempt EXCEPT ![c] = @ + 1]
       /\ Goto(c, "checking")
       /\ UNCHANGED owner
    \/ /\ attempt[c] >= limit
       /\ IF HasDlq THEN Goto(c, "deadLettering") /\ UNCHANGED owner ELSE Dies(c)
       /\ UNCHANGED attempt

RaisesOneLess(c) == RaisesBelow(c, MaxAttempts - 1)

RaisesForEver(c) == Goto(c, "checking") /\ UNCHANGED <<attempt, owner>>

\* What follows an exception of the handler: the next attempt after a backoff,
\* or, after the last one, the dead-letter topic, or the end of the process.
Raises(c) ==
    \/ /\ attempt[c] < MaxAttempts
       /\ attempt' = [attempt EXCEPT ![c] = @ + 1]
       /\ Goto(c, "checking")
       /\ UNCHANGED owner
    \/ /\ attempt[c] = MaxAttempts
       /\ HasDlq
       /\ Goto(c, "deadLettering")
       /\ UNCHANGED <<attempt, owner>>
    \/ /\ attempt[c] = MaxAttempts
       /\ ~HasDlq
       /\ Dies(c)
       /\ UNCHANGED attempt

\* The handler can never digest this event.
PoisonRaises(c) ==
    /\ pc[c] = "checking"
    /\ Held(c) \in Poison
    /\ Raises(c)
    /\ UNCHANGED <<offset, cur, processed, effects>>

\* The insert of the event id hits the primary key: the transaction rolls back.
DuplicateRaises(c) ==
    /\ pc[c] = "writing"
    /\ Held(c) \in processed
    /\ Raises(c)
    /\ UNCHANGED <<offset, cur, processed, effects>>

\* The database fails under the handler.  When it is the commit that fails,
\* the transaction may have gone through all the same.
HandlerRaises(c) ==
    /\ \/ pc[c] \in {"checking", "writing"} /\ UNCHANGED <<processed, effects>>
       \/ pc[c] = "writing" /\ Write(Held(c))
    /\ Raises(c)
    /\ UNCHANGED <<offset, cur>>

\* _dead_letter ships the message to sa.dlq.<topic>.
DeadLetter(c) ==
    /\ pc[c] = "deadLettering"
    /\ dlq' = Append(dlq, Held(c))
    /\ Goto(c, "handled")
    /\ UNCHANGED <<offset, owner, cur, attempt, processed, effects>>

\* The dead-letter send raises, with or without the record taken: the
\* exception leaves consume.
DeadLetterRaises(c) ==
    /\ pc[c] = "deadLettering"
    /\ \/ dlq' = Append(dlq, Held(c))
       \/ UNCHANGED dlq
    /\ Dies(c)
    /\ UNCHANGED <<offset, cur, attempt, processed, effects>>

\* The offset commit after a message that is dealt with.
CommitOffset(c) ==
    /\ pc[c] = "handled"
    /\ owner = c
    /\ offset' = cur[c]
    /\ Goto(c, "idle")
    /\ UNCHANGED <<owner, cur, attempt, processed, effects>>

\* The same commit by a process that lost the partition: it moves nothing, and
\* may raise (the group's generation has changed).
StaleCommit(c) ==
    /\ pc[c] = "handled"
    /\ owner # c
    /\ Goto(c, "idle") \/ Goto(c, "down")
    /\ UNCHANGED <<offset, owner, cur, attempt, processed, effects>>

-----------------------------------------------------------------------------
\* The steps of one process that need no fault.
ConsumerStep(c) ==
    \/ /\ \/ Assign(c)
          \/ Restart(c)
          \/ Take(c)
          \/ HandlerChecks(c)
          \/ HandlerCommits(c)
          \/ PoisonRaises(c)
          \/ DuplicateRaises(c)
          \/ CommitOffset(c)
          \/ StaleCommit(c)
       /\ UNCHANGED dlq
    \/ DeadLetter(c)

ConsumerFault(c) ==
    \/ (Rebalance(c) \/ ConsumerCrash(c) \/ HandlerRaises(c)) /\ UNCHANGED dlq
    \/ DeadLetterRaises(c)

ConsumerNext ==
    \E c \in Consumers :
        /\ UNCHANGED topic
        /\ \/ ConsumerStep(c) /\ UNCHANGED faults
           \/ ConsumerFault(c) /\ Fault
=============================================================================
