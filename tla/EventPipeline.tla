---------------------------- MODULE EventPipeline ----------------------------
(***************************************************************************)
(* An event's whole way: a producing service's outbox and its relays, the  *)
(* topic, the consumer group of another service with its dead-letter       *)
(* topic, and the operator's replay of what was dead-lettered.             *)
(***************************************************************************)
EXTENDS Outbox, EventConsumer, DlqReplay

vars == <<brokerVars, outboxVars, consumerVars, replayVars>>

TypeOK == BrokerTypeOK /\ OutboxTypeOK /\ ConsumerTypeOK /\ ReplayTypeOK

Init == BrokerInit /\ OutboxInit /\ ConsumerInit /\ ReplayInit

Next ==
    \/ OutboxNext /\ UNCHANGED <<consumerVars, replayVars>>
    \/ ConsumerNext /\ UNCHANGED <<outboxVars, replayVars>>
    \/ ReplayNext /\ UNCHANGED <<outboxVars, consumerVars>>

Spec == Init /\ [][Next]_vars

-----------------------------------------------------------------------------
(* Fairness.  The processes run for ever and are restarted (compose.yaml,   *)
(* restart: unless-stopped); the faults of a behaviour are finite in        *)
(* number.  No business transaction has to start or to commit, and no       *)
(* operator has to start a replay; a replay that was begun goes on.         *)
RelayStep(r) ==
    /\ \/ (FetchUnsent(r) \/ MarkSent(r)) /\ UNCHANGED brokerVars
       \/ Publish(r) /\ UNCHANGED <<dlq, faults>>
    /\ UNCHANGED <<consumerVars, replayVars>>

ConsumerRuns(c) ==
    /\ ConsumerStep(c)
    /\ UNCHANGED <<topic, faults, outboxVars, replayVars>>

Fairness ==
    /\ \A r \in Relays : WF_vars(RelayStep(r))
    /\ \A c \in Consumers : WF_vars(ConsumerRuns(c))

FairSpec == Spec /\ Fairness

-----------------------------------------------------------------------------
(* Where an event is.                                                       *)

\* A consumer still has a copy of e in front of it.
Pending(e) ==
    \/ rows[e] = "unsent"
    \/ \E i \in DOMAIN topic : i > offset /\ topic[i] = e

\* A dead letter of e waits for a replay.
Parked(e) == \E j \in DOMAIN dlq : j > dlqOffset /\ dlq[j] = e

\* e was dead-lettered at some time.
DeadLettered(e) == \E j \in DOMAIN dlq : dlq[j] = e

\* A consumer is done with e.
Dealt(e) == e \in processed \/ (HasDlq /\ DeadLettered(e))

\* What has become of each event, as ReliableDelivery sees it.
fateOf ==
    [e \in Events |->
        CASE ~Committed(e)                                  -> "unknown"
          [] Committed(e) /\ e \in processed                -> "applied"
          [] Committed(e) /\ e \notin processed /\ Pending(e) -> "accepted"
          [] OTHER -> IF Parked(e) THEN "parked" ELSE "lost"]

Abstract == INSTANCE ReliableDelivery WITH fate <- fateOf

-----------------------------------------------------------------------------
(* Properties.                                                              *)

\* Every committed event is still unsent, on the topic in front of the
\* consumers, applied, or waiting on the dead-letter topic -- through relay
\* and consumer crashes, ambiguous sends, rebalances and interrupted replays
\* ("no lost events", outbox.py; "resumes without loss", replay_dlq.py).
NoEventLost ==
    \A e \in Events : Committed(e) => e \in processed \/ Pending(e) \/ Parked(e)

\* An event of a transaction that did not commit is never on the topic, applied
\* or dead-lettered ("no phantom events", outbox.py).
NoPhantomEvent ==
    \A e \in Events :
        OnTopic(e) \/ e \in processed \/ DeadLettered(e) => Committed(e)

\* However often an event is delivered, and even when two processes hold it at
\* once after a rebalance, its business write is committed at most once
\* (hard rule 3: consumers are idempotent).
AppliedAtMostOnce == \A e \in Events : effects[e] <= 1

\* The group's offset never passes a message that is neither applied nor
\* dead-lettered; without a dead-letter sink it never passes an unapplied one
\* (consumer.py: commit after the handler succeeds).
OffsetCoversHandled ==
    \A i \in 1..offset : Dealt(topic[i])

\* Two relays on one outbox never hold the same row (outbox.py: SKIP LOCKED,
\* "so concurrent relays don't collide").
RelaysDoNotCollide ==
    \A r, s \in Relays : r # s => batch[r] \cap batch[s] = {}

\* A row is stamped sent only when the broker has its event.
SentIsOnTopic == \A e \in Events : rows[e] = "sent" => OnTopic(e)

\* An event staged after another one of the same key had been committed first
\* appears on the topic after it (events.md section 2: order within a key).
OrderKept ==
    \A f \in Events : \A e \in sees[f] :
        \A j \in DOMAIN topic : topic[j] = f => \E i \in 1..(j - 1) : topic[i] = e

\* The pipeline implements the promise: every step moves an event's fate the
\* way ReliableDelivery allows, or not at all.
DeliversReliably == Abstract!Spec

\* Once an event is committed it is, sooner or later, applied or dead-lettered:
\* no crash, lost answer or poison message ahead of it holds it up for ever
\* (consumer.py: "one poison message cannot wedge the partition").
EventuallySettled ==
    \A e \in Events : rows[e] = "unsent" ~> e \in processed \/ DeadLettered(e)

\* As long as fewer faults have happened than there are attempts, no event that can
\* be handled at all is on the dead-letter topic: the retries absorb the faults
\* (events.md section 4: three retries, then the DLQ).
RetriesAbsorbFaults ==
    MaxFaults - faults < MaxAttempts => \A e \in Events \ Poison : ~DeadLettered(e)
-----------------------------------------------------------------------------
(* The inductive invariant behind NoEventLost and DeliversReliably.         *)

\* Rows under lock are unsent, locked once, and on the topic when published.
LockInv ==
    /\ RelaysDoNotCollide
    /\ \A r \in Relays :
          /\ published[r] \subseteq batch[r]
          /\ \A e \in batch[r] : rows[e] = "unsent"
          /\ \A e \in published[r] : OnTopic(e)

\* Nothing travels that was not committed.
OriginInv ==
    /\ \A e \in Events : OnTopic(e) => Committed(e)
    /\ \A e \in Events : e \in processed \/ DeadLettered(e) => OnTopic(e)

\* Where the consumers and the replay are.  A process that holds a message and
\* owns the partition holds the one after the committed offset.
PositionInv ==
    /\ offset <= Len(topic)
    /\ dlqOffset + resent <= Len(dlq)
    /\ \A c \in Consumers :
          pc[c] \notin {"down", "idle"} =>
              /\ cur[c] \in DOMAIN topic
              /\ owner = c => cur[c] = offset + 1

\* e survives an offset of k: it is applied, or behind k on the topic, or dead-
\* lettered and out of reach of a replay that has been sent but not committed.
Safe(e, k) ==
    \/ e \in processed
    \/ \E i \in DOMAIN topic : i > k /\ topic[i] = e
    \/ \E j \in DOMAIN dlq : j > dlqOffset + resent /\ dlq[j] = e

\* The offset may pass a message only when the message is safe behind it.
SafeInv ==
    /\ \A e \in Events : OnTopic(e) => Safe(e, offset)
    /\ \A c \in Consumers :
          pc[c] = "handled" /\ owner = c => Safe(topic[cur[c]], cur[c])

\* What is behind the offset, or about to be, is dealt with.
CoverInv ==
    /\ \A i \in DOMAIN topic : i <= offset => Dealt(topic[i])
    /\ \A c \in Consumers :
          /\ pc[c] = "handled" => Dealt(topic[cur[c]])
          /\ pc[c] = "deadLettering" => HasDlq

\* The business write goes with the event id.
EffectsInv ==
    \A e \in Events : effects[e] = IF e \in processed THEN 1 ELSE 0

IInv ==
    /\ TypeOK
    /\ LockInv
    /\ OriginInv
    /\ SentIsOnTopic
    /\ PositionInv
    /\ SafeInv
    /\ CoverInv
    /\ EffectsInv

\* Behind OrderKept, with one relay: what was committed before f was staged is
\* stamped earlier, and goes out in f's batch at the latest.
OrderInv ==
    /\ \A e \in Events :
          /\ createdAt[e] <= clock
          /\ rows[e] = "absent" => sees[e] = {}
    /\ \A f \in Events : \A e \in sees[f] :
          /\ Committed(e)
          /\ createdAt[e] < createdAt[f]
          /\ \A r \in Relays : f \in batch[r] => e \in batch[r] \/ rows[e] = "sent"
    /\ OrderKept
=============================================================================
