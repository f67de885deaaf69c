------------------------------- MODULE Broker -------------------------------
(***************************************************************************)
(* What the outbox relay, the event consumer and the dead-letter replay    *)
(* share: the partition of a Kafka topic that holds the events of one key, *)
(* its dead-letter topic, and the budget of faults of a behaviour.         *)
(*                                                                         *)
(* Kafka itself is not in the repository.  A partition is an append-only   *)
(* sequence: a record is never reordered or dropped once acknowledged      *)
(* (acks=all, libs/messaging/.../kafka.py).                                *)
(***************************************************************************)
EXTENDS Naturals, Sequences

CONSTANTS Events,     \* ids of the CloudEvents of one aggregate key
          MaxFaults   \* how many crashes, errors and rebalances may happen

ASSUME MaxFaultsAssumption == MaxFaults \in Nat

VARIABLES topic,      \* the partition: the events in the order Kafka took them
          dlq,        \* the dead-letter topic sa.dlq.<topic>
          faults      \* faults that may still happen

brokerVars == <<topic, dlq, faults>>

BrokerTypeOK ==
    /\ topic \in Seq(Events)
    /\ dlq \in Seq(Events)
    /\ faults \in 0..MaxFaults

BrokerInit == topic = <<>> /\ dlq = <<>> /\ faults = MaxFaults

\* The event is on the topic: it was published at least once.
OnTopic(e) == \E i \in DOMAIN topic : topic[i] = e

\* The producer's send_and_wait returns: the record has its offset.
Send(e) == topic' = Append(topic, e)

\* send_and_wait raises.  The record may or may not have reached the log: an
\* acknowledgement lost to a timeout looks like a refusal.
SendRaises(e) == Send(e) \/ UNCHANGED topic

\* One more fault happens.
Fault == faults > 0 /\ faults' = faults - 1
=============================================================================
