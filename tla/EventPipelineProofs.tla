------------------------- MODULE EventPipelineProofs -------------------------
(***************************************************************************)
(* Machine-checked proofs about EventPipeline, for every set of events,    *)
(* relays and consumers, every batch size and every number of attempts,    *)
(* faults and replays.                                                     *)
(***************************************************************************)
EXTENDS EventPipeline, FiniteSetTheorems, TLAPS

USE DEF brokerVars, outboxVars, consumerVars, replayVars

-----------------------------------------------------------------------------
(* Type correctness.                                                        *)

\* What the two ways out of a drain that do not commit leave behind.
LEMMA AbortTypes ==
  ASSUME OutboxTypeOK, NEW r \in Relays, Abort(r)
  PROVE  OutboxTypeOK'
BY DEF OutboxTypeOK, Abort

LEMMA SendTypes ==
  ASSUME NEW e \in Events, topic \in Seq(Events), SendRaises(e)
  PROVE  topic' \in Seq(Events)
BY DEF SendRaises, Send

LEMMA FaultTypes ==
  ASSUME faults \in 0..MaxFaults, Fault
  PROVE  faults' \in 0..MaxFaults
BY MaxFaultsAssumption DEF Fault

LEMMA OutboxKeepsTypes ==
  ASSUME TypeOK, OutboxNext, UNCHANGED <<consumerVars, replayVars>>
  PROVE  TypeOK'
<1> USE DEF TypeOK, BrokerTypeOK, OutboxTypeOK
<1>1. ConsumerTypeOK' /\ ReplayTypeOK'
  BY DEF ConsumerTypeOK, ReplayTypeOK
<1>2. ASSUME NEW e \in Events, StageEvent(e), UNCHANGED brokerVars
      PROVE  TypeOK'
  BY <1>1, <1>2 DEF StageEvent, RowState
<1>3. ASSUME NEW e \in Events, CommitEvent(e) \/ RollbackEvent(e), UNCHANGED brokerVars
      PROVE  TypeOK'
  BY <1>1, <1>3 DEF CommitEvent, RollbackEvent, RowState
<1>4. ASSUME NEW r \in Relays, FetchUnsent(r) \/ MarkSent(r), UNCHANGED brokerVars
      PROVE  TypeOK'
  BY <1>1, <1>4 DEF FetchUnsent, MarkSent, RowState, Oldest, Available
<1>5. ASSUME NEW r \in Relays, Publish(r), UNCHANGED <<dlq, faults>>
      PROVE  TypeOK'
  BY <1>1, <1>5 DEF Publish, Send
<1>6. ASSUME NEW r \in Relays, PublishRaises(r) \/ RelayCrash(r), Fault, UNCHANGED dlq
      PROVE  TypeOK'
  <2>1. Abort(r)
    BY <1>6 DEF PublishRaises, RelayCrash
  <2>2. topic' \in Seq(Events)
    BY <1>6, SendTypes DEF PublishRaises, RelayCrash
  <2> QED BY <1>1, <1>6, <2>1, <2>2, AbortTypes, FaultTypes
<1> QED BY <1>2, <1>3, <1>4, <1>5, <1>6 DEF OutboxNext

LEMMA RaisesTypes ==
  ASSUME ConsumerTypeOK, NEW c \in Consumers, Raises(c)
  PROVE  /\ pc' \in [Consumers -> Activity]
         /\ owner' \in Consumers \cup {NoOne}
         /\ attempt' \in [Consumers -> 1..MaxAttempts]
BY ConsumerAssumption DEF ConsumerTypeOK, Raises, Dies, Goto, Activity

LEMMA WriteTypes ==
  ASSUME ConsumerTypeOK, NEW e \in Events, Write(e)
  PROVE  processed' \in SUBSET Events /\ effects' \in [Events -> Nat]
BY DEF ConsumerTypeOK, Write

\* The steps of a consumer keep the types as long as what it holds is an event.
LEMMA ConsumerStepTypes ==
  ASSUME ConsumerTypeOK, dlq \in Seq(Events), topic \in Seq(Events),
         NEW c \in Consumers, ConsumerStep(c),
         pc[c] \notin {"down", "idle"} => Held(c) \in Events
  PROVE  ConsumerTypeOK' /\ dlq' \in Seq(Events)
<1> USE ConsumerAssumption DEF ConsumerTypeOK, Goto, Activity
<1>1. CASE Assign(c) /\ UNCHANGED dlq
  BY <1>1 DEF Assign
<1>2. CASE Restart(c) /\ UNCHANGED dlq
  BY <1>2 DEF Restart
<1>3. CASE Take(c) /\ UNCHANGED dlq
  BY <1>3 DEF Take
<1>4. CASE HandlerChecks(c) /\ UNCHANGED dlq
  BY <1>4 DEF HandlerChecks
<1>5. CASE HandlerCommits(c) /\ UNCHANGED dlq
  BY <1>5, WriteTypes DEF HandlerCommits
<1>6. CASE PoisonRaises(c) /\ UNCHANGED dlq
  BY <1>6, RaisesTypes DEF PoisonRaises
<1>7. CASE DuplicateRaises(c) /\ UNCHANGED dlq
  BY <1>7, RaisesTypes DEF DuplicateRaises
<1>8. CASE CommitOffset(c) /\ UNCHANGED dlq
  BY <1>8 DEF CommitOffset
<1>9. CASE StaleCommit(c) /\ UNCHANGED dlq
  BY <1>9 DEF StaleCommit
<1>10. CASE DeadLetter(c)
  BY <1>10 DEF DeadLetter
<1> QED BY <1>1, <1>2, <1>3, <1>4, <1>5, <1>6, <1>7, <1>8, <1>9, <1>10 DEF ConsumerStep

LEMMA ConsumerFaultTypes ==
  ASSUME ConsumerTypeOK, dlq \in Seq(Events), topic \in Seq(Events),
         NEW c \in Consumers, ConsumerFault(c),
         pc[c] \notin {"down", "idle"} => Held(c) \in Events
  PROVE  ConsumerTypeOK' /\ dlq' \in Seq(Events)
<1> USE ConsumerAssumption DEF ConsumerTypeOK, Goto, Activity, Dies
<1>1. CASE Rebalance(c) /\ UNCHANGED dlq
  BY <1>1 DEF Rebalance
<1>2. CASE ConsumerCrash(c) /\ UNCHANGED dlq
  BY <1>2 DEF ConsumerCrash
<1>3. CASE HandlerRaises(c) /\ UNCHANGED dlq
  <2>1. processed' \in SUBSET Events /\ effects' \in [Events -> Nat]
    BY <1>3, WriteTypes DEF HandlerRaises
  <2>2. Raises(c) /\ UNCHANGED <<offset, cur>>
    BY <1>3 DEF HandlerRaises
  <2> QED BY <1>3, <2>1, <2>2, RaisesTypes
<1>4. CASE DeadLetterRaises(c)
  <2>0. pc[c] = "deadLettering"
    BY <1>4 DEF DeadLetterRaises
  <2>1. Held(c) \in Events
    BY <2>0
  <2>2. dlq' = Append(dlq, Held(c)) \/ dlq' = dlq
    BY <1>4 DEF DeadLetterRaises
  <2>3. CASE dlq' = Append(dlq, Held(c))
    BY <1>4, <2>1, <2>3 DEF DeadLetterRaises
  <2>4. CASE dlq' = dlq
    BY <1>4, <2>4 DEF DeadLetterRaises
  <2> QED BY <2>2, <2>3, <2>4
<1> QED BY <1>1, <1>2, <1>3, <1>4 DEF ConsumerFault

-----------------------------------------------------------------------------
(* The logs only grow.                                                      *)

\* The topic, the dead letters and the processed ids are all still there, and no
\* more of the dead letters are spent.
Grows ==
    /\ \A i \in DOMAIN topic : i \in DOMAIN topic' /\ topic'[i] = topic[i]
    /\ \A j \in DOMAIN dlq : j \in DOMAIN dlq' /\ dlq'[j] = dlq[j]
    /\ processed \subseteq processed'

LEMMA AppendGrows ==
  ASSUME NEW S, NEW s \in Seq(S), NEW e \in S
  PROVE  /\ Len(Append(s, e)) = Len(s) + 1
         /\ DOMAIN Append(s, e) = 1..(Len(s) + 1)
         /\ DOMAIN s = 1..Len(s)
         /\ Len(s) \in Nat
         /\ \A i \in DOMAIN s : i \in DOMAIN Append(s, e) /\ Append(s, e)[i] = s[i]
         /\ Append(s, e)[Len(s) + 1] = e
OBVIOUS

\* What was safe stays safe while the logs grow and the replay spends nothing.
LEMMA SafeGrows ==
  ASSUME Grows, dlqOffset' + resent' = dlqOffset + resent
  PROVE  \A e \in Events, k \in Nat : Safe(e, k) => Safe(e, k)'
BY DEF Grows, Safe

LEMMA GrowsLonger ==
  ASSUME Grows, dlq \in Seq(Events), dlq' \in Seq(Events)
  PROVE  Len(dlq) <= Len(dlq')
<1>1. Len(dlq) \in Nat /\ Len(dlq') \in Nat
  OBVIOUS
<1>2. CASE Len(dlq) = 0
  BY <1>1, <1>2
<1>3. CASE Len(dlq) # 0
  <2>1. Len(dlq) \in DOMAIN dlq
    BY <1>1, <1>3
  <2>2. Len(dlq) \in DOMAIN dlq'
    BY <2>1 DEF Grows
  <2> QED BY <1>1, <2>2
<1> QED BY <1>2, <1>3

LEMMA DealtGrows ==
  ASSUME Grows
  PROVE  \A e \in Events : Dealt(e) => Dealt(e)'
BY DEF Grows, Dealt, DeadLettered

LEMMA OnTopicGrows ==
  ASSUME Grows
  PROVE  \A e \in Events : /\ OnTopic(e) => OnTopic(e)'
                           /\ DeadLettered(e) => DeadLettered(e)'
BY DEF Grows, OnTopic, DeadLettered

-----------------------------------------------------------------------------
(* The consumers.                                                           *)

\* What every step of c but an offset commit has in common: c alone moves, it
\* adds at most the event it holds to what is processed or dead-lettered, and it
\* calls a message handled only when that message is dealt with and safe.
ConsumerMove(c) ==
    /\ UNCHANGED <<topic, offset, outboxVars, replayVars>>
    /\ faults' \in 0..MaxFaults
    /\ ConsumerTypeOK'
    /\ dlq' \in Seq(Events)
    /\ Grows
    /\ \A e \in Events : e \in processed' \ processed \/ (DeadLettered(e)' /\ ~DeadLettered(e))
                            => OnTopic(e)
    /\ EffectsInv'
    /\ \A d \in Consumers \ {c} : pc'[d] = pc[d] /\ cur'[d] = cur[d]
    /\ owner' \in {owner, c, NoOne}
    /\ owner' # owner => pc'[c] \in {"down", "idle"}
    /\ pc'[c] \notin {"down", "idle"} =>
          /\ cur'[c] \in DOMAIN topic
          /\ owner' = c => cur'[c] = offset + 1
    /\ pc'[c] = "handled" =>
          /\ Dealt(topic[cur[c]])'
          /\ owner' = c => Safe(topic[cur[c]], cur[c])'
    /\ pc'[c] = "deadLettering" => HasDlq

LEMMA ConsumerMoveKeepsInv ==
  ASSUME IInv, NEW c \in Consumers, ConsumerMove(c)
  PROVE  IInv'
<1>1. topic \in Seq(Events) /\ DOMAIN topic = 1..Len(topic) /\ Len(topic) \in Nat
  BY DEF IInv, TypeOK, BrokerTypeOK
<1>2. \A i \in DOMAIN topic : topic[i] \in Events
  BY <1>1
<1>3. TypeOK'
  BY DEF IInv, TypeOK, BrokerTypeOK, OutboxTypeOK, ReplayTypeOK, ConsumerMove
<1>4. LockInv' /\ SentIsOnTopic'
  BY DEF IInv, LockInv, SentIsOnTopic, RelaysDoNotCollide, OnTopic, ConsumerMove
<1>5. OriginInv'
  BY DEF IInv, OriginInv, OnTopic, Committed, ConsumerMove
<1>6. PositionInv'
  <2>1. offset' <= Len(topic')
    BY DEF IInv, PositionInv, ConsumerMove
  <2>2. dlqOffset' + resent' <= Len(dlq')
    BY <1>1, GrowsLonger DEF IInv, PositionInv, ConsumerMove, TypeOK, BrokerTypeOK, ReplayTypeOK
  <2>3. ASSUME NEW d \in Consumers, pc'[d] \notin {"down", "idle"}
        PROVE  cur'[d] \in DOMAIN topic' /\ (owner' = d => cur'[d] = offset' + 1)
    BY <2>3, ConsumerAssumption DEF IInv, PositionInv, ConsumerMove
  <2> QED BY <2>1, <2>2, <2>3 DEF PositionInv
<1>7. SafeInv'
  <2>1. \A e \in Events, k \in Nat : Safe(e, k) => Safe(e, k)'
    BY SafeGrows DEF ConsumerMove
  <2>2. ASSUME NEW e \in Events, OnTopic(e)'
        PROVE  Safe(e, offset)'
    <3>1. Safe(e, offset)
      BY <2>2 DEF IInv, SafeInv, OnTopic, ConsumerMove
    <3>2. offset \in Nat /\ offset' = offset
      BY DEF IInv, TypeOK, ConsumerTypeOK, ConsumerMove
    <3> QED BY <2>1, <3>1, <3>2 DEF Safe
  <2>3. ASSUME NEW d \in Consumers, pc'[d] = "handled", owner' = d
        PROVE  Safe(topic[cur[d]], cur[d])'
    <3>1. CASE d = c
      BY <2>3, <3>1 DEF ConsumerMove
    <3>2. CASE d # c
      <4>1. pc[d] = "handled" /\ owner = d /\ cur'[d] = cur[d] /\ topic' = topic
        BY <2>3, <3>2, ConsumerAssumption DEF ConsumerMove
      <4>2. Safe(topic[cur[d]], cur[d]) /\ topic[cur[d]] \in Events /\ cur[d] \in Nat
        BY <1>2, <4>1 DEF IInv, SafeInv, PositionInv, TypeOK, ConsumerTypeOK
      <4> QED BY <2>1, <4>1, <4>2 DEF Safe
    <3> QED BY <3>1, <3>2
  <2> QED BY <2>2, <2>3 DEF SafeInv
<1>8. CoverInv'
  <2>1. \A e \in Events : Dealt(e) => Dealt(e)'
    BY DealtGrows DEF ConsumerMove
  <2>2. ASSUME NEW i \in DOMAIN topic', i <= offset'
        PROVE  Dealt(topic[i])'
    BY <1>2, <2>1, <2>2 DEF IInv, CoverInv, Dealt, DeadLettered, ConsumerMove
  <2>3. ASSUME NEW d \in Consumers, pc'[d] = "handled"
        PROVE  Dealt(topic[cur[d]])'
    <3>1. CASE d = c
      BY <2>3, <3>1 DEF ConsumerMove
    <3>2. CASE d # c
      <4>1. pc[d] = "handled" /\ cur'[d] = cur[d] /\ topic' = topic
        BY <2>3, <3>2 DEF ConsumerMove
      <4>2. Dealt(topic[cur[d]]) /\ topic[cur[d]] \in Events
        BY <1>2, <4>1 DEF IInv, CoverInv, PositionInv
      <4> QED BY <2>1, <4>1, <4>2 DEF Dealt, DeadLettered
    <3> QED BY <3>1, <3>2
  <2>4. ASSUME NEW d \in Consumers, pc'[d] = "deadLettering"
        PROVE  HasDlq
    BY <2>4 DEF IInv, CoverInv, ConsumerMove
  <2> QED BY <2>2, <2>3, <2>4 DEF CoverInv
<1>9. EffectsInv'
  BY DEF ConsumerMove
<1> QED BY <1>3, <1>4, <1>5, <1>6, <1>7, <1>8, <1>9 DEF IInv

\* A step of c that adds nothing to the logs.
LEMMA QuietMove ==
  ASSUME IInv, NEW c \in Consumers,
         UNCHANGED <<topic, dlq, offset, outboxVars, replayVars, processed, effects>>,
         faults' \in 0..MaxFaults, ConsumerTypeOK',
         \A d \in Consumers \ {c} : pc'[d] = pc[d] /\ cur'[d] = cur[d],
         owner' \in {owner, c, NoOne},
         owner' # owner => pc'[c] \in {"down", "idle"},
         pc'[c] \notin {"down", "idle"} =>
            /\ cur'[c] \in DOMAIN topic
            /\ owner' = c => cur'[c] = offset + 1,
         pc'[c] = "handled" => cur'[c] = cur[c] /\ Held(c) \in processed,
         pc'[c] = "deadLettering" => HasDlq
  PROVE  ConsumerMove(c)
<1>1. Grows /\ dlq' \in Seq(Events) /\ EffectsInv'
  BY DEF Grows, EffectsInv, IInv, TypeOK, BrokerTypeOK
<1>2. \A e \in Events : e \notin processed' \ processed /\ (DeadLettered(e)' => DeadLettered(e))
  BY DEF DeadLettered
<1>3. pc'[c] = "handled" => Dealt(topic[cur[c]])' /\ Safe(topic[cur[c]], cur[c])'
  BY DEF Dealt, Safe, Held
<1> QED BY <1>1, <1>2, <1>3 DEF ConsumerMove

\* What IInv says of a process that holds a message.
LEMMA Holding ==
  ASSUME IInv, NEW c \in Consumers, pc[c] \notin {"down", "idle"}
  PROVE  /\ Held(c) \in Events
         /\ OnTopic(Held(c))
         /\ cur[c] \in DOMAIN topic
         /\ owner = c => cur[c] = offset + 1
BY DEF IInv, TypeOK, BrokerTypeOK, PositionInv, Held, OnTopic

LEMMA RaisesMove ==
  ASSUME IInv, NEW c \in Consumers, pc[c] \notin {"down", "idle"}, Raises(c)
  PROVE  /\ \A d \in Consumers \ {c} : pc'[d] = pc[d]
         /\ owner' \in {owner, c, NoOne}
         /\ owner' # owner => pc'[c] \in {"down", "idle"}
         /\ pc'[c] \in {"down", "checking", "deadLettering"}
         /\ pc'[c] = "deadLettering" => HasDlq
BY DEF IInv, TypeOK, ConsumerTypeOK, Raises, Goto, Dies

\* A step of c that commits the write of the message it holds.
LEMMA WriteMove ==
  ASSUME IInv, NEW c \in Consumers, pc[c] \notin {"down", "idle"}, Write(Held(c)),
         UNCHANGED <<topic, dlq, offset, outboxVars, replayVars, cur>>,
         faults' \in 0..MaxFaults, ConsumerTypeOK',
         \A d \in Consumers \ {c} : pc'[d] = pc[d],
         owner' \in {owner, c, NoOne},
         owner' # owner => pc'[c] \in {"down", "idle"},
         pc'[c] = "deadLettering" => HasDlq
  PROVE  ConsumerMove(c)
<1>1. Held(c) \in Events /\ OnTopic(Held(c)) /\ cur[c] \in DOMAIN topic
  BY Holding
<1>2. processed' = processed \cup {Held(c)}
  BY DEF Write
<1>3. Grows /\ dlq' \in Seq(Events)
  BY <1>2 DEF Grows, IInv, TypeOK, BrokerTypeOK
<1>4. EffectsInv'
  BY <1>1, <1>2 DEF EffectsInv, IInv, Write, TypeOK, ConsumerTypeOK
<1>5. \A e \in Events : e \in processed' \ processed \/ (DeadLettered(e)' /\ ~DeadLettered(e))
                           => OnTopic(e)
  BY <1>1, <1>2 DEF DeadLettered
<1>6. topic'[cur'[c]] \in processed'
  BY <1>2 DEF Held
<1>7. Dealt(topic[cur[c]])' /\ Safe(topic[cur[c]], cur[c])'
  BY <1>6 DEF Dealt, Safe
<1>8. pc'[c] \notin {"down", "idle"} /\ owner' = c => cur'[c] = offset + 1
  BY Holding
<1> QED BY <1>1, <1>3, <1>4, <1>5, <1>7, <1>8 DEF ConsumerMove

\* A step of c whose dead letter the broker takes.
LEMMA ParkMove ==
  ASSUME IInv, NEW c \in Consumers, pc[c] = "deadLettering", dlq' = Append(dlq, Held(c)),
         UNCHANGED <<topic, offset, outboxVars, replayVars, cur, processed, effects>>,
         faults' \in 0..MaxFaults, ConsumerTypeOK', dlq' \in Seq(Events),
         \A d \in Consumers \ {c} : pc'[d] = pc[d],
         owner' \in {owner, c, NoOne},
         owner' # owner => pc'[c] \in {"down", "idle"},
         pc'[c] # "deadLettering"
  PROVE  ConsumerMove(c)
<1>1. Held(c) \in Events /\ OnTopic(Held(c)) /\ cur[c] \in DOMAIN topic
  BY Holding
<1>2. HasDlq
  BY DEF IInv, CoverInv
<1>3. dlq \in Seq(Events) /\ dlqOffset + resent <= Len(dlq) /\ dlqOffset + resent \in Nat
  BY DEF IInv, TypeOK, BrokerTypeOK, ReplayTypeOK, PositionInv
<1>4. /\ Len(dlq) \in Nat
      /\ DOMAIN dlq = 1..Len(dlq)
      /\ DOMAIN dlq' = 1..(Len(dlq) + 1)
      /\ \A j \in DOMAIN dlq : j \in DOMAIN dlq' /\ dlq'[j] = dlq[j]
      /\ dlq'[Len(dlq) + 1] = Held(c)
  BY <1>1, <1>3, AppendGrows
<1>5. Grows
  BY <1>4 DEF Grows
<1>6. EffectsInv'
  BY DEF EffectsInv, IInv
<1>7. \A e \in Events : DeadLettered(e)' /\ ~DeadLettered(e) => e = Held(c)
  BY <1>4 DEF DeadLettered
<1>8. /\ Len(dlq) + 1 \in DOMAIN dlq'
      /\ Len(dlq) + 1 > dlqOffset' + resent'
      /\ dlq'[Len(dlq) + 1] = topic'[cur'[c]]
  BY <1>3, <1>4 DEF Held
<1>9. Dealt(topic[cur[c]])' /\ Safe(topic[cur[c]], cur[c])'
  BY <1>2, <1>8 DEF Dealt, DeadLettered, Safe
<1>10. pc'[c] \notin {"down", "idle"} /\ owner' = c => cur'[c] = offset + 1
  BY Holding
<1> QED BY <1>1, <1>2, <1>5, <1>6, <1>7, <1>9, <1>10 DEF ConsumerMove

LEMMA StepMoves ==
  ASSUME IInv, NEW c \in Consumers, ConsumerStep(c), ~CommitOffset(c),
         UNCHANGED <<topic, faults, outboxVars, replayVars>>
  PROVE  ConsumerMove(c)
<1>1. ConsumerTypeOK' /\ dlq' \in Seq(Events) /\ faults' \in 0..MaxFaults
  BY Holding, ConsumerStepTypes DEF IInv, TypeOK, BrokerTypeOK
<1>2. ConsumerTypeOK /\ topic \in Seq(Events) /\ offset \in Nat /\ DOMAIN topic = 1..Len(topic)
  BY DEF IInv, TypeOK, BrokerTypeOK, ConsumerTypeOK
<1>3. CASE Assign(c) /\ UNCHANGED dlq
  BY <1>1, <1>3, QuietMove DEF Assign
<1>4. CASE Restart(c) /\ UNCHANGED dlq
  BY <1>1, <1>2, <1>4, QuietMove DEF Restart, Goto, ConsumerTypeOK
<1>5. CASE Take(c) /\ UNCHANGED dlq
  <2>1. pc'[c] = "checking" /\ cur'[c] = offset + 1 /\ offset + 1 \in DOMAIN topic
    BY <1>2, <1>5 DEF Take, Goto, ConsumerTypeOK
  <2>2. \A d \in Consumers \ {c} : pc'[d] = pc[d] /\ cur'[d] = cur[d]
    BY <1>2, <1>5 DEF Take, Goto, ConsumerTypeOK
  <2>3. UNCHANGED <<offset, owner, processed, effects, dlq>>
    BY <1>5 DEF Take
  <2> QED BY <1>1, <2>1, <2>2, <2>3, QuietMove
<1>6. CASE HandlerChecks(c) /\ UNCHANGED dlq
  BY <1>1, <1>2, <1>6, Holding, QuietMove DEF HandlerChecks, Goto, ConsumerTypeOK
<1>7. CASE PoisonRaises(c) /\ UNCHANGED dlq
  BY <1>1, <1>2, <1>7, Holding, RaisesMove, QuietMove DEF PoisonRaises
<1>8. CASE DuplicateRaises(c) /\ UNCHANGED dlq
  BY <1>1, <1>2, <1>8, Holding, RaisesMove, QuietMove DEF DuplicateRaises
<1>9. CASE StaleCommit(c) /\ UNCHANGED dlq
  BY <1>1, <1>2, <1>9, QuietMove DEF StaleCommit, Goto, ConsumerTypeOK
<1>10. CASE HandlerCommits(c) /\ UNCHANGED dlq
  <2>1. Write(Held(c)) /\ pc[c] = "writing" /\ UNCHANGED <<offset, owner, cur>>
    BY <1>10 DEF HandlerCommits
  <2>2. pc'[c] = "handled" /\ \A d \in Consumers \ {c} : pc'[d] = pc[d]
    BY <1>2, <1>10 DEF HandlerCommits, Goto, ConsumerTypeOK
  <2> QED BY <1>1, <1>10, <2>1, <2>2, WriteMove
<1>11. CASE DeadLetter(c)
  <2>1. pc[c] = "deadLettering" /\ dlq' = Append(dlq, Held(c))
    BY <1>11 DEF DeadLetter
  <2>2. UNCHANGED <<offset, owner, cur, processed, effects>>
    BY <1>11 DEF DeadLetter
  <2>3. pc'[c] = "handled" /\ \A d \in Consumers \ {c} : pc'[d] = pc[d]
    BY <1>2, <1>11 DEF DeadLetter, Goto, ConsumerTypeOK
  <2> QED BY <1>1, <2>1, <2>2, <2>3, ParkMove
<1> QED BY <1>3, <1>4, <1>5, <1>6, <1>7, <1>8, <1>9, <1>10, <1>11 DEF ConsumerStep

LEMMA FaultMoves ==
  ASSUME IInv, NEW c \in Consumers, ConsumerFault(c), Fault,
         UNCHANGED <<topic, outboxVars, replayVars>>
  PROVE  ConsumerMove(c)
<1>1. ConsumerTypeOK' /\ dlq' \in Seq(Events) /\ faults' \in 0..MaxFaults
  BY Holding, ConsumerFaultTypes, FaultTypes DEF IInv, TypeOK, BrokerTypeOK
<1>2. ConsumerTypeOK
  BY DEF IInv, TypeOK
<1>3. CASE Rebalance(c) /\ UNCHANGED dlq
  BY <1>1, <1>3, QuietMove DEF Rebalance
<1>4. CASE ConsumerCrash(c) /\ UNCHANGED dlq
  <2>1. /\ pc'[c] = "down"
        /\ \A d \in Consumers \ {c} : pc'[d] = pc[d]
        /\ owner' \in {owner, c, NoOne}
        /\ UNCHANGED <<offset, cur, processed, effects, dlq>>
    BY <1>2, <1>4 DEF ConsumerCrash, Dies, Goto, ConsumerTypeOK
  <2> QED BY <1>1, <2>1, QuietMove
<1>5. CASE HandlerRaises(c) /\ UNCHANGED dlq
  <2>1. pc[c] \notin {"down", "idle"} /\ Raises(c) /\ UNCHANGED <<offset, cur>>
    BY <1>5 DEF HandlerRaises
  <2>2. CASE UNCHANGED <<processed, effects>>
    BY <1>1, <1>5, <2>1, <2>2, Holding, RaisesMove, QuietMove
  <2>3. CASE Write(Held(c))
    BY <1>1, <1>5, <2>1, <2>3, RaisesMove, WriteMove
  <2> QED BY <1>5, <2>2, <2>3 DEF HandlerRaises
<1>6. CASE DeadLetterRaises(c)
  <2>1. /\ pc[c] = "deadLettering"
        /\ pc'[c] = "down"
        /\ \A d \in Consumers \ {c} : pc'[d] = pc[d]
        /\ owner' \in {owner, c, NoOne}
        /\ UNCHANGED <<offset, cur, processed, effects>>
    BY <1>2, <1>6 DEF DeadLetterRaises, Dies, Goto, ConsumerTypeOK
  <2>2. CASE dlq' = Append(dlq, Held(c))
    BY <1>1, <2>1, <2>2, ParkMove
  <2>3. CASE UNCHANGED dlq
    BY <1>1, <2>1, <2>3, QuietMove
  <2> QED BY <1>6, <2>2, <2>3 DEF DeadLetterRaises
<1> QED BY <1>3, <1>4, <1>5, <1>6 DEF ConsumerFault

\* The offset passes a message that is safe behind it and dealt with.  Any other
\* process that holds one has lost the partition.
LEMMA CommitOffsetKeepsInv ==
  ASSUME IInv, NEW c \in Consumers, CommitOffset(c),
         UNCHANGED <<brokerVars, outboxVars, replayVars>>
  PROVE  IInv'
<1>1. /\ pc[c] = "handled" /\ owner = c
      /\ offset' = cur[c]
      /\ UNCHANGED <<owner, cur, attempt, processed, effects>>
  BY DEF CommitOffset
<1>2. /\ topic \in Seq(Events) /\ DOMAIN topic = 1..Len(topic) /\ Len(topic) \in Nat
      /\ offset \in Nat /\ ConsumerTypeOK
  BY DEF IInv, TypeOK, BrokerTypeOK, ConsumerTypeOK
<1>3. pc'[c] = "idle" /\ \A d \in Consumers \ {c} : pc'[d] = pc[d]
  BY <1>2 DEF CommitOffset, Goto, ConsumerTypeOK
<1>4. cur[c] = offset + 1 /\ cur[c] \in DOMAIN topic
  BY <1>1, Holding
<1>5. Safe(topic[cur[c]], cur[c]) /\ Dealt(topic[cur[c]])
  BY <1>1 DEF IInv, SafeInv, CoverInv
<1>6. TypeOK'
  <2>1. ConsumerTypeOK'
    BY <1>1, <1>2, <1>4 DEF CommitOffset, ConsumerTypeOK, Goto, Activity
  <2> QED BY <2>1 DEF IInv, TypeOK, BrokerTypeOK, OutboxTypeOK, ReplayTypeOK
<1>7. LockInv' /\ SentIsOnTopic' /\ OriginInv' /\ EffectsInv'
  BY <1>1 DEF IInv, LockInv, RelaysDoNotCollide, SentIsOnTopic, OriginInv, EffectsInv,
              OnTopic, Committed, DeadLettered
<1>8. \A d \in Consumers : owner' = d => pc'[d] = "idle"
  BY <1>1, <1>3
<1>9. PositionInv'
  BY <1>1, <1>2, <1>3, <1>4, <1>8 DEF IInv, PositionInv
<1>10. SafeInv'
  <2>1. ASSUME NEW e \in Events, OnTopic(e)
        PROVE  Safe(e, cur[c])
    <3>1. Safe(e, offset)
      BY <2>1 DEF IInv, SafeInv
    <3>2. CASE e = topic[cur[c]]
      BY <1>5, <3>2
    <3>3. CASE e # topic[cur[c]]
      BY <1>2, <1>4, <3>1, <3>3 DEF Safe
    <3> QED BY <3>2, <3>3
  <2> QED BY <1>1, <1>8, <2>1 DEF SafeInv, Safe, OnTopic
<1>11. CoverInv'
  <2>1. \A i \in DOMAIN topic : i <= cur[c] => Dealt(topic[i])
    BY <1>2, <1>4, <1>5 DEF IInv, CoverInv
  <2>2. \A d \in Consumers : /\ pc'[d] = "handled" => pc[d] = "handled"
                             /\ pc'[d] = "deadLettering" => pc[d] = "deadLettering"
    BY <1>3
  <2> QED BY <1>1, <2>1, <2>2 DEF IInv, CoverInv, Dealt, DeadLettered
<1> QED BY <1>6, <1>7, <1>9, <1>10, <1>11 DEF IInv

LEMMA ConsumersKeepInv ==
  ASSUME IInv, ConsumerNext, UNCHANGED <<outboxVars, replayVars>>
  PROVE  IInv'
<1>1. PICK c \in Consumers :
        /\ UNCHANGED topic
        /\ \/ ConsumerStep(c) /\ UNCHANGED faults
           \/ ConsumerFault(c) /\ Fault
  BY DEF ConsumerNext
<1>2. CASE ConsumerStep(c) /\ CommitOffset(c) /\ UNCHANGED faults
  <2>1. UNCHANGED dlq
    BY <1>2 DEF ConsumerStep, CommitOffset, DeadLetter
  <2> QED BY <1>1, <1>2, <2>1, CommitOffsetKeepsInv
<1>3. CASE ConsumerStep(c) /\ ~CommitOffset(c) /\ UNCHANGED faults
  BY <1>1, <1>3, StepMoves, ConsumerMoveKeepsInv
<1>4. CASE ConsumerFault(c) /\ Fault
  BY <1>1, <1>4, FaultMoves, ConsumerMoveKeepsInv
<1> QED BY <1>1, <1>2, <1>3, <1>4

-----------------------------------------------------------------------------
(* The relays and the replay.                                               *)

\* What the steps outside the consumers have in common: the topic only grows, by
\* committed events that are safe behind the offset, and nothing safe is lost.
LogMove ==
    /\ UNCHANGED <<consumerVars, dlq>>
    /\ TypeOK' /\ LockInv' /\ SentIsOnTopic'
    /\ \A i \in DOMAIN topic : i \in DOMAIN topic' /\ topic'[i] = topic[i]
    /\ dlqOffset' + resent' <= Len(dlq)
    /\ \A e \in Events : OnTopic(e)' => Committed(e)'
    /\ \A e \in Events, k \in 0..Len(topic) : Safe(e, k) => Safe(e, k)'
    /\ \A e \in Events : OnTopic(e)' /\ ~OnTopic(e) => Safe(e, offset)'

LEMMA LogMoveKeepsInv ==
  ASSUME IInv, LogMove
  PROVE  IInv'
<1>1. /\ topic \in Seq(Events) /\ DOMAIN topic = 1..Len(topic) /\ Len(topic) \in Nat
      /\ topic' \in Seq(Events) /\ DOMAIN topic' = 1..Len(topic') /\ Len(topic') \in Nat
      /\ offset \in Nat
  BY DEF IInv, LogMove, TypeOK, BrokerTypeOK, ConsumerTypeOK
<1>2. \A e \in Events : OnTopic(e) => OnTopic(e)'
  BY DEF LogMove, OnTopic
<1>3. \A i \in DOMAIN topic : topic[i] \in Events /\ topic'[i] = topic[i]
  BY <1>1 DEF LogMove
<1>4. OriginInv'
  BY <1>2 DEF LogMove, IInv, OriginInv, DeadLettered
<1>5. PositionInv'
  <2>1. offset <= Len(topic')
    <3>1. CASE Len(topic) = 0
      BY <1>1, <3>1 DEF IInv, PositionInv
    <3>2. CASE Len(topic) # 0
      <4>1. Len(topic) \in DOMAIN topic'
        BY <1>1, <3>2 DEF LogMove
      <4> QED BY <1>1, <4>1 DEF IInv, PositionInv
    <3> QED BY <3>1, <3>2
  <2>2. \A c \in Consumers : cur[c] \in DOMAIN topic => cur[c] \in DOMAIN topic'
    BY DEF LogMove
  <2> QED BY <2>1, <2>2 DEF LogMove, IInv, PositionInv
<1>6. SafeInv'
  <2>1. ASSUME NEW e \in Events, OnTopic(e)'
        PROVE  Safe(e, offset)'
    <3>1. CASE OnTopic(e)
      <4>1. Safe(e, offset) /\ offset \in 0..Len(topic)
        BY <1>1, <3>1 DEF IInv, SafeInv, PositionInv
      <4>2. offset' = offset
        BY DEF LogMove
      <4> QED BY <4>1, <4>2 DEF LogMove, Safe
    <3>2. CASE ~OnTopic(e)
      BY <2>1, <3>2 DEF LogMove
    <3> QED BY <3>1, <3>2
  <2>2. ASSUME NEW c \in Consumers, pc'[c] = "handled", owner' = c
        PROVE  Safe(topic[cur[c]], cur[c])'
    <3>1. pc[c] = "handled" /\ owner = c /\ cur' = cur
      BY <2>2 DEF LogMove
    <3>2. Safe(topic[cur[c]], cur[c]) /\ cur[c] \in DOMAIN topic
      BY <3>1 DEF IInv, SafeInv, PositionInv
    <3>3. topic'[cur[c]] = topic[cur[c]] /\ topic[cur[c]] \in Events /\ cur[c] \in 0..Len(topic)
      BY <1>1, <1>3, <3>2
    <3> QED BY <3>1, <3>2, <3>3 DEF LogMove, Safe
  <2> QED BY <2>1, <2>2 DEF SafeInv
<1>7. CoverInv'
  <2>1. \A e \in Events : Dealt(e) => Dealt(e)'
    BY DEF Dealt, DeadLettered, LogMove
  <2>2. ASSUME NEW i \in DOMAIN topic', i <= offset'
        PROVE  Dealt(topic[i])'
    <3>1. i \in DOMAIN topic /\ i <= offset
      BY <1>1, <2>2 DEF LogMove, IInv, PositionInv
    <3>2. Dealt(topic[i]) /\ topic'[i] = topic[i] /\ topic[i] \in Events
      BY <1>3, <3>1 DEF IInv, CoverInv
    <3> QED BY <2>1, <3>2 DEF Dealt, DeadLettered
  <2>3. ASSUME NEW c \in Consumers, pc'[c] = "handled"
        PROVE  Dealt(topic[cur[c]])'
    <3>1. pc[c] = "handled" /\ cur' = cur /\ cur[c] \in DOMAIN topic
      BY <2>3 DEF LogMove, IInv, PositionInv
    <3>2. Dealt(topic[cur[c]]) /\ topic'[cur[c]] = topic[cur[c]] /\ topic[cur[c]] \in Events
      BY <1>3, <3>1 DEF IInv, CoverInv
    <3> QED BY <2>1, <3>1, <3>2 DEF Dealt, DeadLettered
  <2>4. \A c \in Consumers : pc'[c] = "deadLettering" => HasDlq
    BY DEF LogMove, IInv, CoverInv
  <2> QED BY <2>2, <2>3, <2>4 DEF CoverInv
<1>8. EffectsInv'
  BY DEF LogMove, IInv, EffectsInv
<1> QED BY <1>4, <1>5, <1>6, <1>7, <1>8 DEF IInv, LogMove

\* A step that leaves the logs alone and takes no event back.
LEMMA TableMove ==
  ASSUME IInv, TypeOK', LockInv', SentIsOnTopic',
         UNCHANGED <<topic, dlq, consumerVars, replayVars>>,
         \A e \in Events : Committed(e) => Committed(e)'
  PROVE  LogMove
<1>1. \A e \in Events, k \in 0..Len(topic) : Safe(e, k) => Safe(e, k)'
  BY DEF Safe
<1>2. \A e \in Events : OnTopic(e)' => OnTopic(e)
  BY DEF OnTopic
<1> QED BY <1>1, <1>2 DEF LogMove, IInv, OriginInv, PositionInv

\* A step that puts one committed event on the topic and changes no other log.
LEMMA AppendMove ==
  ASSUME IInv, TypeOK', LockInv', SentIsOnTopic',
         NEW e \in Events, Committed(e), topic' = Append(topic, e),
         UNCHANGED <<dlq, consumerVars, rows>>,
         dlqOffset' + resent' <= Len(dlq),
         \A f \in Events, j \in DOMAIN dlq :
            j > dlqOffset + resent /\ dlq[j] = f => j > dlqOffset' + resent' \/ f = e
  PROVE  LogMove
<1>1. topic \in Seq(Events)
  BY DEF IInv, TypeOK, BrokerTypeOK
<1>2. /\ Len(topic) \in Nat
      /\ DOMAIN topic = 1..Len(topic)
      /\ DOMAIN topic' = 1..(Len(topic) + 1)
      /\ \A i \in DOMAIN topic : i \in DOMAIN topic' /\ topic'[i] = topic[i]
      /\ topic'[Len(topic) + 1] = e
  BY <1>1, AppendGrows
<1>3. \A f \in Events : OnTopic(f)' => OnTopic(f) \/ f = e
  BY <1>2 DEF OnTopic
<1>4. \A f \in Events : OnTopic(f)' => Committed(f)'
  BY <1>3 DEF IInv, OriginInv, Committed
<1>5. offset \in 0..Len(topic) /\ offset' = offset
  BY <1>2 DEF IInv, TypeOK, ConsumerTypeOK, PositionInv
<1>6. \A k \in 0..Len(topic) : Len(topic) + 1 \in DOMAIN topic' /\ Len(topic) + 1 > k
  BY <1>2
<1>7. \A k \in 0..Len(topic) : Safe(e, k)'
  BY <1>2, <1>6 DEF Safe
<1>8. ASSUME NEW f \in Events, NEW k \in 0..Len(topic), Safe(f, k)
      PROVE  Safe(f, k)'
  <2>1. CASE f = e
    BY <1>7, <2>1
  <2>2. CASE f # e
    BY <1>2, <1>8, <2>2 DEF Safe
  <2> QED BY <2>1, <2>2
<1>9. Safe(e, offset)'
  BY <1>5, <1>7 DEF Safe
<1>10. \A f \in Events : OnTopic(f)' /\ ~OnTopic(f) => Safe(f, offset)'
  BY <1>3, <1>9
<1> QED BY <1>2, <1>4, <1>8, <1>10 DEF LogMove

LEMMA TransactionsKeepInv ==
  ASSUME IInv, NEW e \in Events, StageEvent(e) \/ CommitEvent(e) \/ RollbackEvent(e),
         UNCHANGED <<brokerVars, consumerVars, replayVars>>
  PROVE  IInv'
<1>1. TypeOK'
  BY OutboxKeepsTypes DEF IInv, OutboxNext
<1>2. /\ rows[e] \notin {"unsent", "sent"}
      /\ rows'[e] # "sent"
      /\ \A f \in Events \ {e} : rows'[f] = rows[f]
      /\ UNCHANGED <<batch, published>>
  BY DEF StageEvent, CommitEvent, RollbackEvent, IInv, TypeOK, OutboxTypeOK
<1>3. \A r \in Relays : batch[r] \subseteq Events
  BY DEF IInv, TypeOK, OutboxTypeOK
<1>4. LockInv' /\ SentIsOnTopic'
  BY <1>2, <1>3 DEF IInv, LockInv, RelaysDoNotCollide, SentIsOnTopic, OnTopic
<1>5. \A f \in Events : Committed(f) => Committed(f)'
  BY <1>2 DEF Committed
<1> QED BY <1>1, <1>4, <1>5, TableMove, LogMoveKeepsInv

LEMMA FetchKeepsInv ==
  ASSUME IInv, NEW r \in Relays, FetchUnsent(r),
         UNCHANGED <<brokerVars, consumerVars, replayVars>>
  PROVE  IInv'
<1>1. TypeOK'
  BY OutboxKeepsTypes DEF IInv, OutboxNext
<1>2. /\ batch \in [Relays -> SUBSET Events]
      /\ UNCHANGED <<rows, published>>
      /\ batch' = [batch EXCEPT ![r] = Oldest(Available, BatchSize)]
      /\ published[r] = {}
  BY DEF FetchUnsent, IInv, TypeOK, OutboxTypeOK, LockInv
<1>3. \A e \in batch'[r] : rows[e] = "unsent" /\ \A s \in Relays : e \notin batch[s]
  BY <1>2 DEF Oldest, Available
<1>4. RelaysDoNotCollide'
  <2>1. ASSUME NEW s \in Relays, NEW t \in Relays, s # t
        PROVE  batch'[s] \cap batch'[t] = {}
    BY <1>2, <1>3, <2>1 DEF IInv, LockInv, RelaysDoNotCollide
  <2> QED BY <2>1 DEF RelaysDoNotCollide
<1>5. LockInv' /\ SentIsOnTopic'
  BY <1>2, <1>3, <1>4 DEF IInv, LockInv, SentIsOnTopic, OnTopic
<1>6. \A f \in Events : Committed(f) => Committed(f)'
  BY <1>2 DEF Committed
<1> QED BY <1>1, <1>5, <1>6, TableMove, LogMoveKeepsInv

LEMMA MarkSentKeepsInv ==
  ASSUME IInv, NEW r \in Relays, MarkSent(r),
         UNCHANGED <<brokerVars, consumerVars, replayVars>>
  PROVE  IInv'
<1>1. TypeOK'
  BY OutboxKeepsTypes DEF IInv, OutboxNext
<1>2. /\ batch \in [Relays -> SUBSET Events] /\ published \in [Relays -> SUBSET Events]
      /\ rows' = [e \in Events |-> IF e \in batch[r] THEN "sent" ELSE rows[e]]
      /\ batch' = [batch EXCEPT ![r] = {}]
      /\ published' = [published EXCEPT ![r] = {}]
      /\ published[r] = batch[r]
  BY DEF MarkSent, IInv, TypeOK, OutboxTypeOK
<1>3. RelaysDoNotCollide'
  BY <1>2 DEF IInv, LockInv, RelaysDoNotCollide
<1>4. ASSUME NEW s \in Relays
      PROVE  /\ published'[s] \subseteq batch'[s]
             /\ \A e \in batch'[s] : rows'[e] = "unsent"
             /\ \A e \in published'[s] : OnTopic(e)'
  BY <1>2 DEF IInv, LockInv, RelaysDoNotCollide, OnTopic
<1>5. SentIsOnTopic'
  BY <1>2 DEF IInv, LockInv, SentIsOnTopic, OnTopic
<1>6. \A f \in Events : Committed(f) => Committed(f)'
  BY <1>2 DEF Committed
<1> QED BY <1>1, <1>3, <1>4, <1>5, <1>6, TableMove, LogMoveKeepsInv DEF LockInv

\* What a drain that ends early leaves behind.
LEMMA AbortKeepsLocks ==
  ASSUME IInv, NEW r \in Relays, Abort(r),
         \A e \in Events : OnTopic(e) => OnTopic(e)'
  PROVE  LockInv' /\ SentIsOnTopic' /\ rows' = rows
<1>1. /\ batch \in [Relays -> SUBSET Events] /\ published \in [Relays -> SUBSET Events]
      /\ batch' = [batch EXCEPT ![r] = {}]
      /\ published' = [published EXCEPT ![r] = {}]
      /\ rows' = rows
  BY DEF Abort, IInv, TypeOK, OutboxTypeOK
<1>2. RelaysDoNotCollide'
  BY <1>1 DEF IInv, LockInv, RelaysDoNotCollide
<1>3. ASSUME NEW s \in Relays
      PROVE  /\ published'[s] \subseteq batch'[s]
             /\ \A e \in batch'[s] : rows'[e] = "unsent"
             /\ \A e \in published'[s] : OnTopic(e)'
  BY <1>1 DEF IInv, LockInv
<1> QED BY <1>1, <1>2, <1>3 DEF IInv, LockInv, SentIsOnTopic

\* The event a relay is at is committed, and stays on the topic once it is there.
LEMMA SendGrows ==
  ASSUME IInv, NEW e \in Events, Send(e)
  PROVE  OnTopic(e)' /\ \A f \in Events : OnTopic(f) => OnTopic(f)'
BY AppendGrows DEF IInv, TypeOK, BrokerTypeOK, OnTopic, Send

LEMMA PublishKeepsInv ==
  ASSUME IInv, NEW r \in Relays, Publish(r),
         UNCHANGED <<dlq, faults, consumerVars, replayVars>>
  PROVE  IInv'
<1>1. TypeOK'
  BY OutboxKeepsTypes DEF IInv, OutboxNext
<1>2. /\ batch \in [Relays -> SUBSET Events] /\ published \in [Relays -> SUBSET Events]
      /\ UNCHANGED <<rows, batch>>
  BY DEF Publish, IInv, TypeOK, OutboxTypeOK
<1>3. PICK e \in batch[r] : Send(e) /\ published' = [published EXCEPT ![r] = @ \cup {e}]
  BY DEF Publish
<1>4. e \in Events /\ Committed(e)
  BY <1>2 DEF IInv, LockInv, Committed
<1>5. OnTopic(e)' /\ \A f \in Events : OnTopic(f) => OnTopic(f)'
  BY <1>3, <1>4, SendGrows
<1>6. RelaysDoNotCollide' /\ SentIsOnTopic'
  BY <1>2, <1>5 DEF IInv, LockInv, RelaysDoNotCollide, SentIsOnTopic
<1>7. ASSUME NEW s \in Relays
      PROVE  /\ published'[s] \subseteq batch'[s]
             /\ \A f \in batch'[s] : rows'[f] = "unsent"
             /\ \A f \in published'[s] : OnTopic(f)'
  BY <1>2, <1>3, <1>5 DEF IInv, LockInv
<1>8. LogMove
  BY <1>1, <1>2, <1>3, <1>4, <1>6, <1>7, AppendMove
     DEF LockInv, Send, IInv, PositionInv
<1> QED BY <1>8, LogMoveKeepsInv

LEMMA AbortsKeepInv ==
  ASSUME IInv, NEW r \in Relays, PublishRaises(r) \/ RelayCrash(r), Fault,
         UNCHANGED <<dlq, consumerVars, replayVars>>
  PROVE  IInv'
<1>1. TypeOK'
  BY OutboxKeepsTypes DEF IInv, OutboxNext
<1>2. Abort(r)
  BY DEF PublishRaises, RelayCrash
<1>3. CASE UNCHANGED topic
  <2>1. \A e \in Events : OnTopic(e) => OnTopic(e)'
    BY <1>3 DEF OnTopic
  <2>2. LockInv' /\ SentIsOnTopic' /\ rows' = rows
    BY <1>2, <2>1, AbortKeepsLocks
  <2> QED BY <1>1, <1>3, <2>2, TableMove, LogMoveKeepsInv DEF Committed
<1>4. ASSUME NEW e \in batch[r], Send(e)
      PROVE  IInv'
  <2>1. e \in Events /\ Committed(e)
    BY DEF IInv, TypeOK, OutboxTypeOK, LockInv, Committed
  <2>2. \A f \in Events : OnTopic(f) => OnTopic(f)'
    BY <1>4, <2>1, SendGrows
  <2>3. LockInv' /\ SentIsOnTopic' /\ rows' = rows
    BY <1>2, <2>2, AbortKeepsLocks
  <2>4. LogMove
    BY <1>1, <1>4, <2>1, <2>3, AppendMove DEF Send, IInv, PositionInv
  <2> QED BY <2>4, LogMoveKeepsInv
<1> QED BY <1>3, <1>4 DEF PublishRaises, RelayCrash, SendRaises

LEMMA ReplayKeepsInv ==
  ASSUME IInv, ReplayNext, UNCHANGED <<outboxVars, consumerVars>>
  PROVE  IInv'
<1>1. /\ dlqOffset \in Nat /\ resent \in {0, 1} /\ replays \in 0..MaxReplays
      /\ dlq \in Seq(Events) /\ topic \in Seq(Events) /\ faults \in 0..MaxFaults
      /\ dlqOffset + resent <= Len(dlq) /\ Len(dlq) \in Nat /\ DOMAIN dlq = 1..Len(dlq)
      /\ OutboxTypeOK' /\ ConsumerTypeOK'
  BY DEF IInv, TypeOK, BrokerTypeOK, ReplayTypeOK, PositionInv, OutboxTypeOK, ConsumerTypeOK
<1>2. dlq' = dlq
  BY DEF ReplayNext
<1>3. CASE ReplaySend /\ UNCHANGED faults
  <2> DEFINE e == dlq[dlqOffset + 1]
  <2>1. /\ resent = 0 /\ resent' = 1 /\ dlqOffset' = dlqOffset
        /\ dlqOffset + 1 \in DOMAIN dlq /\ replays' = replays - 1 /\ replays > 0
        /\ Send(e)
    BY <1>1, <1>3 DEF ReplaySend
  <2>2. e \in Events /\ DeadLettered(e)
    BY <1>1, <2>1 DEF DeadLettered
  <2>3. Committed(e)
    BY <2>2 DEF IInv, OriginInv
  <2> HIDE DEF e
  <2>4. topic' = Append(topic, e) /\ topic' \in Seq(Events)
    BY <1>1, <2>1, <2>2 DEF Send
  <2>5. TypeOK'
    BY <1>1, <1>2, <1>3, <2>1, <2>4, MaxReplaysAssumption DEF TypeOK, BrokerTypeOK, ReplayTypeOK
  <2>6. \A f \in Events : OnTopic(f) => OnTopic(f)'
    BY <2>1, <2>2, SendGrows
  <2>7. LockInv' /\ SentIsOnTopic'
    <3>1. \A r \in Relays : published[r] \subseteq Events
      BY DEF IInv, TypeOK, OutboxTypeOK
    <3> QED BY <2>6, <3>1 DEF IInv, LockInv, RelaysDoNotCollide, SentIsOnTopic
  <2>8. dlqOffset' + resent' <= Len(dlq)
    BY <1>1, <2>1
  <2>9. \A f \in Events, j \in DOMAIN dlq :
           j > dlqOffset + resent /\ dlq[j] = f => j > dlqOffset' + resent' \/ f = e
    BY <1>1, <2>1 DEF e
  <2>10. LogMove
    BY <1>2, <2>2, <2>3, <2>4, <2>5, <2>7, <2>8, <2>9, AppendMove
  <2> QED BY <2>10, LogMoveKeepsInv
<1>4. CASE (ReplayCommit /\ UNCHANGED faults) \/ (ReplayInterrupted /\ Fault)
  <2>1. /\ dlqOffset' \in Nat /\ resent' \in {0, 1} /\ replays' = replays /\ topic' = topic
        /\ dlqOffset' + resent' <= dlqOffset + resent
    BY <1>1, <1>4 DEF ReplayCommit, ReplayInterrupted
  <2>2. TypeOK'
    BY <1>1, <1>2, <1>4, <2>1, FaultTypes DEF TypeOK, BrokerTypeOK, ReplayTypeOK
  <2>3. LockInv' /\ SentIsOnTopic'
    BY <2>1 DEF IInv, LockInv, RelaysDoNotCollide, SentIsOnTopic, OnTopic
  <2>6. /\ dlqOffset' + resent' <= Len(dlq)
        /\ \A j \in DOMAIN dlq : j > dlqOffset + resent => j > dlqOffset' + resent'
    <3>1. CASE ReplayCommit
      <4>1. resent = 1 /\ resent' = 0 /\ dlqOffset' = dlqOffset + 1
        BY <3>1 DEF ReplayCommit
      <4> QED BY <1>1, <4>1
    <3>2. CASE ReplayInterrupted
      <4>1. resent = 1 /\ resent' = 0 /\ dlqOffset' = dlqOffset
        BY <3>2 DEF ReplayInterrupted
      <4> QED BY <1>1, <4>1
    <3> QED BY <1>4, <3>1, <3>2
  <2>4. \A f \in Events, k \in 0..Len(topic) : Safe(f, k) => Safe(f, k)'
    BY <1>2, <2>1, <2>6 DEF Safe
  <2>5. \A f \in Events : (OnTopic(f)' <=> OnTopic(f)) /\ (Committed(f)' <=> Committed(f))
    BY <2>1 DEF OnTopic, Committed
  <2>7. LogMove
    BY <1>2, <2>1, <2>2, <2>3, <2>4, <2>5, <2>6 DEF LogMove, IInv, OriginInv
  <2> QED BY <2>7, LogMoveKeepsInv
<1> QED BY <1>3, <1>4 DEF ReplayNext

-----------------------------------------------------------------------------
(* The theorems.                                                            *)

LEMMA InitEstablishesInv == Init => IInv
<1> SUFFICES ASSUME Init PROVE IInv
  OBVIOUS
<1> USE DEF Init, BrokerInit, OutboxInit, ConsumerInit, ReplayInit
<1>1. TypeOK
  BY MaxFaultsAssumption, ConsumerAssumption, MaxReplaysAssumption
     DEF TypeOK, BrokerTypeOK, OutboxTypeOK, ConsumerTypeOK, ReplayTypeOK, RowState, Activity
<1>2. DOMAIN topic = {} /\ DOMAIN dlq = {} /\ Len(topic) = 0 /\ Len(dlq) = 0
  OBVIOUS
<1>3. LockInv
  BY DEF LockInv, RelaysDoNotCollide
<1>4. OriginInv /\ SentIsOnTopic /\ SafeInv /\ CoverInv /\ EffectsInv
  BY <1>2 DEF OriginInv, SentIsOnTopic, SafeInv, CoverInv, EffectsInv, OnTopic, DeadLettered
<1>5. PositionInv
  BY <1>2 DEF PositionInv
<1> QED BY <1>1, <1>3, <1>4, <1>5 DEF IInv

LEMMA OutboxKeepsInv ==
  ASSUME IInv, OutboxNext, UNCHANGED <<consumerVars, replayVars>>
  PROVE  IInv'
BY TransactionsKeepInv, FetchKeepsInv, MarkSentKeepsInv, PublishKeepsInv, AbortsKeepInv
   DEF OutboxNext

LEMMA StutterKeepsInv ==
  ASSUME IInv, UNCHANGED vars
  PROVE  IInv'
<1> USE DEF vars, IInv
<1>1. TypeOK'
  BY DEF TypeOK, BrokerTypeOK, OutboxTypeOK, ConsumerTypeOK, ReplayTypeOK
<1>2. LockInv' /\ OriginInv' /\ SentIsOnTopic'
  BY DEF LockInv, RelaysDoNotCollide, OriginInv, SentIsOnTopic, DeadLettered, OnTopic, Committed
<1>3. PositionInv' /\ EffectsInv'
  BY DEF PositionInv, EffectsInv
<1>4. SafeInv'
  BY DEF SafeInv, Safe, OnTopic
<1>5. CoverInv'
  BY DEF CoverInv, Dealt, DeadLettered
<1> QED BY <1>1, <1>2, <1>3, <1>4, <1>5

\* IInv is inductive: it holds initially and every step of the pipeline keeps it.
THEOREM InvariantHolds == Spec => []IInv
<1>1. Init => IInv
  BY InitEstablishesInv
<1>2. IInv /\ [Next]_vars => IInv'
  <2> SUFFICES ASSUME IInv, [Next]_vars PROVE IInv'
    OBVIOUS
  <2>1. CASE OutboxNext /\ UNCHANGED <<consumerVars, replayVars>>
    BY <2>1, OutboxKeepsInv
  <2>2. CASE ConsumerNext /\ UNCHANGED <<outboxVars, replayVars>>
    BY <2>2, ConsumersKeepInv
  <2>3. CASE ReplayNext /\ UNCHANGED <<outboxVars, consumerVars>>
    BY <2>3, ReplayKeepsInv
  <2>4. CASE UNCHANGED vars
    BY <2>4, StutterKeepsInv
  <2> QED BY <2>1, <2>2, <2>3, <2>4 DEF Next
<1> QED BY <1>1, <1>2, PTL DEF Spec

\* The types are kept in every behaviour of the pipeline.
THEOREM TypeCorrect == Spec => []TypeOK
<1>1. IInv => TypeOK
  BY DEF IInv
<1> QED BY <1>1, InvariantHolds, PTL

LEMMA InvLosesNothing == IInv => NoEventLost
<1> SUFFICES ASSUME IInv, NEW e \in Events, Committed(e)
             PROVE  e \in processed \/ Pending(e) \/ Parked(e)
  BY DEF NoEventLost
<1>1. CASE rows[e] = "unsent"
  BY <1>1 DEF Pending
<1>2. CASE rows[e] = "sent"
  <2>1. Safe(e, offset)
    BY <1>2 DEF IInv, SentIsOnTopic, SafeInv
  <2>2. /\ dlqOffset \in Nat /\ resent \in {0, 1}
        /\ dlq \in Seq(Events) /\ DOMAIN dlq = 1..Len(dlq) /\ Len(dlq) \in Nat
    BY DEF IInv, TypeOK, BrokerTypeOK, ReplayTypeOK
  <2>3. \A j \in DOMAIN dlq : j > dlqOffset + resent => j > dlqOffset
    BY <2>2
  <2> QED BY <2>1, <2>3 DEF Safe, Pending, Parked
<1> QED BY <1>1, <1>2 DEF Committed

\* No crash of a relay or a consumer, no lost answer of the broker and no
\* interrupted replay makes a committed event disappear (outbox.py, consumer.py,
\* replay_dlq.py together).
THEOREM NothingIsLost == Spec => []NoEventLost
BY InvLosesNothing, InvariantHolds, PTL

\* What a transaction that did not commit staged never leaves the outbox.
THEOREM NothingIsInvented == Spec => []NoPhantomEvent
<1>1. IInv => NoPhantomEvent
  BY DEF IInv, OriginInv, NoPhantomEvent
<1> QED BY <1>1, InvariantHolds, PTL

\* Redelivery, retries and two owners of a partition never apply an event twice.
THEOREM AppliedOnce == Spec => []AppliedAtMostOnce
<1>1. IInv => AppliedAtMostOnce
  <2>1. ASSUME EffectsInv, NEW e \in Events
        PROVE  effects[e] <= 1
    <3>1. effects[e] = 1 \/ effects[e] = 0
      BY <2>1 DEF EffectsInv
    <3> QED BY <3>1
  <2> QED BY <2>1 DEF IInv, AppliedAtMostOnce
<1> QED BY <1>1, InvariantHolds, PTL

\* The committed offset never passes a message nobody has dealt with, with a
\* dead-letter sink or without.
THEOREM OffsetIsCovered == Spec => []OffsetCoversHandled
<1>1. IInv => OffsetCoversHandled
  <2> SUFFICES ASSUME IInv, NEW i \in 1..offset
               PROVE  Dealt(topic[i])
    BY DEF OffsetCoversHandled
  <2>1. i \in DOMAIN topic /\ i <= offset
    BY DEF IInv, TypeOK, BrokerTypeOK, ConsumerTypeOK, PositionInv
  <2> QED BY <2>1 DEF IInv, CoverInv
<1> QED BY <1>1, InvariantHolds, PTL

\* However many relays drain one outbox, no row is in two batches (outbox.py: SKIP LOCKED).
THEOREM LocksAreExclusive == Spec => []RelaysDoNotCollide
<1>1. IInv => RelaysDoNotCollide
  BY DEF IInv, LockInv
<1> QED BY <1>1, InvariantHolds, PTL

\* A row is stamped sent only when the broker has its event (relay.py: drain).
THEOREM SentWasPublished == Spec => []SentIsOnTopic
<1>1. IInv => SentIsOnTopic
  BY DEF IInv
<1> QED BY <1>1, InvariantHolds, PTL

-----------------------------------------------------------------------------
(* With one relay per outbox, as compose.yaml deploys it, the topic keeps    *)
(* the order of the events of a key, for every finite set of events.  (With  *)
(* two relays it does not: SKIP LOCKED gives them neighbouring rows.)        *)

\* A topic that grows by an event keeps the order if everything that event's
\* transaction saw committed is on the topic already.
LEMMA SendKeepsOrder ==
  ASSUME IInv, OrderKept, NEW x \in Events, Send(x), sees' = sees,
         \A e \in sees[x] : OnTopic(e)
  PROVE  OrderKept'
<1>1. /\ Len(topic) \in Nat
      /\ DOMAIN topic = 1..Len(topic)
      /\ DOMAIN topic' = 1..(Len(topic) + 1)
      /\ \A i \in DOMAIN topic : topic'[i] = topic[i]
      /\ topic'[Len(topic) + 1] = x
  BY AppendGrows DEF IInv, TypeOK, BrokerTypeOK, Send
<1>2. SUFFICES ASSUME NEW f \in Events, NEW e \in sees[f],
                      NEW j \in DOMAIN topic', topic'[j] = f
               PROVE  \E i \in 1..(j - 1) : topic'[i] = e
  BY DEF OrderKept
<1>3. CASE j \in DOMAIN topic
  <2>1. PICK i \in 1..(j - 1) : topic[i] = e
    BY <1>1, <1>2, <1>3 DEF OrderKept
  <2> QED BY <1>1, <1>3, <2>1
<1>4. CASE j = Len(topic) + 1
  <2>1. PICK i \in DOMAIN topic : topic[i] = e
    BY <1>1, <1>2, <1>4 DEF OnTopic
  <2>2. i \in 1..(j - 1) /\ topic'[i] = e
    BY <1>1, <1>4, <2>1
  <2> QED BY <2>2
<1> QED BY <1>1, <1>3, <1>4

\* A step that leaves the outbox alone and sends at most what was sent before.
LEMMA ResendKeepsOrder ==
  ASSUME IInv, OrderInv, NEW x \in Events, OnTopic(x), Send(x), UNCHANGED outboxVars
  PROVE  OrderInv'
<1>1. \A e \in sees[x] : OnTopic(e)
  BY DEF OrderInv, OrderKept, OnTopic, IInv, TypeOK, BrokerTypeOK
<1>2. OrderKept'
  BY <1>1, SendKeepsOrder DEF OrderInv
<1> QED BY <1>2 DEF OrderInv, Committed

LEMMA QuietKeepsOrder ==
  ASSUME OrderInv, UNCHANGED <<topic, outboxVars>>
  PROVE  OrderInv'
BY DEF OrderInv, OrderKept, Committed

-----------------------------------------------------------------------------
(* The outbox.                                                              *)

\* The oldest n rows of a set hold, with a row, every row stamped before it.
LEMMA OldestIsDownwardClosed ==
  ASSUME NEW S, IsFiniteSet(S), NEW n \in Nat, \A e \in S : createdAt[e] \in Nat,
         NEW f \in Oldest(S, n), NEW e \in S, createdAt[e] < createdAt[f]
  PROVE  e \in Oldest(S, n)
<1> DEFINE before(g) == {h \in S : createdAt[h] < createdAt[g]}
<1>1. f \in S /\ Cardinality(before(f)) < n
  BY DEF Oldest
<1>2. before(e) \subseteq before(f)
  BY <1>1
<1>3. IsFiniteSet(before(f))
  BY FS_Subset
<1>4. Cardinality(before(e)) <= Cardinality(before(f))
  BY <1>2, <1>3, FS_Subset
<1>5. Cardinality(before(e)) \in Nat /\ Cardinality(before(f)) \in Nat
  BY <1>2, <1>3, FS_Subset, FS_CardinalityType
<1>6. Cardinality(before(e)) < n
  <2> HIDE DEF before
  <2> QED BY <1>1, <1>4, <1>5
<1> QED BY <1>6 DEF Oldest

LEMMA StageKeepsOrder ==
  ASSUME IInv, OrderInv, NEW e \in Events, StageEvent(e), UNCHANGED topic
  PROVE  OrderInv'
<1>1. /\ rows[e] = "absent" /\ rows'[e] = "staged"
      /\ \A f \in Events \ {e} : rows'[f] = rows[f] /\ createdAt'[f] = createdAt[f]
                                                    /\ sees'[f] = sees[f]
      /\ clock' = clock + 1 /\ createdAt'[e] = clock + 1
      /\ sees'[e] = {f \in Events : Committed(f)}
      /\ batch' = batch
  BY DEF StageEvent, IInv, TypeOK, OutboxTypeOK
<1>2. clock \in Nat /\ \A f \in Events : createdAt[f] \in Nat /\ sees[f] \subseteq Events
  BY DEF IInv, TypeOK, OutboxTypeOK
<1>3. ~Committed(e) /\ ~OnTopic(e) /\ \A r \in Relays : e \notin batch[r]
  BY <1>1 DEF IInv, OriginInv, LockInv, Committed
<1>4. ASSUME NEW f \in Events
      PROVE  createdAt'[f] <= clock' /\ (rows'[f] = "absent" => sees'[f] = {})
  BY <1>1, <1>2 DEF OrderInv
<1>5. ASSUME NEW f \in Events, NEW g \in sees'[f]
      PROVE  /\ Committed(g)'
             /\ createdAt'[g] < createdAt'[f]
             /\ \A r \in Relays : f \in batch'[r] => g \in batch'[r] \/ rows'[g] = "sent"
  <2>1. CASE f = e
    <3>1. g \in Events /\ Committed(g) /\ g # e
      BY <1>1, <1>3, <1>5, <2>1
    <3>2. createdAt[g] <= clock
      BY <3>1 DEF OrderInv
    <3> QED BY <1>1, <1>2, <1>3, <2>1, <3>1, <3>2 DEF Committed
  <2>2. CASE f # e
    <3>1. g \in sees[f] /\ Committed(g) /\ g \in Events /\ g # e
      BY <1>1, <1>2, <1>3, <1>5, <2>2 DEF OrderInv
    <3> QED BY <1>1, <2>2, <3>1 DEF OrderInv, Committed
  <2> QED BY <2>1, <2>2
<1>6. OrderKept'
  <2>1. \A j \in DOMAIN topic : topic[j] # e
    BY <1>3 DEF OnTopic
  <2> QED BY <1>1, <2>1 DEF OrderInv, OrderKept
<1> QED BY <1>4, <1>5, <1>6 DEF OrderInv

LEMMA EndKeepsOrder ==
  ASSUME IInv, OrderInv, NEW e \in Events, CommitEvent(e) \/ RollbackEvent(e), UNCHANGED topic
  PROVE  OrderInv'
<1>1. /\ rows[e] = "staged" /\ rows'[e] \in {"unsent", "discarded"}
      /\ \A f \in Events \ {e} : rows'[f] = rows[f]
      /\ UNCHANGED <<clock, createdAt, batch, sees>>
  BY DEF CommitEvent, RollbackEvent, IInv, TypeOK, OutboxTypeOK
<1>2. \A f \in Events : sees[f] \subseteq Events
  BY DEF IInv, TypeOK, OutboxTypeOK
<1>3. \A f \in Events : \A g \in sees[f] : g # e /\ g \in Events
  BY <1>1, <1>2 DEF OrderInv, Committed
<1> QED BY <1>1, <1>3 DEF OrderInv, OrderKept, Committed

LEMMA FetchKeepsOrder ==
  ASSUME IInv, OrderInv, IsFiniteSet(Events), NEW r, Relays = {r}, FetchUnsent(r),
         UNCHANGED topic
  PROVE  OrderInv'
<1>1. /\ batch[r] = {}
      /\ batch'[r] = Oldest(Available, BatchSize)
      /\ UNCHANGED <<clock, rows, createdAt, sees>>
  BY DEF FetchUnsent, IInv, TypeOK, OutboxTypeOK
<1>2. Available = {e \in Events : rows[e] = "unsent"}
  BY <1>1 DEF Available
<1>3. IsFiniteSet(Available) /\ BatchSize \in Nat /\ \A e \in Available : createdAt[e] \in Nat
  BY <1>2, FS_Subset, BatchSizeAssumption DEF IInv, TypeOK, OutboxTypeOK
<1>4. \A f \in Events : sees[f] \subseteq Events
  BY DEF IInv, TypeOK, OutboxTypeOK
<1>5. ASSUME NEW f \in Events, NEW e \in sees[f], f \in Oldest(Available, BatchSize)
      PROVE  e \in Oldest(Available, BatchSize) \/ rows[e] = "sent"
  <2>1. Committed(e) /\ createdAt[e] < createdAt[f] /\ e \in Events
    BY <1>4, <1>5 DEF OrderInv
  <2>2. CASE rows[e] = "unsent"
    BY <1>2, <1>3, <1>5, <2>1, <2>2, OldestIsDownwardClosed
  <2> QED BY <2>1, <2>2 DEF Committed
<1> QED BY <1>1, <1>5 DEF OrderInv, OrderKept, Committed

\* The row r is at goes out after everything its transaction saw committed.
LEMMA NextIsInOrder ==
  ASSUME IInv, OrderInv, NEW r \in Relays, NEW x \in Events, IsNext(r, x)
  PROVE  \A e \in sees[x] : OnTopic(e)
<1>1. /\ sees[x] \subseteq Events
      /\ \A e \in Events : createdAt[e] \in Nat
  BY DEF IInv, TypeOK, OutboxTypeOK
<1>2. ASSUME NEW e \in sees[x]
      PROVE  OnTopic(e)
  <2>1. e \in Events /\ createdAt[e] < createdAt[x] /\ (e \in batch[r] \/ rows[e] = "sent")
    BY <1>1 DEF OrderInv, IsNext
  <2>2. CASE rows[e] = "sent"
    BY <2>1, <2>2 DEF IInv, SentIsOnTopic
  <2>3. CASE e \in batch[r]
    <3>1. e \in published[r]
      BY <1>1, <2>1, <2>3 DEF IsNext
    <3> QED BY <3>1 DEF IInv, LockInv
  <2> QED BY <2>1, <2>2, <2>3
<1> QED BY <1>2

LEMMA PublishKeepsOrder ==
  ASSUME IInv, OrderInv, NEW r \in Relays,
         \/ Publish(r)
         \/ PublishRaises(r)
         \/ RelayCrash(r)
  PROVE  OrderInv'
<1>1. /\ UNCHANGED <<clock, rows, createdAt, sees>>
      /\ batch' = batch \/ batch' = [batch EXCEPT ![r] = {}]
  BY DEF Publish, PublishRaises, RelayCrash, Abort
<1>2. batch \in [Relays -> SUBSET Events]
  BY DEF IInv, TypeOK, OutboxTypeOK
<1>3. OrderKept'
  <2>1. CASE UNCHANGED topic
    BY <1>1, <2>1 DEF OrderInv, OrderKept
  <2>2. ASSUME NEW x \in batch[r], IsNext(r, x), Send(x)
        PROVE  OrderKept'
    BY <1>1, <1>2, <2>2, NextIsInOrder, SendKeepsOrder DEF OrderInv
  <2> QED BY <2>1, <2>2 DEF Publish, PublishRaises, RelayCrash, SendRaises
<1>4. \A s \in Relays : \A f \in batch'[s] : f \in batch[s] /\ batch'[s] = batch[s]
  BY <1>1, <1>2
<1> QED BY <1>1, <1>3, <1>4 DEF OrderInv, Committed

LEMMA MarkSentKeepsOrder ==
  ASSUME IInv, OrderInv, NEW r \in Relays, MarkSent(r), UNCHANGED topic
  PROVE  OrderInv'
<1>1. /\ \A e \in Events : rows'[e] = IF e \in batch[r] THEN "sent" ELSE rows[e]
      /\ batch'[r] = {} /\ \A s \in Relays \ {r} : batch'[s] = batch[s]
      /\ UNCHANGED <<clock, createdAt, sees>>
  BY DEF MarkSent, IInv, TypeOK, OutboxTypeOK
<1>2. \A f \in Events : sees[f] \subseteq Events
  BY DEF IInv, TypeOK, OutboxTypeOK
<1>3. \A e \in batch[r] : rows[e] = "unsent"
  BY DEF IInv, LockInv
<1>4. \A e \in Events : /\ Committed(e) => Committed(e)'
                        /\ rows'[e] = "absent" => rows[e] = "absent"
                        /\ rows[e] = "sent" => rows'[e] = "sent"
  BY <1>1 DEF Committed
<1>5. \A f \in Events : \A e \in sees'[f] :
         \A s \in Relays : f \in batch'[s] => e \in batch'[s] \/ rows'[e] = "sent"
  BY <1>1, <1>2, <1>4 DEF OrderInv
<1> QED BY <1>1, <1>2, <1>4, <1>5 DEF OrderInv, OrderKept

-----------------------------------------------------------------------------
\* One relay per outbox: an event never reaches the topic before one of the same
\* key that had been committed when it was staged (events.md section 2).
THEOREM OneRelayKeepsOrder ==
  ASSUME IsFiniteSet(Events), NEW CONSTANT r, Relays = {r}
  PROVE  Spec => []OrderKept
<1>1. Init => OrderInv
  BY DEF Init, BrokerInit, OutboxInit, OrderInv, OrderKept
<1>2. IInv /\ OrderInv /\ [Next]_vars => OrderInv'
  <2> SUFFICES ASSUME IInv, OrderInv, [Next]_vars PROVE OrderInv'
    OBVIOUS
  <2>1. CASE OutboxNext
    BY <2>1, StageKeepsOrder, EndKeepsOrder, FetchKeepsOrder, PublishKeepsOrder,
       MarkSentKeepsOrder DEF OutboxNext
  <2>2. CASE ConsumerNext /\ UNCHANGED outboxVars
    BY <2>2, QuietKeepsOrder DEF ConsumerNext
  <2>3. CASE ReplayNext /\ UNCHANGED outboxVars
    <3>1. CASE ReplaySend
      <4>1. PICK x : x = dlq[dlqOffset + 1]
        OBVIOUS
      <4>2. x \in Events /\ DeadLettered(x) /\ Send(x)
        BY <3>1, <4>1 DEF IInv, TypeOK, BrokerTypeOK, ReplayTypeOK, ReplaySend, DeadLettered
      <4>3. OnTopic(x)
        BY <4>2 DEF IInv, OriginInv
      <4> QED BY <2>3, <4>2, <4>3, ResendKeepsOrder
    <3>2. CASE ReplayCommit \/ ReplayInterrupted
      BY <2>3, <3>2, QuietKeepsOrder DEF ReplayCommit, ReplayInterrupted
    <3> QED BY <2>3, <3>1, <3>2 DEF ReplayNext
  <2>4. CASE UNCHANGED vars
    BY <2>4, QuietKeepsOrder DEF vars
  <2> QED BY <2>1, <2>2, <2>3, <2>4 DEF Next
<1>3. OrderInv => OrderKept
  BY DEF OrderInv
<1> QED BY <1>1, <1>2, <1>3, InvariantHolds, PTL DEF Spec

-----------------------------------------------------------------------------
(* The pipeline implements ReliableDelivery: what happens to an event between *)
(* the producer's commit and the consumer's is, step by step, what the       *)
(* abstract promise allows.                                                  *)

\* The fate of an event under the invariant: nothing is ever lost.
FateInv ==
    \A e \in Events :
        fateOf[e] = IF ~Committed(e) THEN "unknown"
                    ELSE IF e \in processed THEN "applied"
                    ELSE IF Pending(e) THEN "accepted" ELSE "parked"

LEMMA FateIs == IInv => FateInv
<1> SUFFICES ASSUME IInv, NEW e \in Events
             PROVE  fateOf[e] = IF ~Committed(e) THEN "unknown"
                                ELSE IF e \in processed THEN "applied"
                                ELSE IF Pending(e) THEN "accepted" ELSE "parked"
  BY DEF FateInv
<1>1. Committed(e) => e \in processed \/ Pending(e) \/ Parked(e)
  BY InvLosesNothing DEF NoEventLost
<1> QED BY <1>1 DEF fateOf

\* A step that moves no event.
LEMMA FatesStay ==
  ASSUME FateInv, FateInv',
         \A e \in Events :
            /\ Committed(e)' <=> Committed(e)
            /\ e \in processed' <=> e \in processed
            /\ Pending(e)' <=> Pending(e)
  PROVE  UNCHANGED fateOf
<1>1. \A e \in Events : fateOf'[e] = fateOf[e]
  BY DEF FateInv
<1> QED BY <1>1 DEF fateOf

\* A step after which some pending events are pending no more.
LEMMA FatesPark ==
  ASSUME FateInv, FateInv',
         \A e \in Events :
            /\ Committed(e)' <=> Committed(e)
            /\ e \in processed' <=> e \in processed
            /\ Pending(e)' => Pending(e)
  PROVE  Abstract!Next
<1> DEFINE S == {e \in Events : fateOf[e] = "accepted" /\ fateOf'[e] = "parked"}
<1>1. \A e \in Events : fateOf'[e] = IF e \in S THEN "parked" ELSE fateOf[e]
  BY DEF FateInv
<1>2. fateOf' = [e \in Events |-> IF e \in S THEN "parked" ELSE fateOf[e]]
  BY <1>1 DEF fateOf
<1>3. Abstract!Park(S)
  BY <1>2 DEF Abstract!Park
<1> QED BY <1>3 DEF Abstract!Next

\* A step that moves one event.
LEMMA FateMoves ==
  ASSUME FateInv, FateInv', NEW e \in Events,
         \A f \in Events \ {e} :
            /\ Committed(f)' <=> Committed(f)
            /\ f \in processed' <=> f \in processed
            /\ Pending(f)' <=> Pending(f),
         NEW from, NEW to,
         fateOf[e] \in from, fateOf'[e] = to
  PROVE  Abstract!Moves(e, from, to)
<1>1. \A f \in Events \ {e} : fateOf'[f] = fateOf[f]
  BY DEF FateInv
<1>2. fateOf = [f \in Events |-> fateOf[f]] /\ fateOf' = [f \in Events |-> fateOf'[f]]
  BY DEF fateOf
<1>3. fateOf' = [fateOf EXCEPT ![e] = to]
  BY <1>1, <1>2
<1> QED BY <1>3 DEF Abstract!Moves

\* A record at the end of the topic is in front of the consumers, and no other
\* event is more pending than before.
LEMMA AppendPending ==
  ASSUME IInv, NEW e \in Events, Send(e), UNCHANGED <<rows, offset>>
  PROVE  /\ Pending(e)'
         /\ \A f \in Events \ {e} : Pending(f)' <=> Pending(f)
<1>1. topic \in Seq(Events) /\ offset \in Nat /\ offset <= Len(topic)
  BY DEF IInv, TypeOK, BrokerTypeOK, ConsumerTypeOK, PositionInv
<1>2. /\ Len(topic) \in Nat
      /\ DOMAIN topic = 1..Len(topic)
      /\ DOMAIN topic' = 1..(Len(topic) + 1)
      /\ \A i \in DOMAIN topic : i \in DOMAIN topic' /\ topic'[i] = topic[i]
      /\ topic'[Len(topic) + 1] = e
  BY <1>1, AppendGrows DEF Send
<1>3. Len(topic) + 1 \in DOMAIN topic' /\ Len(topic) + 1 > offset'
  BY <1>1, <1>2
<1>4. Pending(e)'
  BY <1>2, <1>3 DEF Pending
<1>5. ASSUME NEW f \in Events \ {e}
      PROVE  Pending(f)' <=> Pending(f)
  BY <1>1, <1>2 DEF Pending
<1> QED BY <1>4, <1>5

\* The sends of the relays concern rows that are unsent: nothing moves.
LEMMA SendOfUnsentStays ==
  ASSUME IInv, FateInv, FateInv', NEW r \in Relays, NEW e \in batch[r], Send(e),
         UNCHANGED <<rows, offset, processed>>
  PROVE  UNCHANGED fateOf
<1>1. e \in Events /\ rows[e] = "unsent"
  BY DEF IInv, TypeOK, OutboxTypeOK, LockInv
<1>2. \A f \in Events : Pending(f)' <=> Pending(f)
  BY <1>1, AppendPending DEF Pending
<1> QED BY <1>2, FatesStay DEF Committed

LEMMA OutboxImplements ==
  ASSUME IInv, FateInv, FateInv', OutboxNext, UNCHANGED <<consumerVars, replayVars>>
  PROVE  Abstract!Next \/ UNCHANGED fateOf
<1>0. rows \in [Events -> RowState]
  BY DEF IInv, TypeOK, OutboxTypeOK
<1>1. ASSUME NEW e \in Events, StageEvent(e) \/ RollbackEvent(e), UNCHANGED brokerVars
      PROVE  UNCHANGED fateOf
  BY <1>0, <1>1, FatesStay DEF StageEvent, RollbackEvent, Committed, Pending
<1>2. ASSUME NEW e \in Events, CommitEvent(e), UNCHANGED brokerVars
      PROVE  Abstract!Next
  <2>1. rows[e] = "staged" /\ rows'[e] = "unsent" /\ \A f \in Events \ {e} : rows'[f] = rows[f]
    BY <1>0, <1>2 DEF CommitEvent
  <2>2. ~Committed(e) /\ e \notin processed /\ Committed(e)' /\ e \notin processed' /\ Pending(e)'
    BY <2>1 DEF IInv, OriginInv, Committed, Pending
  <2>3. fateOf[e] \in {"unknown"} /\ fateOf'[e] = "accepted"
    BY <2>2 DEF FateInv
  <2>4. \A f \in Events \ {e} : (Committed(f)' <=> Committed(f)) /\ (Pending(f)' <=> Pending(f))
    BY <1>2, <2>1 DEF Committed, Pending
  <2>5. Abstract!Moves(e, {"unknown"}, "accepted")
    BY <2>3, <2>4, FateMoves
  <2> QED BY <2>5 DEF Abstract!Next, Abstract!Accept
<1>3. ASSUME NEW r \in Relays, FetchUnsent(r), UNCHANGED brokerVars
      PROVE  UNCHANGED fateOf
  BY <1>3, FatesStay DEF FetchUnsent, Committed, Pending
<1>4. ASSUME NEW r \in Relays, MarkSent(r), UNCHANGED brokerVars
      PROVE  Abstract!Next
  <2>1. \A e \in Events : rows'[e] = IF e \in batch[r] THEN "sent" ELSE rows[e]
    BY <1>4 DEF MarkSent
  <2>2. \A e \in batch[r] : rows[e] = "unsent"
    BY DEF IInv, LockInv
  <2>3. \A e \in Events : (Committed(e)' <=> Committed(e)) /\ (Pending(e)' => Pending(e))
    BY <1>4, <2>1, <2>2 DEF Committed, Pending
  <2> QED BY <2>3, FatesPark
<1>5. ASSUME NEW r \in Relays, Publish(r), UNCHANGED <<dlq, faults>>
      PROVE  UNCHANGED fateOf
  BY <1>5, SendOfUnsentStays DEF Publish
<1>6. ASSUME NEW r \in Relays, PublishRaises(r) \/ RelayCrash(r)
      PROVE  UNCHANGED fateOf
  <2>1. rows' = rows
    BY <1>6 DEF PublishRaises, RelayCrash, Abort
  <2>2. CASE UNCHANGED topic
    BY <2>1, <2>2, FatesStay DEF Committed, Pending
  <2>3. ASSUME NEW e \in batch[r], Send(e)
        PROVE  UNCHANGED fateOf
    BY <2>1, <2>3, SendOfUnsentStays
  <2> QED BY <1>6, <2>2, <2>3 DEF PublishRaises, RelayCrash, SendRaises
<1> QED BY <1>1, <1>2, <1>3, <1>4, <1>5, <1>6 DEF OutboxNext

\* The write of an event a process holds.
LEMMA WriteImplements ==
  ASSUME IInv, FateInv, FateInv', NEW c \in Consumers, pc[c] \notin {"down", "idle"},
         Write(Held(c)), UNCHANGED <<topic, offset, rows>>
  PROVE  Abstract!Next
<1>0. PICK e : e = Held(c)
  OBVIOUS
<1>1. e \in Events /\ OnTopic(e)
  BY <1>0, Holding
<1>2. Committed(e)
  BY <1>1 DEF IInv, OriginInv
<1>3. e \notin processed /\ processed' = processed \cup {e}
  BY <1>0 DEF Write
<1>4. fateOf[e] \in {"accepted", "parked"} /\ fateOf'[e] = "applied"
  BY <1>1, <1>2, <1>3 DEF FateInv, Committed
<1>5. \A f \in Events \ {e} : (Committed(f)' <=> Committed(f)) /\ (Pending(f)' <=> Pending(f))
  BY DEF Committed, Pending
<1>6. Abstract!Moves(e, {"accepted", "parked"}, "applied")
  BY <1>1, <1>3, <1>4, <1>5, FateMoves
<1> QED BY <1>1, <1>6 DEF Abstract!Next, Abstract!Apply

LEMMA ConsumersImplement ==
  ASSUME IInv, FateInv, FateInv', ConsumerNext, UNCHANGED <<outboxVars, replayVars>>
  PROVE  Abstract!Next \/ UNCHANGED fateOf
<1>1. PICK c \in Consumers :
        /\ UNCHANGED topic
        /\ \/ ConsumerStep(c)
           \/ ConsumerFault(c)
  BY DEF ConsumerNext
<1>2. CASE UNCHANGED <<offset, processed>>
  BY <1>1, <1>2, FatesStay DEF Committed, Pending
<1>3. CASE CommitOffset(c)
  <2>1. offset' = cur[c] /\ processed' = processed /\ cur[c] = offset + 1
    BY <1>3, Holding DEF CommitOffset
  <2>2. offset \in Nat
    BY DEF IInv, TypeOK, ConsumerTypeOK
  <2>3. topic \in Seq(Events)
    BY DEF IInv, TypeOK, BrokerTypeOK
  <2>4. \A i \in DOMAIN topic : i > offset' => i > offset
    BY <2>1, <2>2, <2>3
  <2>5. \A e \in Events : Pending(e)' => Pending(e)
    BY <1>1, <2>4 DEF Pending
  <2> QED BY <2>1, <2>5, FatesPark DEF Committed
<1>4. CASE HandlerCommits(c) \/ HandlerRaises(c)
  BY <1>1, <1>2, <1>4, WriteImplements DEF HandlerCommits, HandlerRaises
<1>5. CASE ConsumerStep(c) /\ ~CommitOffset(c) /\ ~HandlerCommits(c)
  BY <1>2, <1>5 DEF ConsumerStep, Assign, Restart, Take, HandlerChecks, PoisonRaises,
                    DuplicateRaises, StaleCommit, DeadLetter
<1>6. CASE ConsumerFault(c) /\ ~HandlerRaises(c)
  BY <1>2, <1>6 DEF ConsumerFault, Rebalance, ConsumerCrash, DeadLetterRaises
<1> QED BY <1>1, <1>3, <1>4, <1>5, <1>6

LEMMA ReplayImplements ==
  ASSUME IInv, FateInv, FateInv', ReplayNext, UNCHANGED <<outboxVars, consumerVars>>
  PROVE  Abstract!Next \/ UNCHANGED fateOf
<1>1. CASE ReplaySend
  <2>0. PICK e : e = dlq[dlqOffset + 1]
    OBVIOUS
  <2>1. dlq \in Seq(Events) /\ dlqOffset \in Nat /\ dlqOffset < Len(dlq) /\ Send(e)
    BY <1>1, <2>0 DEF IInv, TypeOK, BrokerTypeOK, ReplayTypeOK, ReplaySend
  <2>2. e \in Events /\ DeadLettered(e)
    BY <2>0, <2>1 DEF DeadLettered
  <2>3. Committed(e)
    BY <2>2 DEF IInv, OriginInv
  <2>4. Pending(e)' /\ \A f \in Events \ {e} : Pending(f)' <=> Pending(f)
    BY <2>1, <2>2, AppendPending
  <2>5. CASE e \in processed \/ Pending(e)
    <3>1. \A f \in Events : f # e \/ e \notin processed => (Pending(f)' <=> Pending(f))
      BY <2>4, <2>5
    <3>2. \A f \in Events : fateOf'[f] = fateOf[f]
      BY <2>4, <2>5, <3>1 DEF FateInv, Committed
    <3> QED BY <3>2 DEF fateOf
  <2>6. CASE e \notin processed /\ ~Pending(e)
    <3>1. fateOf[e] \in {"parked"} /\ fateOf'[e] = "accepted"
      BY <2>2, <2>3, <2>4, <2>6 DEF FateInv, Committed
    <3>2. \A f \in Events : Committed(f)' <=> Committed(f)
      BY DEF Committed
    <3>3. Abstract!Moves(e, {"parked"}, "accepted")
      BY <2>2, <2>4, <3>1, <3>2, FateMoves
    <3> QED BY <2>2, <3>3 DEF Abstract!Next, Abstract!Resume
  <2> QED BY <2>5, <2>6
<1>2. CASE ReplayCommit \/ ReplayInterrupted
  BY <1>2, FatesStay DEF ReplayCommit, ReplayInterrupted, Committed, Pending
<1> QED BY <1>1, <1>2 DEF ReplayNext

\* The producer's commit, the consumer's write, the giving up and the operator's
\* replay are the only things that move an event's fate, and they move it as
\* ReliableDelivery says: applied exactly once or parked, never forgotten.
THEOREM PipelineImplementsDelivery == Spec => DeliversReliably
<1>1. Init => Abstract!Init
  <2> SUFFICES ASSUME Init PROVE Abstract!Init
    OBVIOUS
  <2>1. \A e \in Events : ~Committed(e)
    BY DEF Init, OutboxInit, Committed
  <2>2. \A e \in Events : fateOf[e] = "unknown"
    BY <2>1, FateIs, InitEstablishesInv DEF FateInv
  <2> QED BY <2>2 DEF Abstract!Init, fateOf
<1>2. IInv /\ IInv' /\ [Next]_vars => [Abstract!Next]_fateOf
  <2> SUFFICES ASSUME IInv, IInv', [Next]_vars
               PROVE  Abstract!Next \/ UNCHANGED fateOf
    OBVIOUS
  <2>1. FateInv /\ FateInv'
    BY FateIs, PTL
  <2>2. CASE Next
    BY <2>1, <2>2, OutboxImplements, ConsumersImplement, ReplayImplements DEF Next
  <2>3. CASE UNCHANGED vars
    BY <2>1, <2>3, FatesStay DEF vars, Committed, Pending
  <2> QED BY <2>2, <2>3
<1> QED BY <1>1, <1>2, InvariantHolds, PTL DEF Spec, DeliversReliably, Abstract!Spec

-----------------------------------------------------------------------------
(* The retries absorb the faults.  A failed attempt takes a fault, but for   *)
(* one: the attempt that meets the primary key because another process has   *)
(* written the same event.  That other process, or this one, has lost the    *)
(* partition to a rebalance while it was busy, which was a fault of no       *)
(* attempt; and once the event is written, the next attempt finds it.        *)

Spent == MaxFaults - faults

Busy == {"checking", "writing", "deadLettering"}

\* The attempts of c at its message that have failed.
Failures(c) == IF pc[c] = "deadLettering" THEN MaxAttempts ELSE attempt[c] - 1

\* c may meet the primary key at its next commit.
Contested(c) ==
    \/ pc[c] = "writing" /\ Held(c) \in processed
    \/ /\ Held(c) \notin processed
       /\ owner # c \/ \E d \in Consumers \ {c} : pc[d] \in {"checking", "writing"}

\* What the message that c holds has taken of the faults.
Paid(c) ==
    /\ pc[c] \in Busy /\ Held(c) \notin Poison => Failures(c) <= Spent
    /\ pc[c] \in {"checking", "writing"} /\ Held(c) \notin Poison /\ Contested(c) =>
          Failures(c) < Spent
    /\ pc[c] \notin {"down", "idle"} /\ owner # c => Spent > 0

BudgetInv ==
    /\ \A c \in Consumers : Paid(c)
    /\ \A e \in Events \ Poison : DeadLettered(e) => MaxAttempts <= Spent

LEMMA BudgetTypes ==
  ASSUME IInv
  PROVE  /\ Spent \in Nat /\ faults \in Nat /\ MaxAttempts \in Nat \ {0}
         /\ \A c \in Consumers : attempt[c] \in 1..MaxAttempts /\ Failures(c) \in Nat
         /\ pc \in [Consumers -> Activity] /\ attempt \in [Consumers -> 1..MaxAttempts]
         /\ cur \in [Consumers -> Nat]
BY MaxFaultsAssumption, ConsumerAssumption
   DEF IInv, TypeOK, BrokerTypeOK, ConsumerTypeOK, Spent, Failures

\* A fault pays for everyone it did not hit.
LEMMA FaultPays ==
  ASSUME IInv, BudgetInv, Fault, NEW c \in Consumers,
         UNCHANGED topic, pc'[c] = pc[c], cur'[c] = cur[c], attempt'[c] = attempt[c]
  PROVE  Paid(c)'
<1>1. Spent \in Nat /\ Failures(c) \in Nat
  BY BudgetTypes
<1>2. Spent' = Spent + 1
  BY BudgetTypes, MaxFaultsAssumption DEF Fault, Spent
<1>3. Failures(c)' = Failures(c)
  BY DEF Failures
<1>4. Held(c)' = Held(c)
  BY DEF Held
<1>5. pc[c] \in Busy /\ Held(c) \notin Poison => Failures(c) <= Spent
  BY DEF BudgetInv, Paid
<1>6. /\ Spent' > 0
      /\ pc'[c] \in Busy /\ Held(c)' \notin Poison => Failures(c)' < Spent'
  BY <1>1, <1>2, <1>3, <1>4, <1>5
<1> QED BY <1>1, <1>2, <1>3, <1>6 DEF Paid, Busy

\* A process that does not move, while another one does without a fault.
LEMMA OtherPays ==
  ASSUME IInv, BudgetInv, NEW c \in Consumers, NEW d \in Consumers \ {c},
         UNCHANGED <<topic, faults>>, pc'[d] = pc[d], cur'[d] = cur[d], attempt'[d] = attempt[d],
         owner' # owner => owner' = c \/ (owner = c /\ owner' = NoOne),
         owner' = c /\ owner # c => owner = NoOne,
         pc'[c] \in {"checking", "writing"} => pc[c] \in {"checking", "writing"} \/ owner = c,
         \A b \in Consumers \ {c} : pc'[b] = pc[b],
         processed' = processed \/ (pc[c] = "writing" /\ processed' = processed \cup {Held(c)})
  PROVE  Paid(d)'
<1>1. Spent' = Spent /\ Failures(d)' = Failures(d) /\ Held(d)' = Held(d)
  BY DEF Spent, Failures, Held
<1>2. owner' # d => owner # d
  BY ConsumerAssumption
<1>3. Contested(d)' /\ pc[d] \in {"checking", "writing"} => Contested(d)
  BY <1>1, <1>2 DEF Contested
<1> QED BY <1>1, <1>2, <1>3 DEF BudgetInv, Paid

\* The next attempt after one that failed for d more of the faults.
LEMMA RaisesPays ==
  ASSUME IInv, BudgetInv, NEW c \in Consumers, pc[c] \in {"checking", "writing"}, Raises(c),
         UNCHANGED <<topic, cur>>, Spent' \in Nat, Spent <= Spent',
         Held(c) \notin Poison => Failures(c) < Spent',
         Held(c) \notin Poison /\ pc'[c] = "checking" /\ Contested(c)' => Failures(c) + 1 < Spent',
         owner # c => Spent' > 0
  PROVE  Paid(c)'
<1>1. /\ attempt[c] \in 1..MaxAttempts /\ MaxAttempts \in Nat \ {0}
      /\ pc \in [Consumers -> Activity] /\ attempt \in [Consumers -> 1..MaxAttempts]
  BY BudgetTypes
<1>2. Held(c)' = Held(c) /\ Failures(c) = attempt[c] - 1
  BY DEF Held, Failures
<1>3. CASE attempt[c] < MaxAttempts
  <2>1. pc'[c] = "checking" /\ attempt'[c] = attempt[c] + 1 /\ owner' = owner
    BY <1>1, <1>3 DEF Raises, Goto
  <2>2. Failures(c)' = Failures(c) + 1
    BY <1>1, <1>2, <2>1 DEF Failures
  <2> QED BY <1>1, <1>2, <2>1, <2>2 DEF Paid
<1>4. CASE attempt[c] = MaxAttempts /\ HasDlq
  <2>1. pc'[c] = "deadLettering" /\ owner' = owner
    BY <1>1, <1>4 DEF Raises, Goto
  <2>2. Failures(c)' = Failures(c) + 1
    BY <1>1, <1>2, <1>4, <2>1, ConsumerAssumption DEF Failures
  <2> QED BY <1>1, <1>2, <2>1, <2>2 DEF Paid
<1>5. CASE attempt[c] = MaxAttempts /\ ~HasDlq
  <2>1. pc'[c] = "down"
    BY <1>1, <1>5 DEF Raises, Dies, Goto
  <2> QED BY <2>1 DEF Paid, Busy
<1> QED BY <1>1, <1>3, <1>4, <1>5

\* A process that moves without a fault.
LEMMA StepPays ==
  ASSUME IInv, BudgetInv, NEW c \in Consumers, ConsumerStep(c), UNCHANGED <<topic, faults>>
  PROVE  Paid(c)'
<1>1. /\ Spent \in Nat /\ attempt[c] \in 1..MaxAttempts /\ MaxAttempts \in Nat \ {0}
      /\ pc \in [Consumers -> Activity] /\ attempt \in [Consumers -> 1..MaxAttempts]
      /\ cur \in [Consumers -> Nat] /\ Failures(c) \in Nat
  BY BudgetTypes
<1>2. Spent' = Spent /\ Paid(c)
  BY DEF Spent, BudgetInv
<1>3. CASE Assign(c) \/ Restart(c) \/ CommitOffset(c) \/ StaleCommit(c)
  <2>1. pc'[c] \in {"down", "idle"}
    BY <1>1, <1>3 DEF Assign, Restart, CommitOffset, StaleCommit, Goto
  <2> QED BY <2>1 DEF Paid, Busy
<1>4. CASE Take(c)
  <2>1. /\ pc'[c] = "checking" /\ attempt'[c] = 1 /\ owner = c
        /\ UNCHANGED <<owner, processed>> /\ \A d \in Consumers \ {c} : pc'[d] = pc[d]
    BY <1>1, <1>4 DEF Take, Goto
  <2>2. Failures(c)' = 0
    BY <2>1 DEF Failures
  <2>3. Contested(c)' => Spent > 0
    <3>1. SUFFICES ASSUME NEW d \in Consumers \ {c}, pc[d] \in {"checking", "writing"}
                   PROVE  Spent > 0
      BY <2>1 DEF Contested
    <3> QED BY <2>1, <3>1 DEF BudgetInv, Paid
  <2> QED BY <1>1, <1>2, <2>1, <2>2, <2>3 DEF Paid
<1>5. CASE HandlerChecks(c)
  <2>1. /\ pc[c] = "checking" /\ UNCHANGED <<owner, cur, attempt, processed>>
        /\ pc'[c] = IF Held(c) \in processed THEN "handled" ELSE "writing"
        /\ \A d \in Consumers \ {c} : pc'[d] = pc[d]
    BY <1>1, <1>5 DEF HandlerChecks, Goto
  <2>2. Held(c)' = Held(c)
    BY <2>1 DEF Held
  <2>3. CASE Held(c) \in processed
    BY <1>2, <2>1, <2>3 DEF Paid, Busy
  <2>4. CASE Held(c) \notin processed
    <3>1. Failures(c)' = Failures(c) /\ (Contested(c)' => Contested(c))
      BY <2>1, <2>2, <2>4 DEF Failures, Contested
    <3> QED BY <1>2, <2>1, <2>2, <2>4, <3>1 DEF Paid, Busy
  <2> QED BY <2>3, <2>4
<1>6. CASE HandlerCommits(c) \/ DeadLetter(c)
  <2>1. pc[c] \notin {"down", "idle"} /\ pc'[c] = "handled" /\ owner' = owner
    BY <1>1, <1>6 DEF HandlerCommits, DeadLetter, Goto
  <2> QED BY <1>2, <2>1 DEF Paid, Busy
<1>7. CASE PoisonRaises(c)
  <2>1. pc[c] = "checking" /\ Held(c) \in Poison /\ Raises(c) /\ UNCHANGED cur
    BY <1>7 DEF PoisonRaises
  <2> QED BY <1>1, <1>2, <2>1, RaisesPays DEF Paid
<1>8. CASE DuplicateRaises(c)
  <2>1. /\ pc[c] = "writing" /\ Held(c) \in processed /\ Raises(c)
        /\ UNCHANGED <<cur, processed>>
    BY <1>8 DEF DuplicateRaises
  <2>2. Held(c)' \in processed' /\ pc'[c] # "writing"
    BY <1>1, <2>1 DEF Held, Raises, Goto, Dies
  <2>3. ~Contested(c)' /\ Contested(c)
    BY <2>1, <2>2 DEF Contested
  <2>4. Held(c) \notin Poison => Failures(c) < Spent'
    BY <1>2, <2>1, <2>3 DEF Paid
  <2>5. owner # c => Spent' > 0
    BY <1>2, <2>1 DEF Paid
  <2> QED BY <1>1, <1>2, <2>1, <2>3, <2>4, <2>5, RaisesPays
<1> QED BY <1>3, <1>4, <1>5, <1>6, <1>7, <1>8 DEF ConsumerStep

\* The process that a fault hits.
LEMMA HitPays ==
  ASSUME IInv, BudgetInv, NEW c \in Consumers, ConsumerFault(c), Fault, UNCHANGED topic
  PROVE  Paid(c)'
<1>1. /\ Spent \in Nat /\ attempt[c] \in 1..MaxAttempts /\ MaxAttempts \in Nat \ {0}
      /\ pc \in [Consumers -> Activity] /\ attempt \in [Consumers -> 1..MaxAttempts]
      /\ cur \in [Consumers -> Nat] /\ Failures(c) \in Nat
  BY BudgetTypes
<1>2. Spent' = Spent + 1 /\ Paid(c)
  BY BudgetTypes, MaxFaultsAssumption DEF Spent, Fault, BudgetInv
<1>3. CASE Rebalance(c) \/ ConsumerCrash(c) \/ DeadLetterRaises(c)
  <2>1. pc'[c] \in {"down", "idle"}
    BY <1>1, <1>3 DEF Rebalance, ConsumerCrash, DeadLetterRaises, Dies, Goto
  <2> QED BY <2>1 DEF Paid, Busy
<1>4. CASE HandlerRaises(c)
  <2>1. /\ pc[c] \in {"checking", "writing"} /\ Raises(c) /\ UNCHANGED cur
        /\ processed \subseteq processed'
    BY <1>4 DEF HandlerRaises, Write
  <2>2. Held(c) \notin Poison => Failures(c) < Spent'
    BY <1>1, <1>2, <2>1 DEF Paid, Busy
  <2>3. pc'[c] = "checking" /\ Contested(c)' => Contested(c)
    <3>1. /\ pc'[c] # "writing"
          /\ \A d \in Consumers \ {c} : pc'[d] = pc[d]
          /\ owner' # owner => pc'[c] = "down"
      BY <1>1, <2>1 DEF Raises, Goto, Dies
    <3>2. Held(c)' = Held(c)
      BY <2>1 DEF Held
    <3> QED BY <2>1, <3>1, <3>2 DEF Contested
  <2>4. Held(c) \notin Poison /\ pc'[c] = "checking" /\ Contested(c)' => Failures(c) + 1 < Spent'
    BY <1>1, <1>2, <2>1, <2>3 DEF Paid
  <2> QED BY <1>1, <1>2, <2>1, <2>2, <2>4, RaisesPays
<1> QED BY <1>3, <1>4 DEF ConsumerFault

\* What a step of c leaves of the others.
LEMMA MovesOne ==
  ASSUME IInv, NEW c \in Consumers, ConsumerStep(c) \/ ConsumerFault(c)
  PROVE  \A d \in Consumers \ {c} :
            pc'[d] = pc[d] /\ cur'[d] = cur[d] /\ attempt'[d] = attempt[d]
<1>1. /\ pc \in [Consumers -> Activity] /\ attempt \in [Consumers -> 1..MaxAttempts]
      /\ cur \in [Consumers -> Nat]
  BY BudgetTypes
<1> QED BY <1>1 DEF ConsumerStep, ConsumerFault, Assign, Restart, Take, HandlerChecks,
        HandlerCommits, PoisonRaises, DuplicateRaises, CommitOffset, StaleCommit, DeadLetter,
        Rebalance, ConsumerCrash, HandlerRaises, DeadLetterRaises, Raises, Dies, Goto

LEMMA StepIsQuiet ==
  ASSUME IInv, NEW c \in Consumers, ConsumerStep(c)
  PROVE  /\ owner' # owner => owner' = c \/ (owner = c /\ owner' = NoOne)
         /\ owner' = c /\ owner # c => owner = NoOne
         /\ pc'[c] \in {"checking", "writing"} => pc[c] \in {"checking", "writing"} \/ owner = c
         /\ \/ processed' = processed
            \/ pc[c] = "writing" /\ processed' = processed \cup {Held(c)}
<1>1. pc \in [Consumers -> Activity]
  BY BudgetTypes
<1> QED BY <1>1, ConsumerAssumption DEF ConsumerStep, Assign, Restart, Take, HandlerChecks,
        HandlerCommits, PoisonRaises, DuplicateRaises, CommitOffset, StaleCommit, DeadLetter,
        Write, Raises, Dies, Goto

\* A new dead letter has cost as many faults as there are attempts.
LEMMA ParksPaid ==
  ASSUME IInv, BudgetInv, NEW c \in Consumers, ConsumerStep(c) \/ ConsumerFault(c),
         NEW e \in Events \ Poison, DeadLettered(e)', Spent' \in Nat, Spent <= Spent'
  PROVE  MaxAttempts <= Spent'
<1>1. Spent \in Nat /\ MaxAttempts \in Nat /\ dlq \in Seq(Events)
  BY BudgetTypes DEF IInv, TypeOK, BrokerTypeOK
<1>2. CASE DeadLettered(e)
  BY <1>1, <1>2 DEF BudgetInv
<1>3. CASE ~DeadLettered(e)
  <2>1. pc[c] = "deadLettering" /\ dlq' = Append(dlq, Held(c))
    BY <1>3 DEF ConsumerStep, ConsumerFault, DeadLetter, DeadLetterRaises, DeadLettered
  <2>2. Held(c) \in Events
    BY <2>1, Holding
  <2>3. e = Held(c)
    BY <1>1, <1>3, <2>1, <2>2 DEF DeadLettered
  <2>4. MaxAttempts <= Spent
    BY <2>1, <2>3 DEF BudgetInv, Paid, Busy, Failures
  <2> QED BY <1>1, <2>4
<1> QED BY <1>2, <1>3

LEMMA ConsumersPay ==
  ASSUME IInv, BudgetInv, ConsumerNext
  PROVE  BudgetInv'
<1>1. PICK c \in Consumers :
        /\ UNCHANGED topic
        /\ \/ ConsumerStep(c) /\ UNCHANGED faults
           \/ ConsumerFault(c) /\ Fault
  BY DEF ConsumerNext
<1>2. Spent \in Nat /\ Spent' \in Nat /\ Spent <= Spent'
  BY <1>1, BudgetTypes, MaxFaultsAssumption DEF Spent, Fault
<1>3. \A e \in Events \ Poison : DeadLettered(e)' => MaxAttempts <= Spent'
  BY <1>1, <1>2, ParksPaid
<1>4. CASE ConsumerStep(c) /\ UNCHANGED faults
  <2>1. Paid(c)'
    BY <1>1, <1>4, StepPays
  <2>2. ASSUME NEW d \in Consumers \ {c}
        PROVE  Paid(d)'
    BY <1>1, <1>4, MovesOne, StepIsQuiet, OtherPays
  <2> QED BY <1>3, <2>1, <2>2 DEF BudgetInv
<1>5. CASE ConsumerFault(c) /\ Fault
  <2>1. Paid(c)'
    BY <1>1, <1>5, HitPays
  <2>2. ASSUME NEW d \in Consumers \ {c}
        PROVE  Paid(d)'
    BY <1>1, <1>5, MovesOne, FaultPays
  <2> QED BY <1>3, <2>1, <2>2 DEF BudgetInv
<1> QED BY <1>1, <1>4, <1>5

\* A step of the others: the topic may grow, a fault may happen.
LEMMA RestPays ==
  ASSUME IInv, BudgetInv, UNCHANGED <<consumerVars, dlq>>, faults' \in 0..MaxFaults, faults' <= faults,
         \A i \in DOMAIN topic : topic'[i] = topic[i]
  PROVE  BudgetInv'
<1>1. Spent \in Nat /\ Spent' \in Nat /\ Spent <= Spent' /\ MaxAttempts \in Nat
  <2>1. faults \in 0..MaxFaults /\ MaxFaults \in Nat /\ MaxAttempts \in Nat
    BY MaxFaultsAssumption, ConsumerAssumption DEF IInv, TypeOK, BrokerTypeOK
  <2>2. Spent = MaxFaults - faults
    BY DEF Spent
  <2>3. Spent' = MaxFaults - faults'
    BY DEF Spent
  <2>4. \A m, f, g \in Nat : f <= m /\ g <= f => m - f \in Nat /\ m - g \in Nat /\ m - f <= m - g
    OBVIOUS
  <2>5. faults \in Nat /\ faults' \in Nat /\ faults <= MaxFaults /\ faults' <= faults
    BY <2>1
  <2> HIDE DEF Spent
  <2> QED BY <2>1, <2>2, <2>3, <2>4, <2>5
<1>2. ASSUME NEW c \in Consumers
      PROVE  Paid(c)'
  <2>1. Failures(c)' = Failures(c) /\ Failures(c) \in Nat
    BY BudgetTypes DEF Failures
  <2>2. pc[c] \notin {"down", "idle"} => Held(c)' = Held(c)
    BY DEF IInv, PositionInv, Held
  <2>3. pc[c] \in {"checking", "writing"} /\ Contested(c)' => Contested(c)
    BY <2>2 DEF Contested
  <2>4. Paid(c)
    BY DEF BudgetInv
  <2> QED BY <1>1, <2>1, <2>2, <2>3, <2>4 DEF Paid, Busy
<1>3. ASSUME NEW e \in Events \ Poison, DeadLettered(e)'
      PROVE  MaxAttempts <= Spent'
  <2>1. MaxAttempts <= Spent
    BY <1>3 DEF DeadLettered, BudgetInv
  <2> QED BY <1>1, <2>1
<1> QED BY <1>2, <1>3 DEF BudgetInv

\* What the relays and the replay do to the logs.
LEMMA RestGrows ==
  ASSUME IInv, \/ OutboxNext /\ UNCHANGED <<consumerVars, replayVars>>
               \/ ReplayNext /\ UNCHANGED <<outboxVars, consumerVars>>
               \/ UNCHANGED vars
  PROVE  /\ UNCHANGED <<consumerVars, dlq>> /\ faults' \in 0..MaxFaults /\ faults' <= faults
         /\ \A i \in DOMAIN topic : topic'[i] = topic[i]
<1>1. topic \in Seq(Events) /\ dlq \in Seq(Events) /\ faults \in 0..MaxFaults /\ MaxFaults \in Nat
  BY MaxFaultsAssumption DEF IInv, TypeOK, BrokerTypeOK
<1>2. ASSUME NEW e \in Events, topic' = Append(topic, e)
      PROVE  \A i \in DOMAIN topic : topic'[i] = topic[i]
  BY <1>1, <1>2, AppendGrows
<1>3. ASSUME Fault
      PROVE  faults' \in 0..MaxFaults /\ faults' <= faults
  BY <1>1, <1>3 DEF Fault
<1>4. CASE OutboxNext /\ UNCHANGED <<consumerVars, replayVars>>
  <2>1. ASSUME NEW r \in Relays, Publish(r), UNCHANGED <<dlq, faults>>
        PROVE  faults' <= faults /\ \E e \in Events : topic' = Append(topic, e)
    BY <1>1, <2>1 DEF Publish, Send, IInv, TypeOK, OutboxTypeOK
  <2>2. ASSUME NEW r \in Relays, PublishRaises(r) \/ RelayCrash(r), Fault, UNCHANGED dlq
        PROVE  UNCHANGED topic \/ \E e \in Events : topic' = Append(topic, e)
    BY <2>2 DEF PublishRaises, RelayCrash, SendRaises, Send, IInv, TypeOK, OutboxTypeOK
  <2> QED BY <1>1, <1>2, <1>3, <1>4, <2>1, <2>2 DEF OutboxNext
<1>5. CASE ReplayNext /\ UNCHANGED <<outboxVars, consumerVars>>
  <2>1. ASSUME ReplaySend
        PROVE  \E e \in Events : topic' = Append(topic, e)
    <3>1. dlqOffset + 1 \in DOMAIN dlq
      BY <1>1, <2>1 DEF ReplaySend, IInv, TypeOK, ReplayTypeOK
    <3> QED BY <1>1, <2>1, <3>1 DEF ReplaySend, Send
  <2> QED BY <1>1, <1>2, <1>3, <1>5, <2>1 DEF ReplayNext, ReplayCommit, ReplayInterrupted
<1>6. CASE UNCHANGED vars
  BY <1>1, <1>6 DEF vars
<1> QED BY <1>4, <1>5, <1>6

\* For any number of consumers, attempts and faults: an event that can be handled is dead-lettered
\* only when as many faults have happened as it has attempts (consumer.py: _dispatch).
THEOREM RetriesAbsorb == Spec => []RetriesAbsorbFaults
<1>1. Init => BudgetInv
  BY DEF Init, BrokerInit, ConsumerInit, BudgetInv, Paid, Busy, DeadLettered
<1>2. IInv /\ BudgetInv /\ [Next]_vars => BudgetInv'
  <2> SUFFICES ASSUME IInv, BudgetInv, [Next]_vars PROVE BudgetInv'
    OBVIOUS
  <2>1. CASE ConsumerNext
    BY <2>1, ConsumersPay
  <2>2. CASE OutboxNext /\ UNCHANGED <<consumerVars, replayVars>>
    BY <2>2, RestGrows, RestPays
  <2>3. CASE ReplayNext /\ UNCHANGED <<outboxVars, consumerVars>>
    BY <2>3, RestGrows, RestPays
  <2>4. CASE UNCHANGED vars
    BY <2>4, RestGrows, RestPays
  <2> QED BY <2>1, <2>2, <2>3, <2>4 DEF Next
<1>3. IInv /\ BudgetInv => RetriesAbsorbFaults
  <2> SUFFICES ASSUME IInv, BudgetInv,
                      NEW e \in Events \ Poison, MaxFaults - faults < MaxAttempts, DeadLettered(e)
               PROVE  FALSE
    BY DEF RetriesAbsorbFaults
  <2>1. faults \in 0..MaxFaults /\ MaxFaults \in Nat /\ MaxAttempts \in Nat
    BY MaxFaultsAssumption, ConsumerAssumption DEF IInv, TypeOK, BrokerTypeOK
  <2>2. MaxAttempts <= MaxFaults - faults
    BY DEF BudgetInv, Spent
  <2> QED BY <2>1, <2>2
<1> QED BY <1>1, <1>2, <1>3, InvariantHolds, PTL DEF Spec
=============================================================================
