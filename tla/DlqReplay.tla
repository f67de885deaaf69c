------------------------------ MODULE DlqReplay ------------------------------
(***************************************************************************)
(* The replay tool an operator runs on a dead-letter topic                 *)
(* (tools/replay_dlq.py): one record at a time is sent back to its         *)
(* original topic, then the tool's own offset is committed.  A dry run     *)
(* changes nothing and is not modelled.                                    *)
(***************************************************************************)
EXTENDS Broker

CONSTANT MaxReplays     \* bound: how many records the operator sends back

ASSUME MaxReplaysAssumption == MaxReplays \in Nat

VARIABLES dlqOffset,    \* the committed offset of the replay group
          resent,       \* 1 while a record is sent back and not yet committed
          replays       \* records the operator may still send back

replayVars == <<dlqOffset, resent, replays>>

ReplayTypeOK ==
    /\ dlqOffset \in Nat
    /\ resent \in {0, 1}
    /\ replays \in 0..MaxReplays

ReplayInit == dlqOffset = 0 /\ resent = 0 /\ replays = MaxReplays

\* Mutant of ReplaySend: the send is not awaited.
ReplaySendUnawaited ==
    /\ resent = 0
    /\ dlqOffset < Len(dlq)
    /\ replays > 0
    /\ SendRaises(dlq[dlqOffset + 1])
    /\ resent' = 1
    /\ replays' = replays - 1
    /\ UNCHANGED dlqOffset

\* The next record goes back to the topic it came from.
ReplaySend ==
    /\ resent = 0
    /\ dlqOffset < Len(dlq)
    /\ replays > 0
    /\ Send(dlq[dlqOffset + 1])
    /\ resent' = 1
    /\ replays' = replays - 1
    /\ UNCHANGED dlqOffset

\* ... and only then is it taken off.
ReplayCommit ==
    /\ resent = 1
    /\ dlqOffset' = dlqOffset + 1
    /\ resent' = 0
    /\ UNCHANGED <<topic, replays>>

\* The run is interrupted between the two.
ReplayInterrupted ==
    /\ resent = 1
    /\ resent' = 0
    /\ UNCHANGED <<topic, dlqOffset, replays>>

ReplayNext ==
    /\ UNCHANGED dlq
    /\ \/ (ReplaySend \/ ReplayCommit) /\ UNCHANGED faults
       \/ ReplayInterrupted /\ Fault
=============================================================================
