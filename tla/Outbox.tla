------------------------------- MODULE Outbox -------------------------------
(***************************************************************************)
(* The transactional outbox of a producing service and the relays that     *)
(* drain it (libs/persistence: outbox.py, relay.py).                       *)
(*                                                                         *)
(* A business transaction stages an event row and commits or rolls back.   *)
(* A relay, in one transaction, locks the oldest unsent rows (FOR UPDATE   *)
(* SKIP LOCKED), publishes them one by one, marks them sent and commits.   *)
(* Whatever ends the transaction early leaves the rows unsent, and the     *)
(* published ones are published again by a later drain.                    *)
(***************************************************************************)
EXTENDS Broker, FiniteSets

CONSTANTS Relays,     \* relay processes draining the same outbox table
          BatchSize   \* the limit of one drain

ASSUME BatchSizeAssumption == BatchSize \in Nat \ {0}

VARIABLES clock,      \* the time at which the latest row was stamped
          rows,       \* rows[e]: the state of e's row in the outbox table
          createdAt,  \* createdAt[e]: the created_at stamp of e's row, 0 for none
          batch,      \* batch[r]: the rows r's open transaction holds locked
          published,  \* published[r]: those of them r has published so far
          sees        \* history: sees[e] had been committed when e was staged

outboxVars == <<clock, rows, createdAt, batch, published, sees>>

RowState == {"absent", "staged", "unsent", "sent", "discarded"}

OutboxTypeOK ==
    /\ clock \in Nat
    /\ rows \in [Events -> RowState]
    /\ createdAt \in [Events -> Nat]
    /\ batch \in [Relays -> SUBSET Events]
    /\ published \in [Relays -> SUBSET Events]
    /\ sees \in [Events -> SUBSET Events]

OutboxInit ==
    /\ clock = 0
    /\ rows = [e \in Events |-> "absent"]
    /\ createdAt = [e \in Events |-> 0]
    /\ batch = [r \in Relays |-> {}]
    /\ published = [r \in Relays |-> {}]
    /\ sees = [e \in Events |-> {}]

Committed(e) == rows[e] \in {"unsent", "sent"}

-----------------------------------------------------------------------------
\* The business transaction flushes its outbox row, stamped with the time of
\* the flush; nobody else sees the row yet.
StageEvent(e) ==
    /\ rows[e] = "absent"
    /\ rows' = [rows EXCEPT ![e] = "staged"]
    /\ clock' = clock + 1
    /\ createdAt' = [createdAt EXCEPT ![e] = clock']
    /\ sees' = [sees EXCEPT ![e] = {f \in Events : Committed(f)}]
    /\ UNCHANGED <<batch, published>>

\* The business transaction commits: change and event become visible together.
CommitEvent(e) ==
    /\ rows[e] = "staged"
    /\ rows' = [rows EXCEPT ![e] = "unsent"]
    /\ UNCHANGED <<clock, createdAt, batch, published, sees>>

\* The business transaction rolls back, and the event with it.
RollbackEvent(e) ==
    /\ rows[e] = "staged"
    /\ rows' = [rows EXCEPT ![e] = "discarded"]
    /\ UNCHANGED <<clock, createdAt, batch, published, sees>>

-----------------------------------------------------------------------------
\* Mutants of Available: the select without SKIP LOCKED; rows seen before commit.
AvailableLocked == {e \in Events : rows[e] = "unsent"}

AvailableDirty ==
    {e \in Events : rows[e] \in {"staged", "unsent"} /\ \A r \in Relays : e \notin batch[r]}

\* The unsent rows no other relay holds locked.
Available == {e \in Events : rows[e] = "unsent" /\ \A r \in Relays : e \notin batch[r]}

\* The n rows of S with the smallest created_at.
Oldest(S, n) ==
    {e \in S : Cardinality({f \in S : createdAt[f] < createdAt[e]}) < n}

\* drain opens its transaction and locks a batch.  (An empty fetch changes
\* nothing: the worker polls again after its idle delay.)
FetchUnsent(r) ==
    /\ batch[r] = {}
    /\ Available # {}
    /\ batch' = [batch EXCEPT ![r] = Oldest(Available, BatchSize)]
    /\ UNCHANGED <<clock, rows, createdAt, published, sees>>

\* Mutant of IsNext: the loop takes the rows in any order.
IsNextUnordered(r, e) == e \in batch[r] \ published[r]

\* The row the publish loop of r is at.
IsNext(r, e) ==
    /\ e \in batch[r] \ published[r]
    /\ \A f \in batch[r] \ published[r] : createdAt[e] <= createdAt[f]

\* One turn of the publish loop.
Publish(r) ==
    /\ \E e \in batch[r] :
          /\ IsNext(r, e)
          /\ Send(e)
          /\ published' = [published EXCEPT ![r] = @ \cup {e}]
    /\ UNCHANGED <<clock, rows, createdAt, batch, sees>>

\* r's transaction ends without a commit: the locks go, the rows stay unsent.
Abort(r) ==
    /\ batch' = [batch EXCEPT ![r] = {}]
    /\ published' = [published EXCEPT ![r] = {}]
    /\ UNCHANGED <<clock, rows, createdAt, sees>>

\* publish raises: the exception leaves the transaction block.
PublishRaises(r) ==
    /\ \E e \in batch[r] : IsNext(r, e) /\ SendRaises(e)
    /\ Abort(r)

\* The relay process dies, or the commit of its transaction fails.
RelayCrash(r) ==
    /\ batch[r] # {}
    /\ Abort(r)
    /\ UNCHANGED topic

\* Mutants of MarkSent: before everything is published; rows of later drains too.
MarkSentEarly(r) ==
    /\ batch[r] # {}
    /\ rows' = [e \in Events |-> IF e \in batch[r] THEN "sent" ELSE rows[e]]
    /\ batch' = [batch EXCEPT ![r] = {}]
    /\ published' = [published EXCEPT ![r] = {}]
    /\ UNCHANGED <<clock, createdAt, sees>>

MarkSentAll(r) ==
    /\ batch[r] # {}
    /\ published[r] = batch[r]
    /\ rows' = [e \in Events |-> IF rows[e] = "unsent" THEN "sent" ELSE rows[e]]
    /\ batch' = [batch EXCEPT ![r] = {}]
    /\ published' = [published EXCEPT ![r] = {}]
    /\ UNCHANGED <<clock, createdAt, sees>>

\* mark_sent and the commit of drain, once the whole batch is published.
MarkSent(r) ==
    /\ batch[r] # {}
    /\ published[r] = batch[r]
    /\ rows' = [e \in Events |-> IF e \in batch[r] THEN "sent" ELSE rows[e]]
    /\ batch' = [batch EXCEPT ![r] = {}]
    /\ published' = [published EXCEPT ![r] = {}]
    /\ UNCHANGED <<clock, createdAt, sees>>

-----------------------------------------------------------------------------
OutboxNext ==
    \/ \E e \in Events :
          (StageEvent(e) \/ CommitEvent(e) \/ RollbackEvent(e)) /\ UNCHANGED brokerVars
    \/ \E r \in Relays :
          \/ (FetchUnsent(r) \/ MarkSent(r)) /\ UNCHANGED brokerVars
          \/ Publish(r) /\ UNCHANGED <<dlq, faults>>
          \/ (PublishRaises(r) \/ RelayCrash(r)) /\ Fault /\ UNCHANGED dlq
=============================================================================
