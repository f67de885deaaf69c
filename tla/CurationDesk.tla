---------------------------- MODULE CurationDesk ----------------------------
(***************************************************************************)
(* Operators at work: their browsers (CurationQueue), the gateway in front *)
(* of the services (Gateway) and the matching service behind it, which is  *)
(* its abstract specification (Curation): what two requests that overlap   *)
(* inside the service do to each other is the subject of Matching.         *)
(*                                                                         *)
(* Between the gateway and the service a request or its answer may be      *)
(* lost: the gateway answers 502 either way, and the service may have done *)
(* what it was asked.                                                      *)
(***************************************************************************)
EXTENDS CurationQueue, Gateway

CONSTANTS Gtins, NoGtin, MaxCanonicals,   \* of MatchingTables
          Strangers,   \* callers without a valid token
          PageSize,
          MaxTime,     \* bound: seconds
          MaxFaults    \* bound: requests or answers lost behind the gateway

ASSUME DeskAssumption ==
    /\ Operators \subseteq Principals
    /\ Strangers \cap Principals = {}
    /\ PageSize \in Nat \ {0}
    /\ MaxTime \in Nat
    /\ MaxFaults \in Nat

VARIABLES links, canon, emitted, log,   \* the matching service
          journal,                      \* its decision log, row by row
          faults                        \* requests still to be lost

Matching == INSTANCE Curation

matching == <<links, canon, emitted, log, journal>>

vars == <<queueVars, gatewayVars, matching, faults>>

\* The operator of a row, if the request names none.
Fallback == "operator"

DeskTypeOK ==
    /\ QueueTypeOK
    /\ BucketTypeOK
    /\ Matching!TablesTypeOK
    /\ journal \in Seq([action : Actions, product : Products, operator : Operators \cup {Fallback},
                       author : Operators])
    /\ faults \in 0..MaxFaults

Init ==
    /\ QueueInit
    /\ GatewayInit
    /\ Matching!Init
    /\ journal = <<>>
    /\ faults = MaxFaults

-----------------------------------------------------------------------------
(* The matching service.                                                   *)

Status(p) == links[p].status

\* list_pending_links.
Pending == {p \in Products : Status(p) = "pending_review"}

Discover(p) ==
    /\ Matching!Discover(p, NoGtin)
    /\ UNCHANGED <<queueVars, gatewayVars, journal, faults>>

\* Decided the other way, or in the same way before.
Conflicting(p, action) ==
    \/ Status(p) = "rejected" /\ action = "confirm"
    \/ Status(p) = "confirmed" /\ action \in {"reject", "create_new"}

Repeated(p, action) ==
    \/ Status(p) = "confirmed" /\ action = "confirm"
    \/ Status(p) = "rejected" /\ action = "reject"

\* What the service answers.
Reply(p, action) ==
    IF Status(p) = "none" THEN "not_found"
    ELSE IF Conflicting(p, action) THEN "conflict" ELSE "ok"

\* author is history: who clicked.
Record(p, action, operator, author) ==
    journal' = Append(journal,
        [action |-> action, product |-> p, operator |-> operator, author |-> author])

\* Mutant of Decide: whoever confirms a confirmed link is logged again.
DecideAgain(p, action, operator, author) ==
    \/ /\ Reply(p, action) # "ok" \/ Repeated(p, action)
       /\ IF Repeated(p, action) THEN Record(p, action, operator, author) ELSE UNCHANGED journal
       /\ UNCHANGED <<links, canon, emitted, log>>
    \/ /\ Reply(p, action) = "ok" /\ ~Repeated(p, action)
       /\ \/ action = "confirm" /\ Matching!Confirm(p)
          \/ action = "reject" /\ Matching!Reject(p)
          \/ action = "create_new" /\ Matching!CreateNew(p, NoGtin)
       /\ Record(p, action, operator, author)

\* The service handles a decision.
Decide(p, action, operator, author) ==
    \/ /\ Reply(p, action) # "ok" \/ Repeated(p, action)
       /\ UNCHANGED matching
    \/ /\ Reply(p, action) = "ok" /\ ~Repeated(p, action)
       /\ \/ action = "confirm" /\ Matching!Confirm(p)
          \/ action = "reject" /\ Matching!Reject(p)
          \/ action = "create_new" /\ Matching!CreateNew(p, NoGtin)
       /\ Record(p, action, operator, author)

-----------------------------------------------------------------------------
(* Requests.                                                               *)

\* The operation of the gateway a decision calls.
Operation(action) ==
    CASE action = "confirm"    -> "confirmCurationLink"
      [] action = "reject"     -> "rejectCurationLink"
      [] action = "create_new" -> "createNewCanonical"

OperatorOf(t) ==
    IF RouteOf[Operation(task[t].action)].operator THEN task[t].by ELSE Fallback

\* The tasks of o that wait are not alone with its bucket.
Crowd(o) ==
    task' = [t \in Tasks |->
        IF t \in InFlight(o) /\ task[t].stage = "resend"
        THEN [task[t] EXCEPT !.crowded = TRUE] ELSE task[t]]

\* The queue's next page is asked for; a page that is refused changes nothing here.
LoadPage(o) ==
    /\ Admit(o, "getCurationQueue")
    /\ AskPage(o, PageUp(Pending, queue[o].cursor, PageSize))
    /\ Crowd(o)
    /\ UNCHANGED <<matching, faults>>

ShowPage(o) ==
    /\ PageArrives(o)
    /\ UNCHANGED <<gatewayVars, matching, faults>>

Choose(o, t, p, action) ==
    /\ Click(o, t, p, action)
    /\ UNCHANGED <<gatewayVars, matching, faults>>

\* No request of a task is refused: its page came with the same scope.
\* t's request is on its way, for the first or the second time.
Sending(t) ==
    /\ task[t] # Idle
    /\ task[t].stage \in {"send", "resend"}
    /\ now >= task[t].wake

Others(t) == {u \in InFlight(task[t].by) : u # t /\ task[u].stage = "resend"}

\* t is answered; whoever waited for the same bucket has lost a token to it.
AnswerAndCrowd(t, answer) ==
    task' = [u \in Tasks |->
        IF u = t THEN [task[t] EXCEPT !.stage = "answered", !.answer = answer]
        ELSE IF u \in Others(t) THEN [task[u] EXCEPT !.crowded = TRUE]
        ELSE task[u]]

\* A 429 is waited out once.
SendLimited(t) ==
    /\ Sending(t)
    /\ Limit(task[t].by, Operation(task[t].action))
    /\ IF task[t].stage = "send"
       THEN Postpone(t, Wake(now, RetryAfter(task[t].by)))
       ELSE Answer(t, "limited")
    /\ UNCHANGED <<queue, fetch, loaded, overlapped, matching, faults>>

Send(t) ==
    /\ Sending(t)
    /\ Admit(task[t].by, Operation(task[t].action))
    /\ Decide(task[t].product, task[t].action, OperatorOf(t), task[t].by)
    /\ AnswerAndCrowd(t, Reply(task[t].product, task[t].action))
    /\ UNCHANGED <<queue, fetch, loaded, overlapped, faults>>

\* The service is not reached, or its answer does not come back.
SendLost(t) ==
    /\ faults > 0
    /\ faults' = faults - 1
    /\ Sending(t)
    /\ Admit(task[t].by, Operation(task[t].action))
    /\ \/ Decide(task[t].product, task[t].action, OperatorOf(t), task[t].by)
       \/ UNCHANGED matching
    /\ AnswerAndCrowd(t, "bad_gateway")
    /\ UNCHANGED <<queue, fetch, loaded, overlapped>>

SettleTask(t) ==
    /\ Settle(t)
    /\ UNCHANGED <<gatewayVars, matching, faults>>

\* Any other request: all it changes here is its principal's bucket, if that.
Call(p, op) ==
    /\ \/ Refuse(p, op) /\ UNCHANGED task
       \/ Limit(p, op) /\ UNCHANGED task
       \/ Admit(p, op) /\ Crowd(p)
    /\ UNCHANGED <<queue, fetch, loaded, overlapped, matching, faults>>

Tick ==
    /\ now < MaxTime
    /\ now' = now + 1
    /\ UNCHANGED <<buckets, queueVars, matching, faults>>

Next ==
    \/ \E p \in Products : Discover(p)
    \/ \E o \in Operators : LoadPage(o) \/ ShowPage(o)
    \/ \E o \in Operators, t \in Tasks, p \in Products, action \in Actions :
          Choose(o, t, p, action)
    \/ \E t \in Tasks :
          SendLimited(t) \/ Send(t) \/ SendLost(t) \/ SettleTask(t)
    \/ \E p \in Principals \cup Strangers, op \in Operations : Call(p, op)
    \/ Tick

Spec == Init /\ [][Next]_vars

-----------------------------------------------------------------------------
\* A link that waits for a decision stays within the reach of everyone who has
\* loaded it: it is in the queue, or its decision is in flight.  Not so once an
\* operator clicks, or loads a page, while a decision of his is in flight: what a
\* failed decision puts back, or a page is added to, is a queue of before
\* (use-decision.ts:8 guarantees the rollback).
NoItemIsLost ==
    \A o \in Operators : ~overlapped[o] =>
        \A p \in loaded[o] \cap Pending :
            p \in queue[o].items \/ \E t \in InFlight(o) : task[t].product = p

\* The rows of the journal about p.
Rows(p) == {i \in DOMAIN journal : journal[i].product = p}

\* The journal tells how a link came to be what it is: however often a decision is
\* sent again because its answer was lost, and whoever else decides on the link,
\* it is logged once, and twice only if it was rejected before it got a canonical
\* of its own (curation.py:115, 183: idempotent).
JournalTellsStatus ==
    \A p \in Products :
        /\ Status(p) = "confirmed" =>
              \E i \in Rows(p) :
                  \/ journal[i].action \in {"confirm", "create_new"} /\ Rows(p) = {i}
                  \/ /\ journal[i].action = "create_new"
                     /\ \E j \in Rows(p) :
                           j < i /\ journal[j].action = "reject" /\ Rows(p) = {j, i}
        /\ Status(p) = "rejected" =>
              \E i \in Rows(p) : journal[i].action = "reject" /\ Rows(p) = {i}
        /\ Status(p) \notin {"confirmed", "rejected"} => Rows(p) = {}

\* A row of the journal names the operator who took the decision, and his token
\* allows it (curation.py:42: the gateway vouches for the operator).
JournalNamesOperator ==
    \A i \in DOMAIN journal :
        /\ journal[i].operator = journal[i].author
        /\ "matching:curate" \in ScopesOf[journal[i].operator]

\* A browser that waits as long as it was told is served, unless the same principal
\* has sent something else meanwhile (http.ts:7, rate_limit.py:42).
PoliteRetryIsServed ==
    \A t \in Tasks :
        task[t] # Idle /\ task[t].answer = "limited" => task[t].crowded
=============================================================================
