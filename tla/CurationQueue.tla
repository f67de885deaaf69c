---------------------------- MODULE CurationQueue ----------------------------
(***************************************************************************)
(* The curation queue in the browsers of the operators (apps/curation-ui): *)
(* the pages loaded so far, the page being fetched, and the decisions in   *)
(* flight.  A decision takes its item off the queue at once and is settled *)
(* in the background; if it fails, the queue becomes what it was at the    *)
(* click.  A page that arrives is added to the pages there were when it    *)
(* was asked for.                                                          *)
(*                                                                         *)
(* Products are numbered in the order of their links' ids, so that a page  *)
(* of the queue is a page of products.                                     *)
(***************************************************************************)
EXTENDS Paging, Sequences

CONSTANTS Operators,
          Products,
          Tasks,      \* bound: decisions in flight
          MaxWait     \* seconds a browser waits at most before it asks again

ASSUME QueueAssumption ==
    /\ Products \subseteq Nat \ {0}
    /\ IsFiniteSet(Products)
    /\ MaxWait \in Nat \ {0}

VARIABLES queue,        \* queue[o]: the items o sees and the cursor of the next page
          fetch,        \* fetch[o]: the page that is coming, and the queue it is for
          task,         \* task[t]: a decision in flight
          loaded,       \* history: items that came with some page of o
          overlapped    \* history: o has clicked, or asked for a page, with a
                        \*          decision still in flight

queueVars == <<queue, fetch, task, loaded, overlapped>>

Actions == {"confirm", "reject", "create_new"}

Queues == [items : SUBSET Products, cursor : Products \cup {Start, End}]

NotFetching == [base |-> "none"]

Idle == [stage |-> "idle"]

\* stage: about to be sent (again), waiting out a rate limit, or answered.
Decisions ==
    [stage : {"send", "resend", "answered"}, by : Operators, product : Products,
     action : Actions, prev : Queues, wake : Nat, crowded : BOOLEAN,
     answer : {"none", "ok", "conflict", "not_found", "limited", "bad_gateway"}]

QueueTypeOK ==
    /\ queue \in [Operators -> Queues]
    /\ fetch \in [Operators -> [base : Queues, page : Queues] \cup {NotFetching}]
    /\ task \in [Tasks -> Decisions \cup {Idle}]
    /\ loaded \in [Operators -> SUBSET Products]
    /\ overlapped \in [Operators -> BOOLEAN]

QueueInit ==
    /\ queue = [o \in Operators |-> [items |-> {}, cursor |-> Start]]
    /\ fetch = [o \in Operators |-> NotFetching]
    /\ task = [t \in Tasks |-> Idle]
    /\ loaded = [o \in Operators |-> {}]
    /\ overlapped = [o \in Operators |-> FALSE]

-----------------------------------------------------------------------------
InFlight(o) == {t \in Tasks : task[t] # Idle /\ task[t].by = o}

Overlap(o) == overlapped' = [overlapped EXCEPT ![o] = @ \/ InFlight(o) # {}]

\* The next page is asked for, and this is what the service answers.
AskPage(o, page) ==
    /\ fetch[o] = NotFetching
    /\ queue[o].cursor # End
    /\ fetch' = [fetch EXCEPT ![o] =
          [base |-> queue[o], page |-> [items |-> page.items, cursor |-> page.next]]]
    /\ Overlap(o)
    /\ UNCHANGED <<queue, loaded>>

PageArrives(o) ==
    /\ fetch[o] # NotFetching
    /\ queue' = [queue EXCEPT ![o] =
          [items |-> fetch[o].base.items \cup fetch[o].page.items,
           cursor |-> fetch[o].page.cursor]]
    /\ loaded' = [loaded EXCEPT ![o] = @ \cup fetch[o].page.items]
    /\ fetch' = [fetch EXCEPT ![o] = NotFetching]
    /\ UNCHANGED <<task, overlapped>>

\* useDecide and useCreateNew up to the request: a page on its way is given up, the
\* queue is remembered, and the item leaves it.
Click(o, t, p, action) ==
    /\ task[t] = Idle
    /\ p \in queue[o].items
    /\ task' = [task EXCEPT ![t] =
          [stage |-> "send", by |-> o, product |-> p, action |-> action,
           prev |-> queue[o], wake |-> 0, crowded |-> FALSE, answer |-> "none"]]
    /\ queue' = [queue EXCEPT ![o].items = @ \ {p}]
    /\ fetch' = [fetch EXCEPT ![o] = NotFetching]
    /\ Overlap(o)
    /\ UNCHANGED loaded

\* Mutant of Gone: an item whose request was turned away is taken for decided.
GoneIfRefused(action, answer) == answer # "bad_gateway"

\* The answers after which the item stays away.
Gone(action, answer) ==
    \/ answer = "ok"
    \/ action # "create_new" /\ answer \in {"conflict", "not_found"}

\* The answer is there: the item stays away, or the queue is put back.
Settle(t) ==
    /\ task[t] # Idle
    /\ task[t].stage = "answered"
    /\ queue' = IF Gone(task[t].action, task[t].answer)
                THEN queue ELSE [queue EXCEPT ![task[t].by] = task[t].prev]
    /\ task' = [task EXCEPT ![t] = Idle]
    /\ UNCHANGED <<fetch, loaded, overlapped>>

-----------------------------------------------------------------------------
\* http.ts: when a limited request is sent again.
Wake(time, hint) == time + Min({hint, MaxWait})

Answer(t, answer) ==
    task' = [task EXCEPT ![t].stage = "answered", ![t].answer = answer]

\* The first 429 is waited out.
Postpone(t, until) ==
    task' = [task EXCEPT ![t].stage = "resend", ![t].wake = until, ![t].crowded = FALSE]
=============================================================================
