-------------------------- MODULE CurationDeskProofs --------------------------
(***************************************************************************)
(* Proofs about CurationDesk, for any operators, products, rates and page  *)
(* size: no item is lost from a browser, the journal tells how every link  *)
(* came to be what it is and who decided it, and who waits as long as the  *)
(* gateway said is served.                                                 *)
(***************************************************************************)
EXTENDS CurationDesk, FiniteSetTheorems, WellFoundedInduction, TLAPS

\* Finite sets of numbers have a greatest element.
LEMMA MaxOfSet ==
  ASSUME NEW S, S \subseteq Int, IsFiniteSet(S), S # {}
  PROVE  Max(S) \in S /\ \A y \in S : Max(S) >= y
<1> DEFINE Top(U, x) == x \in U /\ \A y \in U : x >= y
           Bad(U) == U \subseteq S /\ U # {} /\ ~ \E x \in U : Top(U, x)
           T == {n \in Nat : \E U \in SUBSET S : Bad(U) /\ Cardinality(U) = n}
<1>1. T = {}
  <2> SUFFICES ASSUME T # {} PROVE FALSE
    OBVIOUS
  <2>1. PICK n \in T : \A m \in T : ~ (<<m, n>> \in OpToRel(<, Nat))
    <3>1. T \subseteq Nat
      OBVIOUS
    <3> HIDE DEF T
    <3> QED BY <3>1, NatLessThanWellFounded, WFMin
  <2>2. PICK U \in SUBSET S : Bad(U) /\ Cardinality(U) = n
    OBVIOUS
  <2>3. PICK x \in U : TRUE
    BY <2>2
  <2> DEFINE V == U \ {x}
  <2>4. IsFiniteSet(U) /\ IsFiniteSet(V)
    BY FS_Subset
  <2>5. Cardinality(V) = n - 1 /\ Cardinality(V) \in Nat
    BY <2>2, <2>3, <2>4, FS_RemoveElement, FS_CardinalityType
  <2>6. V # {}
    <3> SUFFICES ASSUME V = {} PROVE FALSE
      OBVIOUS
    <3>1. Top(U, x)
      OBVIOUS
    <3> QED BY <2>2, <2>3, <3>1
  <2>7. ~Bad(V)
    <3> SUFFICES ASSUME Bad(V) PROVE FALSE
      OBVIOUS
    <3>1. n - 1 \in T
      BY <2>5
    <3>2. n \in Nat /\ n - 1 \in Nat /\ n - 1 < n
      BY <2>5
    <3> HIDE DEF T
    <3> QED BY <2>1, <3>1, <3>2 DEF OpToRel
  <2>8. PICK m \in V : Top(V, m)
    BY <2>6, <2>7
  <2>9. Top(U, m) \/ Top(U, x)
    BY <2>3, <2>8
  <2> QED BY <2>2, <2>3, <2>8, <2>9
<1>2. Cardinality(S) \in Nat
  BY FS_CardinalityType
<1>3. \E x \in S : Top(S, x)
  BY <1>1, <1>2
<1> QED BY <1>3 DEF Max

\* The lesser and the greater of two numbers.
LEMMA MinOfTwo ==
  ASSUME NEW a \in Int, NEW b \in Int
  PROVE  Min({a, b}) = IF a <= b THEN a ELSE b
<1>1. \E x \in {a, b} : \A y \in {a, b} : x <= y
  OBVIOUS
<1>2. Min({a, b}) \in {a, b} /\ \A y \in {a, b} : Min({a, b}) <= y
  BY <1>1 DEF Min
<1> QED BY <1>2

LEMMA MaxOfTwo ==
  ASSUME NEW a \in Int, NEW b \in Int
  PROVE  Max({a, b}) = IF a <= b THEN b ELSE a
<1>1. \E x \in {a, b} : \A y \in {a, b} : x >= y
  OBVIOUS
<1>2. Max({a, b}) \in {a, b} /\ \A y \in {a, b} : Max({a, b}) >= y
  BY <1>1 DEF Max
<1> QED BY <1>2

-----------------------------------------------------------------------------
(* The gateway's buckets.                                                  *)

LEMMA BucketFacts ==
  ASSUME BucketTypeOK, NEW p \in Principals
  PROVE  /\ buckets \in [Principals -> [tokens : 0..Burst, last : Nat]]
         /\ buckets[p].tokens \in Nat /\ buckets[p].tokens <= Burst
         /\ buckets[p].last \in Nat /\ buckets[p].last <= now
         /\ now \in Nat /\ Rate \in Nat \ {0} /\ Cost \in Nat \ {0} /\ Burst \in Nat /\ Cost <= Burst
         /\ (now - buckets[p].last) * Rate \in Nat
<1>1. /\ buckets \in [Principals -> [tokens : 0..Burst, last : Nat]] /\ buckets[p].last <= now
      /\ now \in Nat /\ Rate \in Nat \ {0} /\ Cost \in Nat \ {0} /\ Burst \in Nat /\ Cost <= Burst
  BY GatewayAssumption DEF BucketTypeOK
<1>2. buckets[p].tokens \in 0..Burst /\ buckets[p].last \in Nat
  BY <1>1
<1>3. \A a, b, r \in Nat : b <= a => (a - b) * r \in Nat
  <2> SUFFICES ASSUME NEW a \in Nat, NEW b \in Nat, NEW r \in Nat, b <= a PROVE (a - b) * r \in Nat
    OBVIOUS
  <2> DEFINE d == a - b
  <2>1. d \in Nat
    OBVIOUS
  <2> HIDE DEF d
  <2>2. d * r \in Nat
    BY <2>1
  <2> QED BY <2>2 DEF d
<1> QED BY <1>1, <1>2, <1>3

\* What a bucket holds after the time since it was last seen.
LEMMA RefilledIs ==
  ASSUME BucketTypeOK, NEW p \in Principals
  PROVE  /\ Refilled(p) \in 0..Burst
         /\ Refilled(p) = IF Burst <= buckets[p].tokens + (now - buckets[p].last) * Rate
                          THEN Burst ELSE buckets[p].tokens + (now - buckets[p].last) * Rate
<1> DEFINE sum == buckets[p].tokens + (now - buckets[p].last) * Rate
<1>1. sum \in Nat /\ Burst \in Nat
  BY BucketFacts
<1> HIDE DEF sum
<1>2. Min({Burst, sum}) = IF Burst <= sum THEN Burst ELSE sum
  BY <1>1, MinOfTwo
<1>3. Min({Burst, sum}) \in 0..Burst
  BY <1>1, <1>2
<1> QED BY <1>2, <1>3 DEF sum, Refilled

\* A request that passes the scope check changes its principal's bucket, and nothing else.
LEMMA SpendIs ==
  ASSUME BucketTypeOK, NEW p \in Principals, Spend(p), UNCHANGED now
  PROVE  /\ BucketTypeOK'
         /\ \A q \in Principals \ {p} : buckets'[q] = buckets[q]
         /\ buckets'[p] = [tokens |-> IF Allowed(p) THEN Refilled(p) - Cost ELSE Refilled(p), last |-> now]
<1> DEFINE left == IF Allowed(p) THEN Refilled(p) - Cost ELSE Refilled(p)
           row == [tokens |-> left, last |-> now]
<1>1. Refilled(p) \in 0..Burst /\ Cost \in Nat /\ Burst \in Nat /\ now \in Nat
  BY RefilledIs, BucketFacts
<1>2. left \in 0..Burst
  BY <1>1 DEF Allowed
<1> HIDE DEF left
<1>3. row \in [tokens : 0..Burst, last : Nat] /\ row.last = now
  BY <1>1, <1>2
<1>4. buckets' = [buckets EXCEPT ![p] = row]
  BY DEF Spend, left
<1> HIDE DEF row
<1>5. buckets \in [Principals -> [tokens : 0..Burst, last : Nat]]
  BY DEF BucketTypeOK
<1>6. /\ buckets' \in [Principals -> [tokens : 0..Burst, last : Nat]] /\ buckets'[p] = row
      /\ \A q \in Principals \ {p} : buckets'[q] = buckets[q]
  BY <1>3, <1>4, <1>5
<1>7. \A q \in Principals : buckets'[q].last <= now'
  <2> SUFFICES ASSUME NEW q \in Principals PROVE buckets'[q].last <= now
    OBVIOUS
  <2>1. CASE q = p
    BY <1>1, <1>3, <1>6, <2>1
  <2>2. CASE q # p
    BY <1>6, <2>2, BucketFacts
  <2> QED BY <2>1, <2>2
<1> QED BY <1>1, <1>6, <1>7 DEF BucketTypeOK, row, left

-----------------------------------------------------------------------------
(* The tables of the matching service.                                     *)

Decided == {"confirmed", "rejected"}

\* A decision on p takes effect: what its link becomes, and the row that tells so.
TakesEffect(p, action, operator, author) ==
    /\ Status(p) \in {"auto", "pending_review", "rejected"}
    /\ Status(p) = "rejected" => action = "create_new"
    /\ links'[p].status = IF action = "reject" THEN "rejected" ELSE "confirmed"
    /\ \A q \in Products \ {p} : links'[q] = links[q]
    /\ Record(p, action, operator, author)

LEMMA LinkTypes ==
  ASSUME Matching!TablesTypeOK, NEW p \in Products
  PROVE  /\ Status(p) \in {"none", "auto", "pending_review", "confirmed", "rejected"}
         /\ Status(p) # "none" => links[p] \in Matching!Link /\ links[p].canonical \in 1..MaxCanonicals
         /\ links \in [Products -> Matching!Link \cup {Matching!NoLink}]
BY DEF Matching!TablesTypeOK, Matching!Link, Matching!NoLink, Matching!LinkStatus,
       Matching!Canonicals, Status

\* What a write of one link leaves well typed.
LEMMA LinkWritten ==
  ASSUME Matching!TablesTypeOK, NEW p \in Products, NEW row \in Matching!Link,
         links' = [links EXCEPT ![p] = row]
  PROVE  /\ links' \in [Products -> Matching!Link \cup {Matching!NoLink}]
         /\ Status(p)' = row.status
         /\ \A q \in Products \ {p} : links'[q] = links[q]
BY DEF Matching!TablesTypeOK, Status

LEMMA AnnounceTypes ==
  ASSUME Matching!TablesTypeOK, NEW p \in Products, NEW c \in Matching!Canonicals,
         Matching!Announce(p, c)
  PROVE  emitted' \in [Products -> Seq(Matching!Canonicals)]
BY DEF Matching!TablesTypeOK, Matching!Announce

LEMMA CreateTypes ==
  ASSUME Matching!TablesTypeOK, NEW c \in Matching!Canonicals, NEW status \in {"draft", "confirmed"},
         NEW g \in Gtins \cup {NoGtin}, Matching!CreateCanonical(c, status, g)
  PROVE  canon' \in [Matching!Canonicals -> Matching!CanonicalRow]
BY DEF Matching!TablesTypeOK, Matching!CreateCanonical, Matching!CanonicalRow

LEMMA ConfirmWrites ==
  ASSUME Matching!TablesTypeOK, NEW p \in Products, Matching!Confirm(p)
  PROVE  /\ Status(p) \in {"auto", "pending_review"} /\ Status(p)' = "confirmed"
         /\ \A q \in Products \ {p} : links'[q] = links[q]
         /\ Matching!TablesTypeOK'
<1> DEFINE c == links[p].canonical  row == [links[p] EXCEPT !.status = "confirmed"]
<1>1. Status(p) \in {"auto", "pending_review"} /\ Matching!WriteConfirm(p, c)
  BY DEF Matching!Confirm, Status
<1>2. links[p] \in Matching!Link /\ c \in Matching!Canonicals
  BY <1>1, LinkTypes DEF Matching!Canonicals
<1>3. row \in Matching!Link /\ row.status = "confirmed"
  BY <1>2 DEF Matching!Link, Matching!LinkStatus
<1>4. links' = [links EXCEPT ![p] = row]
  BY <1>1, LinkTypes DEF Matching!WriteConfirm
<1>5. canon' \in [Matching!Canonicals -> Matching!CanonicalRow]
  BY <1>1, <1>2 DEF Matching!WriteConfirm, Matching!TablesTypeOK, Matching!CanonicalRow
<1>6. log' \in SUBSET Matching!Decision
  BY <1>1, <1>2 DEF Matching!WriteConfirm, Matching!RecordDecision, Matching!TablesTypeOK, Matching!Decision
<1>7. emitted' \in [Products -> Seq(Matching!Canonicals)]
  BY <1>1, <1>2, AnnounceTypes DEF Matching!WriteConfirm
<1> HIDE DEF row
<1> QED BY <1>1, <1>3, <1>4, <1>5, <1>6, <1>7, LinkWritten DEF Matching!TablesTypeOK

LEMMA RejectWrites ==
  ASSUME Matching!TablesTypeOK, NEW p \in Products, Matching!Reject(p)
  PROVE  /\ Status(p) \in {"auto", "pending_review"} /\ Status(p)' = "rejected"
         /\ \A q \in Products \ {p} : links'[q] = links[q]
         /\ Matching!TablesTypeOK'
<1> DEFINE c == links[p].canonical  row == [links[p] EXCEPT !.status = "rejected"]
<1>1. Status(p) \in {"auto", "pending_review"} /\ Matching!WriteReject(p, c)
  BY DEF Matching!Reject, Status
<1>2. links[p] \in Matching!Link /\ c \in Matching!Canonicals
  BY <1>1, LinkTypes DEF Matching!Canonicals
<1>3. row \in Matching!Link /\ row.status = "rejected"
  BY <1>2 DEF Matching!Link, Matching!LinkStatus
<1>4. links' = [links EXCEPT ![p] = row]
  BY <1>1, LinkTypes DEF Matching!WriteReject
<1>5. log' \in SUBSET Matching!Decision
  BY <1>1, <1>2 DEF Matching!WriteReject, Matching!RecordDecision, Matching!TablesTypeOK, Matching!Decision
<1>6. UNCHANGED <<canon, emitted>>
  BY <1>1 DEF Matching!WriteReject
<1> HIDE DEF row
<1> QED BY <1>1, <1>3, <1>4, <1>5, <1>6, LinkWritten DEF Matching!TablesTypeOK

LEMMA CreateNewWrites ==
  ASSUME Matching!TablesTypeOK, NEW p \in Products, Matching!CreateNew(p, NoGtin)
  PROVE  /\ Status(p) \in {"auto", "pending_review", "rejected"} /\ Status(p)' = "confirmed"
         /\ \A q \in Products \ {p} : links'[q] = links[q]
         /\ Matching!TablesTypeOK'
<1>1. PICK c \in Matching!Canonicals :
        /\ Matching!CreateCanonical(c, "confirmed", NoGtin)
        /\ links' = [links EXCEPT ![p] = [canonical |-> c, status |-> "confirmed"]]
        /\ Matching!RecordDecision("create_new", p, c)
        /\ Matching!Announce(p, c)
  BY DEF Matching!CreateNew, Matching!WriteCreateNew
<1>2. Status(p) \in {"auto", "pending_review", "rejected"}
  BY LinkTypes DEF Matching!CreateNew, Matching!Linked, Status
<1> DEFINE row == [canonical |-> c, status |-> "confirmed"]
<1>3. row \in Matching!Link /\ row.status = "confirmed" /\ links' = [links EXCEPT ![p] = row]
  BY <1>1 DEF Matching!Link, Matching!LinkStatus
<1>4. log' \in SUBSET Matching!Decision
  BY <1>1 DEF Matching!RecordDecision, Matching!TablesTypeOK, Matching!Decision
<1>5. emitted' \in [Products -> Seq(Matching!Canonicals)]
  BY <1>1, AnnounceTypes
<1>6. canon' \in [Matching!Canonicals -> Matching!CanonicalRow]
  BY <1>1, CreateTypes
<1> HIDE DEF row
<1> QED BY <1>2, <1>3, <1>4, <1>5, <1>6, LinkWritten DEF Matching!TablesTypeOK

\* A product that was unknown is linked and waits for a decision.
LEMMA DiscoverWrites ==
  ASSUME Matching!TablesTypeOK, NEW p \in Products, Matching!Discover(p, NoGtin)
  PROVE  /\ Status(p) = "none" /\ Status(p)' = "pending_review"
         /\ \A q \in Products \ {p} : links'[q] = links[q]
         /\ Matching!TablesTypeOK'
<1>1. PICK candidate \in Matching!Canonicals \cup {Matching!NoCanonical} :
         Matching!InsertLink(p, NoGtin, candidate)
  BY DEF Matching!Discover
<1>2. PICK c \in Matching!Canonicals :
        /\ IF candidate = Matching!NoCanonical
           THEN Matching!CreateCanonical(c, "draft", NoGtin)
           ELSE c = candidate /\ UNCHANGED canon
        /\ links' = [links EXCEPT ![p] = [canonical |-> c, status |-> "pending_review"]]
        /\ UNCHANGED emitted
  BY <1>1 DEF Matching!InsertLink
<1>3. UNCHANGED log /\ Status(p) = "none"
  BY <1>1 DEF Matching!InsertLink, Matching!Linked, Status
<1> DEFINE row == [canonical |-> c, status |-> "pending_review"]
<1>4. row \in Matching!Link /\ row.status = "pending_review" /\ links' = [links EXCEPT ![p] = row]
  BY <1>2 DEF Matching!Link, Matching!LinkStatus
<1>5. canon' \in [Matching!Canonicals -> Matching!CanonicalRow]
  BY <1>2, CreateTypes DEF Matching!TablesTypeOK
<1> HIDE DEF row
<1> QED BY <1>2, <1>3, <1>4, <1>5, LinkWritten DEF Matching!TablesTypeOK

\* A decision changes nothing, or takes effect.
LEMMA DecideWrites ==
  ASSUME Matching!TablesTypeOK, NEW p \in Products, NEW action \in Actions, NEW operator, NEW author,
         Decide(p, action, operator, author)
  PROVE  /\ Matching!TablesTypeOK'
         /\ \/ UNCHANGED matching /\ (Reply(p, action) = "ok" => Status(p) \in Decided)
            \/ TakesEffect(p, action, operator, author)
<1>1. CASE UNCHANGED matching /\ (Reply(p, action) # "ok" \/ Repeated(p, action))
  BY <1>1 DEF matching, Matching!TablesTypeOK, Repeated, Decided
<1>2. ASSUME Record(p, action, operator, author), ~Conflicting(p, action), ~Repeated(p, action),
             \/ action = "confirm" /\ Matching!Confirm(p)
             \/ action = "reject" /\ Matching!Reject(p)
             \/ action = "create_new" /\ Matching!CreateNew(p, NoGtin)
      PROVE  Matching!TablesTypeOK' /\ TakesEffect(p, action, operator, author)
  <2>1. CASE action = "confirm" /\ Matching!Confirm(p)
    BY <1>2, <2>1, ConfirmWrites DEF TakesEffect, Status
  <2>2. CASE action = "reject" /\ Matching!Reject(p)
    BY <1>2, <2>2, RejectWrites DEF TakesEffect, Status
  <2>3. CASE action = "create_new" /\ Matching!CreateNew(p, NoGtin)
    BY <1>2, <2>3, CreateNewWrites DEF TakesEffect, Status
  <2> QED BY <1>2, <2>1, <2>2, <2>3
<1>3. Reply(p, action) = "ok" => ~Conflicting(p, action)
  BY DEF Reply
<1> QED BY <1>1, <1>2, <1>3 DEF Decide

-----------------------------------------------------------------------------
(* The browsers' queues.                                                   *)

Answers == {"none", "ok", "conflict", "not_found", "limited", "bad_gateway"}

LEMMA TaskTypes ==
  ASSUME QueueTypeOK, NEW t \in Tasks, task[t] # Idle
  PROVE  /\ task[t] \in Decisions /\ task[t].stage \in {"send", "resend", "answered"}
         /\ task[t].by \in Operators /\ task[t].product \in Products /\ task[t].action \in Actions
         /\ task[t].prev \in Queues /\ task[t].wake \in Nat /\ task[t].crowded \in BOOLEAN
         /\ task[t].answer \in Answers
<1>1. task[t] \in Decisions
  BY DEF QueueTypeOK
<1> QED BY <1>1 DEF Decisions, Answers

\* u is the decision it was, but perhaps not alone with its bucket any more.
Alike(u) ==
    /\ task'[u] = Idle <=> task[u] = Idle
    /\ task[u] # Idle =>
          /\ task'[u].stage = task[u].stage /\ task'[u].by = task[u].by
          /\ task'[u].product = task[u].product /\ task'[u].action = task[u].action
          /\ task'[u].prev = task[u].prev /\ task'[u].wake = task[u].wake
          /\ task'[u].answer = task[u].answer
          /\ task[u].crowded => task'[u].crowded

\* A decision and its variants are no idle slot.
LEMMA NotIdle == \A k \in Decisions : k # Idle
<1> SUFFICES ASSUME NEW k \in Decisions PROVE k # Idle
  OBVIOUS
<1>1. k.stage # Idle.stage
  BY DEF Decisions, Idle
<1> QED BY <1>1

LEMMA CrowdedRecord ==
  ASSUME NEW k \in Decisions
  PROVE  LET m == [k EXCEPT !.crowded = TRUE]
         IN  /\ m \in Decisions /\ m.crowded = TRUE
             /\ m.stage = k.stage /\ m.by = k.by /\ m.product = k.product /\ m.action = k.action
             /\ m.prev = k.prev /\ m.wake = k.wake /\ m.answer = k.answer
BY DEF Decisions

LEMMA AnsweredRecord ==
  ASSUME NEW k \in Decisions, NEW answer \in Answers
  PROVE  LET m == [k EXCEPT !.stage = "answered", !.answer = answer]
         IN  /\ m \in Decisions /\ m.stage = "answered" /\ m.answer = answer /\ m.crowded = k.crowded
             /\ m.by = k.by /\ m.product = k.product /\ m.action = k.action
             /\ m.prev = k.prev /\ m.wake = k.wake
BY DEF Decisions, Answers

LEMMA PostponedRecord ==
  ASSUME NEW k \in Decisions, NEW until \in Nat
  PROVE  LET m == [k EXCEPT !.stage = "resend", !.wake = until, !.crowded = FALSE]
         IN  /\ m \in Decisions /\ m.stage = "resend" /\ m.answer = k.answer /\ m.crowded = FALSE
             /\ m.by = k.by /\ m.product = k.product /\ m.action = k.action
             /\ m.prev = k.prev /\ m.wake = until
BY DEF Decisions

\* One decision that becomes crowded, or stays what it is.
LEMMA BecomesCrowded ==
  ASSUME QueueTypeOK, NEW u \in Tasks, NEW crowd \in BOOLEAN, crowd => task[u] # Idle,
         task'[u] = IF crowd THEN [task[u] EXCEPT !.crowded = TRUE] ELSE task[u]
  PROVE  /\ task'[u] \in Decisions \cup {Idle} /\ Alike(u)
         /\ crowd => task'[u].crowded = TRUE
<1>1. CASE ~crowd
  BY <1>1 DEF Alike, QueueTypeOK
<1>2. CASE crowd
  <2>1. task[u] \in Decisions /\ task'[u] = [task[u] EXCEPT !.crowded = TRUE]
    BY <1>2, TaskTypes
  <2> QED BY <1>2, <2>1, CrowdedRecord, NotIdle DEF Alike
<1> QED BY <1>1, <1>2

LEMMA CrowdIs ==
  ASSUME QueueTypeOK, NEW o, Crowd(o)
  PROVE  /\ task' \in [Tasks -> Decisions \cup {Idle}]
         /\ \A u \in Tasks : Alike(u)
         /\ \A u \in Tasks : task[u] # Idle /\ task[u].by = o /\ task[u].stage = "resend" => task'[u].crowded
<1>1. ASSUME NEW u \in Tasks
      PROVE  /\ task'[u] \in Decisions \cup {Idle} /\ Alike(u)
             /\ task[u] # Idle /\ task[u].by = o /\ task[u].stage = "resend" => task'[u].crowded
  <2> DEFINE crowd == u \in InFlight(o) /\ task[u].stage = "resend"
  <2>1. task'[u] = IF crowd THEN [task[u] EXCEPT !.crowded = TRUE] ELSE task[u]
    BY DEF Crowd
  <2>2. crowd \in BOOLEAN /\ (crowd => task[u] # Idle)
    BY DEF InFlight
  <2>3. task[u] # Idle /\ task[u].by = o /\ task[u].stage = "resend" => crowd
    BY DEF InFlight
  <2> HIDE DEF crowd
  <2> QED BY <2>1, <2>2, <2>3, BecomesCrowded
<1> QED BY <1>1 DEF Crowd

\* A request is answered, and the principal's other requests that wait are not alone any more.
LEMMA AnswerIs ==
  ASSUME QueueTypeOK, NEW t \in Tasks, task[t] # Idle, NEW answer \in Answers, AnswerAndCrowd(t, answer)
  PROVE  /\ task' \in [Tasks -> Decisions \cup {Idle}]
         /\ \A u \in Tasks \ {t} : Alike(u)
         /\ \A u \in Tasks \ {t} : task[u] # Idle /\ task[u].by = task[t].by /\ task[u].stage = "resend"
                                     => task'[u].crowded
         /\ task'[t] # Idle /\ task'[t].stage = "answered" /\ task'[t].answer = answer
         /\ task'[t].by = task[t].by /\ task'[t].product = task[t].product
         /\ task'[t].action = task[t].action /\ task'[t].prev = task[t].prev
<1>1. ASSUME NEW u \in Tasks \ {t}
      PROVE  /\ task'[u] \in Decisions \cup {Idle} /\ Alike(u)
             /\ task[u] # Idle /\ task[u].by = task[t].by /\ task[u].stage = "resend" => task'[u].crowded
  <2> DEFINE crowd == u \in Others(t)
  <2>1. task'[u] = IF crowd THEN [task[u] EXCEPT !.crowded = TRUE] ELSE task[u]
    BY DEF AnswerAndCrowd
  <2>2. crowd \in BOOLEAN /\ (crowd => task[u] # Idle)
    BY DEF Others, InFlight
  <2>3. task[u] # Idle /\ task[u].by = task[t].by /\ task[u].stage = "resend" => crowd
    BY DEF Others, InFlight
  <2> HIDE DEF crowd
  <2> QED BY <2>1, <2>2, <2>3, BecomesCrowded
<1>2. task[t] \in Decisions /\ task'[t] = [task[t] EXCEPT !.stage = "answered", !.answer = answer]
  BY TaskTypes DEF AnswerAndCrowd
<1>3. /\ task'[t] \in Decisions
      /\ task'[t].stage = "answered" /\ task'[t].answer = answer
      /\ task'[t].by = task[t].by /\ task'[t].product = task[t].product
      /\ task'[t].action = task[t].action /\ task'[t].prev = task[t].prev
  <2> DEFINE m == [task[t] EXCEPT !.stage = "answered", !.answer = answer]
  <2>1. /\ m \in Decisions /\ m.stage = "answered" /\ m.answer = answer
        /\ m.by = task[t].by /\ m.product = task[t].product /\ m.action = task[t].action
        /\ m.prev = task[t].prev
    BY <1>2, AnsweredRecord
  <2>2. task'[t] = m
    BY <1>2
  <2> HIDE DEF m
  <2> QED BY <2>1, <2>2
<1>4. task' \in [Tasks -> Decisions \cup {Idle}]
  <2>1. \A u \in Tasks : task'[u] \in Decisions \cup {Idle}
    BY <1>1, <1>3
  <2> QED BY <2>1 DEF AnswerAndCrowd
<1> QED BY <1>1, <1>3, <1>4, NotIdle

\* The slot of one decision is written.
LEMMA TaskWritten ==
  ASSUME QueueTypeOK, NEW t \in Tasks, NEW k \in Decisions \cup {Idle}, task' = [task EXCEPT ![t] = k]
  PROVE  /\ task' \in [Tasks -> Decisions \cup {Idle}] /\ task'[t] = k
         /\ \A u \in Tasks \ {t} : task'[u] = task[u] /\ Alike(u)
BY DEF QueueTypeOK, Alike

\* A request is turned away: it is sent again later, or its decision has failed.
LEMMA LimitedIs ==
  ASSUME QueueTypeOK, BucketTypeOK, NEW t \in Tasks, task[t] # Idle, task[t].by \in Principals,
         IF task[t].stage = "send"
         THEN Postpone(t, Wake(now, RetryAfter(task[t].by)))
         ELSE Answer(t, "limited"),
         Wake(now, RetryAfter(task[t].by)) \in Nat
  PROVE  /\ task' \in [Tasks -> Decisions \cup {Idle}]
         /\ \A u \in Tasks \ {t} : task'[u] = task[u] /\ Alike(u)
         /\ task'[t] # Idle
         /\ task'[t].by = task[t].by /\ task'[t].product = task[t].product
         /\ task'[t].action = task[t].action /\ task'[t].prev = task[t].prev
         /\ IF task[t].stage = "send"
            THEN /\ task'[t].stage = "resend" /\ task'[t].answer = task[t].answer
                 /\ task'[t].wake = Wake(now, RetryAfter(task[t].by)) /\ task'[t].crowded = FALSE
            ELSE /\ task'[t].stage = "answered" /\ task'[t].answer = "limited"
                 /\ task'[t].crowded = task[t].crowded
<1>1. task[t] \in Decisions /\ task \in [Tasks -> Decisions \cup {Idle}]
  BY TaskTypes DEF QueueTypeOK
<1> DEFINE until == Wake(now, RetryAfter(task[t].by))
<1>2. CASE task[t].stage = "send"
  <2> DEFINE m == [task[t] EXCEPT !.stage = "resend", !.wake = until, !.crowded = FALSE]
  <2> HIDE DEF until
  <2>1. task' = [task EXCEPT ![t] = m]
    BY <1>1, <1>2 DEF Postpone, until
  <2>2. until \in Nat
    BY DEF until
  <2>3. /\ m \in Decisions /\ m.stage = "resend" /\ m.answer = task[t].answer /\ m.crowded = FALSE
        /\ m.by = task[t].by /\ m.product = task[t].product /\ m.action = task[t].action
        /\ m.prev = task[t].prev /\ m.wake = until
    BY <1>1, <2>2, PostponedRecord
  <2> HIDE DEF m
  <2> QED BY <1>2, <2>1, <2>3, TaskWritten, NotIdle DEF until
<1>3. CASE task[t].stage # "send"
  <2> DEFINE m == [task[t] EXCEPT !.stage = "answered", !.answer = "limited"]
  <2>1. task' = [task EXCEPT ![t] = m]
    BY <1>1, <1>3 DEF Answer
  <2>2. "limited" \in Answers
    BY DEF Answers
  <2>3. /\ m \in Decisions /\ m.stage = "answered" /\ m.answer = "limited" /\ m.crowded = task[t].crowded
        /\ m.by = task[t].by /\ m.product = task[t].product /\ m.action = task[t].action
        /\ m.prev = task[t].prev
    BY <1>1, <2>2, AnsweredRecord
  <2> HIDE DEF m
  <2> QED BY <1>3, <2>1, <2>3, TaskWritten, NotIdle
<1> QED BY <1>2, <1>3

-----------------------------------------------------------------------------
(* How long a browser waits.                                               *)

LEMMA Divides ==
  ASSUME NEW a \in Nat, NEW r \in Nat \ {0}
  PROVE  a \div r \in Nat /\ a < (a \div r) * r + r
<1>1. a < (a \div r) * r + r
  BY Z3
<1>2. a \div r \in Int /\ a \div r >= 0
  BY Z3
<1> QED BY <1>1, <1>2

\* After the seconds the gateway names there is a token again, if nobody took one.
LEMMA RetryIs ==
  ASSUME BucketTypeOK, NEW p \in Principals, ~Allowed(p)
  PROVE  /\ RetryAfter(p) \in Nat \ {0}
         /\ Cost <= Refilled(p) + RetryAfter(p) * Rate
<1> DEFINE left == Refilled(p)  short == Cost - left + Rate - 1  q == short \div Rate
<1>1. left \in Nat /\ left < Cost /\ Rate \in Nat \ {0} /\ Cost \in Nat
  BY RefilledIs, BucketFacts DEF Allowed
<1> HIDE DEF left
<1>2. short \in Nat
  BY <1>1
<1>3. q \in Nat /\ short < q * Rate + Rate
  <2> HIDE DEF short
  <2> QED BY <1>1, <1>2, Divides
<1>4. Cost <= left + q * Rate
  <2> DEFINE x == q * Rate
  <2>1. x \in Int /\ short < x + Rate
    BY <1>1, <1>3
  <2> HIDE DEF x, q
  <2>2. Cost <= left + x
    BY <1>1, <2>1
  <2> QED BY <2>2 DEF x
<1> HIDE DEF q
<1>5. Max({1, q}) = IF 1 <= q THEN q ELSE 1
  BY <1>3, MaxOfTwo
<1>6. RetryAfter(p) = IF 1 <= q THEN q ELSE 1
  BY <1>5 DEF RetryAfter, q, left
<1>7. CASE 1 <= q
  BY <1>3, <1>4, <1>6, <1>7 DEF left
<1>8. CASE ~(1 <= q)
  <2>1. q = 0 /\ RetryAfter(p) = 1 /\ Cost <= left + 0
    BY <1>1, <1>3, <1>4, <1>6, <1>8
  <2> QED BY <1>1, <2>1 DEF left
<1> QED BY <1>7, <1>8

LEMMA WakeIs ==
  ASSUME BucketTypeOK, NEW p \in Principals, ~Allowed(p)
  PROVE  /\ Wake(now, RetryAfter(p)) \in Nat
         /\ \E k \in Nat : /\ Wake(now, RetryAfter(p)) = now + k
                           /\ k = RetryAfter(p) \/ k = MaxWait
<1>1. RetryAfter(p) \in Nat /\ MaxWait \in Nat /\ now \in Nat
  BY RetryIs, QueueAssumption, BucketFacts
<1>2. Min({RetryAfter(p), MaxWait}) = IF RetryAfter(p) <= MaxWait THEN RetryAfter(p) ELSE MaxWait
  BY <1>1, MinOfTwo
<1> QED BY <1>1, <1>2 DEF Wake

-----------------------------------------------------------------------------
(* The inductive invariants.                                               *)

\* The links there are.
Known == {p \in Products : Status(p) # "none"}

\* What an operator has seen, sees, will see, or may get back is linked.
SeesKnown ==
    /\ \A o \in Operators :
          /\ loaded[o] \subseteq Known /\ queue[o].items \subseteq Known
          /\ fetch[o] # NotFetching =>
                fetch[o].base.items \subseteq Known /\ fetch[o].page.items \subseteq Known
    /\ \A t \in Tasks :
          task[t] # Idle => task[t].product \in Known /\ task[t].prev.items \subseteq Known

\* An operator who does one thing at a time gets back what he sees, and the item he decided.
OneAtATime ==
    \A o \in Operators : ~overlapped[o] =>
        /\ fetch[o] # NotFetching => InFlight(o) = {} /\ fetch[o].base.items = queue[o].items
        /\ \A t \in InFlight(o) :
              InFlight(o) = {t} /\ task[t].prev.items = queue[o].items \cup {task[t].product}

\* An item that stays away after the answer is decided.
AnsweredIsDecided ==
    \A t \in Tasks :
        task[t] # Idle /\ task[t].stage = "answered" /\ Gone(task[t].action, task[t].answer) =>
            Status(task[t].product) \in Decided

ItemsInv == SeesKnown /\ OneAtATime /\ AnsweredIsDecided /\ NoItemIsLost

\* At the time w, if nobody comes first, the bucket b has a token.
TokenBy(b, w) == b.last <= w /\ Cost <= b.tokens + (w - b.last) * Rate

\* Who waits alone for a token has one when he wakes, so that he is served.
Patient(t) ==
    task[t] # Idle =>
        /\ task[t].stage # "answered" => task[t].answer = "none"
        /\ task[t].stage = "resend" /\ ~task[t].crowded => TokenBy(buckets[task[t].by], task[t].wake)
        /\ task[t].answer = "limited" => task[t].crowded

Patience == \A t \in Tasks : Patient(t)

-----------------------------------------------------------------------------
(* The routes of the decisions.                                            *)

LEMMA RouteOfDecision ==
  ASSUME NEW op \in {"confirmCurationLink", "rejectCurationLink", "createNewCanonical"}
  PROVE  op \in Operations /\ RouteOf[op].operator = TRUE /\ RouteOf[op].scope = "matching:curate"
<1>1. Decides(op) \in Routes /\ Decides(op).op = op
  BY DEF Routes, DecisionRoutes, Decides
<1>2. ASSUME NEW r \in Routes, r.op = op
      PROVE  r.operator = TRUE /\ r.scope = "matching:curate"
  <2>1. r \notin CatalogRoutes
    BY <1>2 DEF CatalogRoutes, Route
  <2>2. r \notin OfferRoutes
    BY <1>2 DEF OfferRoutes, Route
  <2>3. r \notin PriceRoutes
    BY <1>2 DEF PriceRoutes, Route
  <2>4. r \notin SearchRoutes
    BY <1>2 DEF SearchRoutes, Route
  <2>5. r \notin CanonicalRoutes
    BY <1>2 DEF CanonicalRoutes, Route, Decides
  <2>6. r \notin QueueRoutes
    BY <1>2 DEF QueueRoutes, Route
  <2>7. r \notin SyncRoutes
    BY <1>2 DEF SyncRoutes, Route
  <2>8. r \in DecisionRoutes
    BY <1>2, <2>1, <2>2, <2>3, <2>4, <2>5, <2>6, <2>7 DEF Routes
  <2> QED BY <2>8 DEF DecisionRoutes, Decides
<1>3. op \in Operations
  BY <1>1 DEF Operations
<1>4. RouteOf[op] \in Routes /\ RouteOf[op].op = op
  BY <1>1, <1>3 DEF RouteOf
<1> QED BY <1>2, <1>3, <1>4

LEMMA OperationIs ==
  ASSUME NEW action \in Actions
  PROVE  Operation(action) \in {"confirmCurationLink", "rejectCurationLink", "createNewCanonical"}
BY DEF Actions, Operation

\* A decision is passed on in the name of its operator, whose token allows it.
LEMMA OperatorIs ==
  ASSUME QueueTypeOK, NEW t \in Tasks, task[t] # Idle
  PROVE  /\ OperatorOf(t) = task[t].by
         /\ Scoped(task[t].by, Operation(task[t].action)) => "matching:curate" \in ScopesOf[task[t].by]
<1>1. task[t].action \in Actions
  BY TaskTypes
<1> QED BY <1>1, OperationIs, RouteOfDecision DEF OperatorOf, Scoped

-----------------------------------------------------------------------------
(* What the steps do.                                                      *)

\* A request that is admitted: the decision is handled, or lost on the way, and answered.
LEMMA SendIs ==
  ASSUME DeskTypeOK, NEW t \in Tasks, Send(t) \/ SendLost(t)
  PROVE  /\ task[t] # Idle /\ task[t].stage \in {"send", "resend"}
         /\ Admit(task[t].by, Operation(task[t].action))
         /\ \/ UNCHANGED matching
            \/ TakesEffect(task[t].product, task[t].action, task[t].by, task[t].by)
         /\ Matching!TablesTypeOK'
         /\ \E answer \in Answers :
               /\ AnswerAndCrowd(t, answer)
               /\ answer = "ok" => links'[task[t].product].status \in Decided
               /\ answer \in {"conflict", "not_found"} =>
                     answer = Reply(task[t].product, task[t].action) /\ UNCHANGED matching
               /\ answer # "limited"
         /\ faults' \in 0..MaxFaults
         /\ UNCHANGED <<queue, fetch, loaded, overlapped>>
<1>1. /\ QueueTypeOK /\ Matching!TablesTypeOK /\ task[t] # Idle /\ task[t].stage \in {"send", "resend"}
      /\ Admit(task[t].by, Operation(task[t].action))
  BY DEF DeskTypeOK, Send, SendLost, Sending
<1> DEFINE p == task[t].product  action == task[t].action  by == task[t].by
<1>2. p \in Products /\ action \in Actions /\ OperatorOf(t) = by
  BY <1>1, TaskTypes, OperatorIs
<1>3. Reply(p, action) \in {"ok", "conflict", "not_found"}
  BY DEF Reply
<1> HIDE DEF p, action, by
<1>4. ASSUME Decide(p, action, OperatorOf(t), by)
      PROVE  /\ Matching!TablesTypeOK'
             /\ \/ UNCHANGED matching /\ (Reply(p, action) = "ok" => Status(p) \in Decided)
                \/ TakesEffect(p, action, by, by)
    BY <1>1, <1>2, <1>4, DecideWrites
<1>5. ASSUME TakesEffect(p, action, by, by)
      PROVE  links'[p].status \in Decided /\ Reply(p, action) = "ok"
  <2>1. links'[p].status \in Decided
    BY <1>5 DEF TakesEffect, Decided
  <2>2. Status(p) \in {"auto", "pending_review", "rejected"} /\ (Status(p) = "rejected" => action = "create_new")
    BY <1>5 DEF TakesEffect
  <2>3. Reply(p, action) = "ok"
    BY <2>2 DEF Reply, Conflicting
  <2> QED BY <2>1, <2>3
<1>6. UNCHANGED matching => Matching!TablesTypeOK' /\ links'[p].status = Status(p)
  BY <1>1 DEF matching, Matching!TablesTypeOK, Status
<1>7. CASE Send(t)
  <2>1. Decide(p, action, OperatorOf(t), by) /\ AnswerAndCrowd(t, Reply(p, action)) /\ UNCHANGED faults
    BY <1>7 DEF Send, p, action, by
  <2>2. Reply(p, action) \in Answers /\ Reply(p, action) # "limited"
    BY <1>3 DEF Answers
  <2>3. Reply(p, action) = "ok" => links'[p].status \in Decided
    BY <1>4, <1>5, <1>6, <2>1
  <2>4. Reply(p, action) \in {"conflict", "not_found"} => UNCHANGED matching
    BY <1>4, <1>5, <2>1
  <2>5. faults' \in 0..MaxFaults
    BY <2>1 DEF DeskTypeOK
  <2>6. UNCHANGED <<queue, fetch, loaded, overlapped>>
    BY <1>7 DEF Send
  <2>7. UNCHANGED matching \/ TakesEffect(p, action, by, by)
    BY <1>4, <2>1
  <2> QED BY <1>1, <1>4, <2>1, <2>2, <2>3, <2>4, <2>5, <2>6, <2>7 DEF p, action, by
<1>8. CASE SendLost(t)
  <2>1. /\ Decide(p, action, OperatorOf(t), by) \/ UNCHANGED matching
        /\ AnswerAndCrowd(t, "bad_gateway") /\ faults > 0 /\ faults' = faults - 1
    BY <1>8 DEF SendLost, p, action, by
  <2>2. "bad_gateway" \in Answers
    BY DEF Answers
  <2>3. faults' \in 0..MaxFaults
    BY <2>1, DeskAssumption DEF DeskTypeOK
  <2>4. UNCHANGED <<queue, fetch, loaded, overlapped>>
    BY <1>8 DEF SendLost
  <2>5. Matching!TablesTypeOK' /\ (UNCHANGED matching \/ TakesEffect(p, action, by, by))
    BY <1>4, <1>6, <2>1
  <2> QED BY <1>1, <2>1, <2>2, <2>3, <2>4, <2>5 DEF p, action, by
<1> QED BY <1>7, <1>8

\* The rows of the journal after a decision took effect.
LEMMA RecordIs ==
  ASSUME NEW S, journal \in Seq(S), NEW row \in S, journal' = Append(journal, row)
  PROVE  /\ journal' \in Seq(S) /\ Len(journal) \in Nat
         /\ DOMAIN journal' = DOMAIN journal \cup {Len(journal) + 1} /\ Len(journal) + 1 \notin DOMAIN journal
         /\ \A i \in DOMAIN journal : journal'[i] = journal[i] /\ i < Len(journal) + 1
         /\ journal'[Len(journal) + 1] = row
OBVIOUS

Row == [action : Actions, product : Products, operator : Operators \cup {Fallback}, author : Operators]

\* A page holds rows of the queue only, and its cursor is one of them.
LEMMA PageIs ==
  ASSUME NEW keys \in SUBSET Products, NEW cursor
  PROVE  /\ PageUp(keys, cursor, PageSize).items \subseteq keys
         /\ PageUp(keys, cursor, PageSize).next \in Products \cup {Start, End}
<1> DEFINE items == Oldest(Behind(keys, cursor), PageSize)
<1>1. items \subseteq keys
  BY DEF Oldest, Behind
<1>2. PageUp(keys, cursor, PageSize) =
        [items |-> items, next |-> IF Cardinality(items) = PageSize THEN Max(items) ELSE End]
  BY DEF PageUp
<1> HIDE DEF items
<1>3. IsFiniteSet(items) /\ items \subseteq Int
  <2>1. items \subseteq Products /\ Products \subseteq Int /\ IsFiniteSet(Products)
    BY <1>1, QueueAssumption
  <2> QED BY <2>1, FS_Subset
<1>4. ASSUME Cardinality(items) = PageSize
      PROVE  Max(items) \in Products
  <2>1. items # {}
    BY <1>4, DeskAssumption, FS_EmptySet
  <2> QED BY <1>1, <1>3, <2>1, MaxOfSet
<1> QED BY <1>1, <1>2, <1>4

LEMMA AdmitTypes ==
  ASSUME BucketTypeOK, NEW p, NEW op, Admit(p, op) \/ Limit(p, op) \/ Refuse(p, op)
  PROVE  BucketTypeOK'
<1>1. CASE Admit(p, op) \/ Limit(p, op)
  <2>1. p \in Principals /\ Spend(p) /\ UNCHANGED now
    BY <1>1 DEF Admit, Limit, Scoped, Authenticated
  <2> QED BY <2>1, SpendIs
<1>2. CASE Refuse(p, op)
  BY <1>2 DEF Refuse, gatewayVars, BucketTypeOK
<1> QED BY <1>1, <1>2

LEMMA SendTypes ==
  ASSUME DeskTypeOK, NEW t \in Tasks, Send(t) \/ SendLost(t)
  PROVE  DeskTypeOK'
<1>1. /\ QueueTypeOK /\ BucketTypeOK /\ task[t] # Idle
  BY SendIs DEF DeskTypeOK
<1>2. BucketTypeOK'
  BY <1>1, SendIs, AdmitTypes
<1>3. QueueTypeOK'
  <2>1. task' \in [Tasks -> Decisions \cup {Idle}]
    BY <1>1, SendIs, AnswerIs
  <2> QED BY <1>1, <2>1, SendIs DEF QueueTypeOK
<1>4. journal' \in Seq(Row)
  <2> DEFINE p == task[t].product  action == task[t].action  by == task[t].by
  <2>1. journal \in Seq(Row) /\ p \in Products /\ action \in Actions /\ by \in Operators
    BY <1>1, TaskTypes DEF DeskTypeOK, Row
  <2> DEFINE row == [action |-> action, product |-> p, operator |-> by, author |-> by]
  <2>2. UNCHANGED journal \/ journal' = Append(journal, row)
    BY SendIs DEF matching, TakesEffect, Record
  <2> HIDE DEF p, action, by
  <2>3. row \in Row
    BY <2>1 DEF Row
  <2> HIDE DEF row
  <2> QED BY <2>1, <2>2, <2>3, RecordIs
<1> QED BY <1>2, <1>3, <1>4, SendIs DEF DeskTypeOK, Row

LEMMA LimitedTypes ==
  ASSUME DeskTypeOK, NEW t \in Tasks, SendLimited(t)
  PROVE  DeskTypeOK'
<1>1. /\ QueueTypeOK /\ BucketTypeOK /\ task[t] # Idle /\ task[t].by \in Principals /\ ~Allowed(task[t].by)
      /\ Limit(task[t].by, Operation(task[t].action))
      /\ UNCHANGED <<queue, fetch, loaded, overlapped, matching, faults>>
  BY DEF DeskTypeOK, SendLimited, Sending, Limit, Scoped, Authenticated
<1>2. BucketTypeOK'
  BY <1>1, AdmitTypes
<1>3. task' \in [Tasks -> Decisions \cup {Idle}]
  BY <1>1, LimitedIs, WakeIs DEF SendLimited
<1>4. QueueTypeOK'
  BY <1>1, <1>3 DEF QueueTypeOK
<1> QED BY <1>1, <1>2, <1>4 DEF DeskTypeOK, matching, Matching!TablesTypeOK

\* What operators do in their browsers.
LEMMA LoadPageIs ==
  ASSUME DeskTypeOK, NEW o \in Operators, LoadPage(o)
  PROVE  /\ BucketTypeOK' /\ o \in Principals /\ Spend(o) /\ UNCHANGED now
         /\ fetch[o] = NotFetching
         /\ \E page \in Queues : page.items \subseteq Pending
              /\ fetch' = [fetch EXCEPT ![o] = [base |-> queue[o], page |-> page]]
         /\ fetch' \in [Operators -> [base : Queues, page : Queues] \cup {NotFetching}]
         /\ Crowd(o) /\ Overlap(o) /\ UNCHANGED <<queue, loaded, matching, faults>>
<1>1. BucketTypeOK' /\ o \in Principals /\ Spend(o) /\ UNCHANGED now
  BY AdmitTypes DEF LoadPage, DeskTypeOK, Admit, Scoped, Authenticated
<1> DEFINE up == PageUp(Pending, queue[o].cursor, PageSize)
           page == [items |-> up.items, cursor |-> up.next]
<1>2. up.items \subseteq Pending /\ up.next \in Products \cup {Start, End}
  BY PageIs DEF Pending
<1>3. AskPage(o, up) /\ Crowd(o) /\ UNCHANGED <<matching, faults>>
  BY DEF LoadPage
<1> HIDE DEF up
<1>4. page \in Queues /\ page.items \subseteq Pending
  BY <1>2 DEF Queues, Pending
<1>5. /\ fetch' = [fetch EXCEPT ![o] = [base |-> queue[o], page |-> page]]
      /\ fetch[o] = NotFetching /\ Overlap(o) /\ UNCHANGED <<queue, loaded>>
  BY <1>3 DEF AskPage
<1> HIDE DEF page
<1>6. fetch' \in [Operators -> [base : Queues, page : Queues] \cup {NotFetching}]
  BY <1>4, <1>5 DEF DeskTypeOK, QueueTypeOK
<1> QED BY <1>1, <1>3, <1>4, <1>5, <1>6

LEMMA OverlapTypes ==
  ASSUME QueueTypeOK, NEW o \in Operators, Overlap(o)
  PROVE  /\ overlapped' \in [Operators -> BOOLEAN]
         /\ overlapped'[o] = (overlapped[o] \/ InFlight(o) # {})
         /\ \A q \in Operators \ {o} : overlapped'[q] = overlapped[q]
<1>1. overlapped \in [Operators -> BOOLEAN] /\ overlapped[o] \in BOOLEAN
  BY DEF QueueTypeOK
<1> DEFINE b == overlapped[o] \/ InFlight(o) # {}
<1>2. b \in BOOLEAN
  OBVIOUS
<1>3. overlapped' = [overlapped EXCEPT ![o] = b]
  BY DEF Overlap
<1> HIDE DEF b
<1>4. /\ overlapped' \in [Operators -> BOOLEAN] /\ overlapped'[o] = b
      /\ \A q \in Operators \ {o} : overlapped'[q] = overlapped[q]
  BY <1>1, <1>2, <1>3
<1> QED BY <1>4 DEF b

LEMMA ShowPageIs ==
  ASSUME DeskTypeOK, NEW o \in Operators, ShowPage(o)
  PROVE  /\ QueueTypeOK' /\ fetch[o] # NotFetching /\ fetch[o] \in [base : Queues, page : Queues]
         /\ queue'[o].items = fetch[o].base.items \cup fetch[o].page.items
         /\ loaded'[o] = loaded[o] \cup fetch[o].page.items
         /\ fetch'[o] = NotFetching
         /\ \A q \in Operators \ {o} :
               queue'[q] = queue[q] /\ loaded'[q] = loaded[q] /\ fetch'[q] = fetch[q]
         /\ UNCHANGED <<task, overlapped, gatewayVars, matching, faults>>
<1>1. /\ fetch[o] # NotFetching
      /\ queue' = [queue EXCEPT ![o] =
           [items |-> fetch[o].base.items \cup fetch[o].page.items, cursor |-> fetch[o].page.cursor]]
      /\ loaded' = [loaded EXCEPT ![o] = @ \cup fetch[o].page.items]
      /\ fetch' = [fetch EXCEPT ![o] = NotFetching]
      /\ UNCHANGED <<task, overlapped, gatewayVars, matching, faults>>
  BY DEF ShowPage, PageArrives
<1>2. /\ queue \in [Operators -> Queues] /\ loaded \in [Operators -> SUBSET Products]
      /\ fetch \in [Operators -> [base : Queues, page : Queues] \cup {NotFetching}]
      /\ task \in [Tasks -> Decisions \cup {Idle}] /\ overlapped \in [Operators -> BOOLEAN]
  BY DEF DeskTypeOK, QueueTypeOK
<1>3. fetch[o].base \in Queues /\ fetch[o].page \in Queues /\ fetch[o] \in [base : Queues, page : Queues]
  BY <1>1, <1>2
<1>4. [items |-> fetch[o].base.items \cup fetch[o].page.items, cursor |-> fetch[o].page.cursor] \in Queues
  BY <1>3 DEF Queues
<1>5. loaded[o] \cup fetch[o].page.items \in SUBSET Products
  BY <1>2, <1>3 DEF Queues
<1>6. /\ queue' \in [Operators -> Queues] /\ loaded' \in [Operators -> SUBSET Products]
      /\ fetch' \in [Operators -> [base : Queues, page : Queues] \cup {NotFetching}]
  BY <1>1, <1>2, <1>4, <1>5
<1>7. QueueTypeOK'
  BY <1>1, <1>2, <1>6 DEF QueueTypeOK
<1> QED BY <1>1, <1>2, <1>3, <1>7

LEMMA ChooseIs ==
  ASSUME DeskTypeOK, NEW o \in Operators, NEW t \in Tasks, NEW p \in Products, NEW action \in Actions,
         Choose(o, t, p, action)
  PROVE  /\ QueueTypeOK' /\ task[t] = Idle /\ p \in queue[o].items
         /\ task'[t] # Idle /\ task'[t].stage = "send" /\ task'[t].by = o /\ task'[t].product = p
         /\ task'[t].prev = queue[o] /\ task'[t].answer = "none"
         /\ \A u \in Tasks \ {t} : task'[u] = task[u]
         /\ queue'[o].items = queue[o].items \ {p} /\ fetch'[o] = NotFetching
         /\ \A q \in Operators \ {o} : queue'[q] = queue[q] /\ fetch'[q] = fetch[q]
         /\ Overlap(o) /\ UNCHANGED <<loaded, gatewayVars, matching, faults>>
<1> DEFINE k == [stage |-> "send", by |-> o, product |-> p, action |-> action, prev |-> queue[o],
                 wake |-> 0, crowded |-> FALSE, answer |-> "none"]
<1>1. /\ task[t] = Idle /\ p \in queue[o].items
      /\ task' = [task EXCEPT ![t] = k]
      /\ queue' = [queue EXCEPT ![o].items = @ \ {p}]
      /\ fetch' = [fetch EXCEPT ![o] = NotFetching]
      /\ Overlap(o) /\ UNCHANGED <<loaded, gatewayVars, matching, faults>>
  BY DEF Choose, Click
<1>2. /\ QueueTypeOK /\ queue \in [Operators -> Queues] /\ loaded \in [Operators -> SUBSET Products]
      /\ fetch \in [Operators -> [base : Queues, page : Queues] \cup {NotFetching}]
  BY DEF DeskTypeOK, QueueTypeOK
<1>3. /\ k \in Decisions /\ k.stage = "send" /\ k.by = o /\ k.product = p /\ k.prev = queue[o]
      /\ k.answer = "none"
  BY <1>2 DEF Decisions
<1> HIDE DEF k
<1>4. /\ task' \in [Tasks -> Decisions \cup {Idle}] /\ task'[t] = k
      /\ \A u \in Tasks \ {t} : task'[u] = task[u]
  BY <1>1, <1>2, <1>3, TaskWritten
<1> DEFINE row == [queue[o] EXCEPT !.items = queue[o].items \ {p}]
<1>5. row \in Queues /\ row.items = queue[o].items \ {p} /\ queue' = [queue EXCEPT ![o] = row]
  BY <1>1, <1>2 DEF Queues
<1> HIDE DEF row
<1>6. /\ queue' \in [Operators -> Queues] /\ queue'[o] = row
      /\ fetch' \in [Operators -> [base : Queues, page : Queues] \cup {NotFetching}]
      /\ fetch'[o] = NotFetching
      /\ \A q \in Operators \ {o} : queue'[q] = queue[q] /\ fetch'[q] = fetch[q]
  BY <1>1, <1>2, <1>5
<1>7. QueueTypeOK'
  BY <1>1, <1>2, <1>4, <1>6, OverlapTypes DEF QueueTypeOK
<1> QED BY <1>1, <1>3, <1>4, <1>5, <1>6, <1>7, NotIdle

LEMMA SettleIs ==
  ASSUME DeskTypeOK, NEW t \in Tasks, SettleTask(t)
  PROVE  /\ QueueTypeOK' /\ task[t] # Idle /\ task[t].stage = "answered" /\ task'[t] = Idle
         /\ \A u \in Tasks \ {t} : task'[u] = task[u]
         /\ IF Gone(task[t].action, task[t].answer) THEN UNCHANGED queue
            ELSE /\ queue'[task[t].by] = task[t].prev
                 /\ \A q \in Operators \ {task[t].by} : queue'[q] = queue[q]
         /\ UNCHANGED <<fetch, loaded, overlapped, gatewayVars, matching, faults>>
<1>1. /\ task[t] # Idle /\ task[t].stage = "answered"
      /\ queue' = IF Gone(task[t].action, task[t].answer)
                  THEN queue ELSE [queue EXCEPT ![task[t].by] = task[t].prev]
      /\ task' = [task EXCEPT ![t] = Idle]
      /\ UNCHANGED <<fetch, loaded, overlapped, gatewayVars, matching, faults>>
  BY DEF SettleTask, Settle
<1>2. QueueTypeOK /\ queue \in [Operators -> Queues] /\ task[t].by \in Operators /\ task[t].prev \in Queues
  BY <1>1, TaskTypes DEF DeskTypeOK, QueueTypeOK
<1>3. /\ task' \in [Tasks -> Decisions \cup {Idle}] /\ task'[t] = Idle
      /\ \A u \in Tasks \ {t} : task'[u] = task[u]
  BY <1>1, <1>2, TaskWritten
<1>4. queue' \in [Operators -> Queues]
  BY <1>1, <1>2
<1>5. QueueTypeOK'
  BY <1>1, <1>2, <1>3, <1>4 DEF QueueTypeOK
<1> QED BY <1>1, <1>2, <1>3, <1>5

\* Any other request.
LEMMA CallIs ==
  ASSUME DeskTypeOK, NEW p \in Principals \cup Strangers, NEW op \in Operations, Call(p, op)
  PROVE  /\ QueueTypeOK' /\ BucketTypeOK' /\ \A u \in Tasks : Alike(u)
         /\ UNCHANGED <<queue, fetch, loaded, overlapped, matching, faults>>
<1>1. QueueTypeOK /\ BucketTypeOK
  BY DEF DeskTypeOK
<1>2. UNCHANGED <<queue, fetch, loaded, overlapped, matching, faults>>
  BY DEF Call
<1>3. BucketTypeOK'
  BY <1>1, AdmitTypes DEF Call
<1>4. task' \in [Tasks -> Decisions \cup {Idle}] /\ \A u \in Tasks : Alike(u)
  <2>1. CASE UNCHANGED task
    BY <1>1, <2>1 DEF Alike, QueueTypeOK
  <2>2. CASE Crowd(p)
    BY <1>1, <2>2, CrowdIs
  <2> QED BY <2>1, <2>2 DEF Call
<1> QED BY <1>1, <1>2, <1>3, <1>4 DEF QueueTypeOK

-----------------------------------------------------------------------------
\* For any desk the state stays well typed.
THEOREM DeskTypeCorrect == Spec => []DeskTypeOK
<1>1. Init => DeskTypeOK
  <2> SUFFICES ASSUME Init PROVE DeskTypeOK
    OBVIOUS
  <2>1. QueueTypeOK
    BY DEF Init, QueueInit, QueueTypeOK, Queues
  <2>2. BucketTypeOK
    BY GatewayAssumption DEF Init, GatewayInit, BucketTypeOK
  <2>3. Matching!TablesTypeOK
    BY DEF Init, Matching!Init, Matching!TablesInit, Matching!TablesTypeOK, Matching!CanonicalRow,
           Matching!NoLink
  <2>4. journal \in Seq(Row) /\ faults \in 0..MaxFaults
    BY DeskAssumption DEF Init
  <2> QED BY <2>1, <2>2, <2>3, <2>4 DEF DeskTypeOK, Row
<1>2. DeskTypeOK /\ [Next]_vars => DeskTypeOK'
  <2> SUFFICES ASSUME DeskTypeOK, [Next]_vars PROVE DeskTypeOK'
    OBVIOUS
  <2>1. UNCHANGED matching => Matching!TablesTypeOK' /\ journal' = journal
    BY DEF matching, DeskTypeOK, Matching!TablesTypeOK
  <2>2. UNCHANGED gatewayVars => BucketTypeOK'
    BY DEF gatewayVars, DeskTypeOK, BucketTypeOK
  <2>3. ASSUME NEW p \in Products, Discover(p)
        PROVE  DeskTypeOK'
    <3>1. Matching!TablesTypeOK' /\ UNCHANGED <<queueVars, gatewayVars, journal, faults>>
      BY <2>3, DiscoverWrites DEF Discover, DeskTypeOK
    <3>2. QueueTypeOK'
      BY <3>1 DEF queueVars, QueueTypeOK, DeskTypeOK
    <3> QED BY <2>2, <3>1, <3>2 DEF DeskTypeOK
  <2>4. ASSUME NEW o \in Operators, LoadPage(o)
        PROVE  DeskTypeOK'
    <3>1. QueueTypeOK'
      <4>1. /\ UNCHANGED <<queue, loaded>> /\ QueueTypeOK
            /\ fetch' \in [Operators -> [base : Queues, page : Queues] \cup {NotFetching}]
        BY <2>4, LoadPageIs DEF DeskTypeOK
      <4>2. task' \in [Tasks -> Decisions \cup {Idle}]
        BY <2>4, <4>1, LoadPageIs, CrowdIs
      <4>3. overlapped' \in [Operators -> BOOLEAN]
        BY <2>4, <4>1, LoadPageIs, OverlapTypes
      <4> QED BY <4>1, <4>2, <4>3 DEF QueueTypeOK
    <3> QED BY <2>1, <2>4, <3>1, LoadPageIs DEF DeskTypeOK
  <2>5. ASSUME NEW o \in Operators, ShowPage(o)
        PROVE  DeskTypeOK'
    BY <2>1, <2>2, <2>5, ShowPageIs DEF DeskTypeOK
  <2>6. ASSUME NEW o \in Operators, NEW t \in Tasks, NEW p \in Products, NEW action \in Actions,
               Choose(o, t, p, action)
        PROVE  DeskTypeOK'
    BY <2>1, <2>2, <2>6, ChooseIs DEF DeskTypeOK
  <2>7. ASSUME NEW t \in Tasks, SettleTask(t)
        PROVE  DeskTypeOK'
    BY <2>1, <2>2, <2>7, SettleIs DEF DeskTypeOK
  <2>8. ASSUME NEW p \in Principals \cup Strangers, NEW op \in Operations, Call(p, op)
        PROVE  DeskTypeOK'
    BY <2>1, <2>8, CallIs DEF DeskTypeOK
  <2>9. CASE Tick
    <3>1. UNCHANGED <<buckets, queueVars, matching, faults>> /\ now' = now + 1 /\ BucketTypeOK /\ QueueTypeOK
      BY <2>9 DEF Tick, DeskTypeOK
    <3>2. BucketTypeOK'
      <4>1. \A p \in Principals : buckets[p].last \in Nat /\ buckets[p].last <= now /\ now \in Nat
        BY <3>1, BucketFacts
      <4>2. now' \in Nat
        BY <3>1 DEF BucketTypeOK
      <4>3. ASSUME NEW p \in Principals
            PROVE  buckets'[p].last <= now'
        <5> DEFINE a == buckets[p].last  b == now
        <5>1. a \in Nat /\ b \in Nat /\ a <= b /\ buckets'[p].last = a /\ now' = b + 1
          BY <3>1, <4>1
        <5> HIDE DEF a, b
        <5>2. a <= b + 1
          BY <5>1
        <5> QED BY <5>1, <5>2
      <4> QED BY <3>1, <4>2, <4>3 DEF BucketTypeOK
    <3>3. QueueTypeOK'
      BY <3>1 DEF queueVars, QueueTypeOK
    <3> QED BY <2>1, <3>1, <3>2, <3>3 DEF DeskTypeOK
  <2>10. CASE UNCHANGED vars
    <3>1. QueueTypeOK'
      BY <2>10 DEF vars, queueVars, DeskTypeOK, QueueTypeOK
    <3> QED BY <2>1, <2>2, <2>10, <3>1 DEF vars, DeskTypeOK
  <2> QED BY <2>3, <2>4, <2>5, <2>6, <2>7, <2>8, <2>9, <2>10, SendTypes, LimitedTypes DEF Next
<1> QED BY <1>1, <1>2, PTL DEF Spec

-----------------------------------------------------------------------------
(* The journal.                                                            *)

\* What a step does to the links and to the journal: a product is linked, an operator's
\* decision takes effect, or neither.
LEMMA StepOnLinks ==
  ASSUME DeskTypeOK, [Next]_vars
  PROVE  \/ UNCHANGED <<links, journal>>
         \/ \E p \in Products :
               /\ Status(p) = "none" /\ links'[p].status = "pending_review"
               /\ \A q \in Products \ {p} : links'[q] = links[q]
               /\ UNCHANGED journal
         \/ \E p \in Products, action \in Actions, o \in Operators :
               TakesEffect(p, action, o, o) /\ "matching:curate" \in ScopesOf[o]
<1>1. ASSUME NEW p \in Products, Discover(p)
      PROVE  /\ Status(p) = "none" /\ links'[p].status = "pending_review"
             /\ \A q \in Products \ {p} : links'[q] = links[q]
             /\ UNCHANGED journal
  BY <1>1, DiscoverWrites DEF Discover, DeskTypeOK, Status
<1>2. ASSUME NEW t \in Tasks, Send(t) \/ SendLost(t)
      PROVE  \/ UNCHANGED <<links, journal>>
             \/ \E p \in Products, action \in Actions, o \in Operators :
                   TakesEffect(p, action, o, o) /\ "matching:curate" \in ScopesOf[o]
  <2>1. /\ QueueTypeOK /\ task[t] # Idle
        /\ Scoped(task[t].by, Operation(task[t].action))
        /\ \/ UNCHANGED matching
           \/ TakesEffect(task[t].product, task[t].action, task[t].by, task[t].by)
    BY <1>2, SendIs DEF Admit, DeskTypeOK
  <2>2. /\ task[t].product \in Products /\ task[t].action \in Actions /\ task[t].by \in Operators
        /\ "matching:curate" \in ScopesOf[task[t].by]
    BY <2>1, TaskTypes, OperatorIs
  <2> QED BY <2>1, <2>2 DEF matching
<1>3. ASSUME NEW o \in Operators, LoadPage(o) \/ ShowPage(o)
      PROVE  UNCHANGED <<links, journal>>
  BY <1>3 DEF LoadPage, ShowPage, matching
<1>4. ASSUME NEW o \in Operators, NEW t \in Tasks, NEW p \in Products, NEW action \in Actions,
             Choose(o, t, p, action)
      PROVE  UNCHANGED <<links, journal>>
  BY <1>4 DEF Choose, matching
<1>5. ASSUME NEW t \in Tasks, SendLimited(t) \/ SettleTask(t)
      PROVE  UNCHANGED <<links, journal>>
  BY <1>5 DEF SendLimited, SettleTask, matching
<1>6. ASSUME NEW p \in Principals \cup Strangers, NEW op \in Operations, Call(p, op)
      PROVE  UNCHANGED <<links, journal>>
  BY <1>6 DEF Call, matching
<1>7. CASE Tick \/ UNCHANGED vars
  BY <1>7 DEF Tick, vars, matching
<1> QED BY <1>1, <1>2, <1>3, <1>4, <1>5, <1>6, <1>7 DEF Next

\* However an answer is lost and a decision sent again, each link's rows in the log are the
\* decision that made it what it is, and a rejection before it got a canonical of its own.
THEOREM JournalIsTrue == Spec => []JournalTellsStatus
<1>1. Init => JournalTellsStatus
  BY DEF Init, Matching!Init, Matching!TablesInit, Matching!NoLink, JournalTellsStatus, Status, Rows
<1>2. DeskTypeOK /\ JournalTellsStatus /\ [Next]_vars => JournalTellsStatus'
  <2> SUFFICES ASSUME DeskTypeOK, JournalTellsStatus, [Next]_vars PROVE JournalTellsStatus'
    OBVIOUS
  <2>1. CASE UNCHANGED <<links, journal>>
    BY <2>1 DEF JournalTellsStatus, Status, Rows
  <2>2. ASSUME NEW p \in Products, Status(p) = "none", links'[p].status = "pending_review",
               \A q \in Products \ {p} : links'[q] = links[q], UNCHANGED journal
        PROVE  JournalTellsStatus'
    <3> SUFFICES ASSUME NEW q \in Products
                 PROVE  /\ links'[q].status = "confirmed" =>
                              \E i \in Rows(q) :
                                  \/ journal[i].action \in {"confirm", "create_new"} /\ Rows(q) = {i}
                                  \/ /\ journal[i].action = "create_new"
                                     /\ \E j \in Rows(q) :
                                           j < i /\ journal[j].action = "reject" /\ Rows(q) = {j, i}
                        /\ links'[q].status = "rejected" =>
                              \E i \in Rows(q) : journal[i].action = "reject" /\ Rows(q) = {i}
                        /\ links'[q].status \notin {"confirmed", "rejected"} => Rows(q) = {}
      BY <2>2 DEF JournalTellsStatus, Status, Rows
    <3>1. CASE q = p
      BY <2>2, <3>1 DEF JournalTellsStatus
    <3>2. CASE q # p
      BY <2>2, <3>2 DEF JournalTellsStatus, Status
    <3> QED BY <3>1, <3>2
  <2>3. ASSUME NEW p \in Products, NEW action \in Actions, NEW o \in Operators,
               TakesEffect(p, action, o, o)
        PROVE  JournalTellsStatus'
    <3> DEFINE n == Len(journal) + 1
               row == [action |-> action, product |-> p, operator |-> o, author |-> o]
    <3>1. row \in Row /\ row.action = action /\ row.product = p /\ journal' = Append(journal, row)
      BY <2>3 DEF TakesEffect, Record, Row
    <3> HIDE DEF row
    <3>2. /\ journal \in Seq(Row) /\ DOMAIN journal' = DOMAIN journal \cup {n} /\ n \notin DOMAIN journal
          /\ \A i \in DOMAIN journal : journal'[i] = journal[i] /\ i < n
          /\ journal'[n] = row
      BY <3>1, RecordIs DEF DeskTypeOK, Row
    <3> HIDE DEF n
    <3>3. /\ Rows(p)' = Rows(p) \cup {n}
          /\ \A q \in Products \ {p} : Rows(q)' = Rows(q)
      BY <3>1, <3>2 DEF Rows
    <3>4. \A i \in DOMAIN journal : journal'[i].action = journal[i].action
      BY <3>2
    <3>5. ASSUME NEW q \in Products, q # p
          PROVE  /\ (Status(q) = "confirmed" =>
                        \E i \in Rows(q) :
                            \/ journal[i].action \in {"confirm", "create_new"} /\ Rows(q) = {i}
                            \/ /\ journal[i].action = "create_new"
                               /\ \E j \in Rows(q) :
                                     j < i /\ journal[j].action = "reject" /\ Rows(q) = {j, i})'
                 /\ (Status(q) = "rejected" =>
                        \E i \in Rows(q) : journal[i].action = "reject" /\ Rows(q) = {i})'
                 /\ (Status(q) \notin {"confirmed", "rejected"} => Rows(q) = {})'
      <4>1. Status(q)' = Status(q) /\ Rows(q)' = Rows(q)
        BY <2>3, <3>3, <3>5 DEF TakesEffect, Status
      <4>2. \A i \in Rows(q) : journal'[i].action = journal[i].action
        BY <3>4 DEF Rows
      <4> QED BY <4>1, <4>2 DEF JournalTellsStatus
    <3>6. /\ (Status(p) = "confirmed" =>
                 \E i \in Rows(p) :
                     \/ journal[i].action \in {"confirm", "create_new"} /\ Rows(p) = {i}
                     \/ /\ journal[i].action = "create_new"
                        /\ \E j \in Rows(p) :
                              j < i /\ journal[j].action = "reject" /\ Rows(p) = {j, i})'
          /\ (Status(p) = "rejected" =>
                 \E i \in Rows(p) : journal[i].action = "reject" /\ Rows(p) = {i})'
          /\ (Status(p) \notin {"confirmed", "rejected"} => Rows(p) = {})'
      <4>1. Status(p)' = IF action = "reject" THEN "rejected" ELSE "confirmed"
        BY <2>3 DEF TakesEffect, Status
      <4>2. CASE Status(p) = "rejected"
        <5>1. action = "create_new" /\ Status(p)' = "confirmed"
          BY <2>3, <4>1, <4>2 DEF TakesEffect
        <5>2. PICK j \in Rows(p) : journal[j].action = "reject" /\ Rows(p) = {j}
          BY <4>2 DEF JournalTellsStatus
        <5>3. j \in Rows(p)' /\ n \in Rows(p)' /\ Rows(p)' = {j, n} /\ j < n
          BY <3>2, <3>3, <5>2 DEF Rows
        <5>4. journal'[n].action = "create_new" /\ journal'[j].action = "reject"
          BY <3>1, <3>2, <3>4, <5>1, <5>2 DEF Rows
        <5> QED BY <5>1, <5>3, <5>4
      <4>3. CASE Status(p) # "rejected"
        <5>1. Rows(p) = {}
          BY <2>3, <4>3 DEF TakesEffect, JournalTellsStatus
        <5>2. n \in Rows(p)' /\ Rows(p)' = {n} /\ journal'[n].action = action
          BY <3>1, <3>2, <3>3, <5>1
        <5> QED BY <4>1, <5>2 DEF Actions
      <4> QED BY <4>2, <4>3
    <3> QED BY <3>5, <3>6 DEF JournalTellsStatus
  <2> QED BY <2>1, <2>2, <2>3, StepOnLinks
<1> QED BY <1>1, <1>2, DeskTypeCorrect, PTL DEF Spec

\* The gateway vouches for the operator: whose decision a row tells of is who clicked, and his
\* token allows him to.
THEOREM JournalIsSigned == Spec => []JournalNamesOperator
<1>1. Init => JournalNamesOperator
  BY DEF Init, JournalNamesOperator
<1>2. DeskTypeOK /\ JournalNamesOperator /\ [Next]_vars => JournalNamesOperator'
  <2> SUFFICES ASSUME DeskTypeOK, JournalNamesOperator, [Next]_vars PROVE JournalNamesOperator'
    OBVIOUS
  <2>1. CASE UNCHANGED journal
    BY <2>1 DEF JournalNamesOperator
  <2>2. ASSUME NEW p \in Products, NEW action \in Actions, NEW o \in Operators,
               TakesEffect(p, action, o, o), "matching:curate" \in ScopesOf[o]
        PROVE  JournalNamesOperator'
    <3> DEFINE n == Len(journal) + 1
               row == [action |-> action, product |-> p, operator |-> o, author |-> o]
    <3>1. row \in Row /\ row.operator = o /\ row.author = o /\ journal' = Append(journal, row)
      BY <2>2 DEF TakesEffect, Record, Row
    <3> HIDE DEF row
    <3>2. /\ journal \in Seq(Row) /\ DOMAIN journal' = DOMAIN journal \cup {n}
          /\ \A i \in DOMAIN journal : journal'[i] = journal[i]
          /\ journal'[n] = row
      BY <3>1, RecordIs DEF DeskTypeOK, Row
    <3> HIDE DEF n
    <3> QED BY <2>2, <3>1, <3>2 DEF JournalNamesOperator
  <2> QED BY <2>1, <2>2, StepOnLinks
<1> QED BY <1>1, <1>2, DeskTypeCorrect, PTL DEF Spec

-----------------------------------------------------------------------------
(* Who waits his turn.                                                     *)

LEMMA Refills ==
  ASSUME NEW tokens \in Nat, NEW last \in Nat, NEW time \in Nat, NEW w \in Nat, NEW rate \in Nat,
         last <= time, time <= w
  PROVE  /\ tokens + (time - last) * rate + (w - time) * rate = tokens + (w - last) * rate
         /\ (w - time) * rate >= 0
<1> DEFINE a == time - last  b == w - time
<1>1. a \in Nat /\ b \in Nat /\ w - last = a + b
  OBVIOUS
<1> HIDE DEF a, b
<1>2. (a + b) * rate = a * rate + b * rate /\ a * rate \in Nat /\ b * rate \in Nat
  BY <1>1
<1> QED BY <1>1, <1>2 DEF a, b

\* When the time has come the token is there.
LEMMA HasToken ==
  ASSUME BucketTypeOK, NEW p \in Principals, NEW w \in Nat, TokenBy(buckets[p], w), now >= w
  PROVE  Allowed(p)
<1> DEFINE tokens == buckets[p].tokens  last == buckets[p].last
           held == tokens + (w - last) * Rate  sum == tokens + (now - last) * Rate
<1>1. /\ tokens \in Nat /\ last \in Nat /\ last <= w /\ w <= now /\ now \in Nat /\ Cost <= held
      /\ Rate \in Nat /\ Burst \in Nat /\ Cost \in Nat /\ Cost <= Burst /\ sum \in Int
  BY BucketFacts, GatewayAssumption DEF TokenBy
<1>2. Refilled(p) = IF Burst <= sum THEN Burst ELSE sum
  BY RefilledIs
<1>3. held \in Nat /\ held <= sum
  <2> DEFINE x == (now - w) * Rate
  <2>1. held + x = sum /\ x >= 0
    <3> HIDE DEF tokens, last
    <3> QED BY <1>1, Refills
  <2>2. held \in Int /\ x \in Int
    <3> HIDE DEF tokens, last
    <3>1. w - last \in Int /\ now - w \in Int
      BY <1>1
    <3> QED BY <1>1, <3>1
  <2>3. held \in Nat
    <3>1. w - last \in Nat
      BY <1>1
    <3> HIDE DEF tokens, last
    <3>2. (w - last) * Rate \in Nat
      BY <1>1, <3>1
    <3> QED BY <1>1, <3>2
  <2> HIDE DEF held, x, sum
  <2> QED BY <1>1, <2>1, <2>2, <2>3
<1> HIDE DEF held, sum
<1>4. Refilled(p) >= Cost
  BY <1>1, <1>2, <1>3
<1> QED BY <1>4 DEF Allowed

\* A request that is turned away takes no token from those who wait for one.
LEMMA TurnedAway ==
  ASSUME BucketTypeOK, NEW p \in Principals, ~Allowed(p), Spend(p), UNCHANGED now,
         NEW w \in Nat, TokenBy(buckets[p], w)
  PROVE  TokenBy(buckets'[p], w)
<1> DEFINE tokens == buckets[p].tokens  last == buckets[p].last
           held == tokens + (w - last) * Rate  sum == tokens + (now - last) * Rate
<1>1. now < w
  BY HasToken, BucketFacts
<1>2. /\ tokens \in Nat /\ last \in Nat /\ last <= now /\ now \in Nat /\ Cost <= held
      /\ Rate \in Nat /\ Burst \in Nat /\ Cost \in Nat /\ Cost <= Burst /\ sum \in Nat
  BY BucketFacts, GatewayAssumption DEF TokenBy
<1>3. Refilled(p) = IF Burst <= sum THEN Burst ELSE sum
  BY RefilledIs
<1>4. Refilled(p) = sum
  <2> HIDE DEF sum, held
  <2> QED BY <1>2, <1>3 DEF Allowed
<1>5. buckets'[p].tokens = sum /\ buckets'[p].last = now
  <2>1. buckets'[p] = [tokens |-> Refilled(p), last |-> now]
    BY SpendIs
  <2> HIDE DEF sum
  <2> QED BY <1>4, <2>1
<1>6. sum + (w - now) * Rate = held
  <2> HIDE DEF tokens, last
  <2> QED BY <1>1, <1>2, Refills
<1> QED BY <1>1, <1>2, <1>5, <1>6 DEF TokenBy

\* Who waits as long as he was told, or as long as a browser waits at most, will have a token.
LEMMA Postponed ==
  ASSUME BucketTypeOK, NEW p \in Principals, ~Allowed(p), Spend(p), UNCHANGED now,
         Cost <= MaxWait * Rate
  PROVE  TokenBy(buckets'[p], Wake(now, RetryAfter(p)))
<1>1. PICK k \in Nat : Wake(now, RetryAfter(p)) = now + k /\ (k = RetryAfter(p) \/ k = MaxWait)
  BY WakeIs
<1>2. buckets'[p].tokens = Refilled(p) /\ buckets'[p].last = now /\ now \in Nat /\ Refilled(p) \in Nat
  <2>1. buckets'[p] = [tokens |-> Refilled(p), last |-> now]
    BY SpendIs
  <2>2. Refilled(p) \in 0..Burst /\ now \in Nat /\ Burst \in Nat
    BY RefilledIs, BucketFacts
  <2> QED BY <2>1, <2>2
<1>3. k * Rate \in Nat /\ Cost \in Nat
  BY BucketFacts
<1>4. Cost <= Refilled(p) + k * Rate
  <2>1. CASE k = RetryAfter(p)
    BY <2>1, RetryIs
  <2>2. CASE k = MaxWait
    <3> DEFINE x == k * Rate
    <3>1. Cost <= x
      BY <2>2
    <3> HIDE DEF x
    <3> QED BY <1>2, <1>3, <3>1 DEF x
  <2> QED BY <1>1, <2>1, <2>2
<1>5. (now + k) - now = k /\ now <= now + k
  BY <1>2
<1> QED BY <1>1, <1>2, <1>4, <1>5 DEF TokenBy

\* A decision that stays what it was stays patient, if its bucket does, or a token will be
\* there, or it is not alone any more.
LEMMA StaysPatient ==
  ASSUME NEW u \in Tasks, Patient(u), Alike(u),
         task[u] # Idle /\ task[u].stage = "resend" /\ ~task[u].crowded =>
            task'[u].crowded \/ TokenBy(buckets'[task[u].by], task[u].wake)
  PROVE  Patient(u)'
BY DEF Patient, Alike, TokenBy

\* The bucket a principal's request changes: the others who wait are patient still, his own
\* if the request was turned away or they are not alone any more.
LEMMA OthersStayPatient ==
  ASSUME DeskTypeOK, Patience, NEW p \in Principals, Spend(p), UNCHANGED now, NEW u \in Tasks, Alike(u),
         Allowed(p) /\ task[u] # Idle /\ task[u].by = p /\ task[u].stage = "resend" => task'[u].crowded
  PROVE  Patient(u)'
<1>1. Patient(u) /\ QueueTypeOK /\ BucketTypeOK
  BY DEF Patience, DeskTypeOK
<1>2. ASSUME task[u] # Idle, task[u].stage = "resend", ~task[u].crowded
      PROVE  task'[u].crowded \/ TokenBy(buckets'[task[u].by], task[u].wake)
  <2>1. task[u].by \in Principals /\ task[u].wake \in Nat /\ TokenBy(buckets[task[u].by], task[u].wake)
    BY <1>1, <1>2, TaskTypes, DeskAssumption DEF Patient
  <2>2. CASE task[u].by # p
    BY <1>1, <2>1, <2>2, SpendIs
  <2>3. CASE task[u].by = p /\ ~Allowed(p)
    BY <1>1, <2>1, <2>3, TurnedAway
  <2>4. CASE task[u].by = p /\ Allowed(p)
    BY <1>2, <2>4
  <2> QED BY <2>2, <2>3, <2>4
<1> QED BY <1>1, <1>2, StaysPatient

\* A browser that waits as long as it was told is served, unless its principal has sent
\* something else meanwhile: if the most a browser waits brings a token back, as the defaults
\* do (20 requests a second, five seconds).
THEOREM PoliteIsServed ==
  ASSUME Cost <= MaxWait * Rate
  PROVE  Spec => []PoliteRetryIsServed
<1>1. Init => Patience
  BY DEF Init, QueueInit, Patience, Patient
<1>2. DeskTypeOK /\ Patience /\ [Next]_vars => Patience'
  <2> SUFFICES ASSUME DeskTypeOK, Patience, [Next]_vars PROVE Patience'
    OBVIOUS
  <2>1. QueueTypeOK /\ BucketTypeOK /\ Operators \subseteq Principals
    BY DeskAssumption DEF DeskTypeOK
  <2>2. ASSUME UNCHANGED buckets, NEW u \in Tasks, Alike(u)
        PROVE  Patient(u)'
    BY <2>2, StaysPatient DEF Patience, Patient
  <2>3. UNCHANGED task => \A u \in Tasks : Alike(u)
    BY DEF Alike
  <2>4. ASSUME UNCHANGED <<task, buckets>>
        PROVE  Patience'
    BY <2>2, <2>3, <2>4 DEF Patience
  <2>5. ASSUME NEW o \in Operators, LoadPage(o)
        PROVE  Patience'
    <3>1. Crowd(o) /\ Spend(o) /\ UNCHANGED now /\ o \in Principals
      BY <2>5, LoadPageIs
    <3> QED BY <2>1, <3>1, CrowdIs, OthersStayPatient DEF Patience
  <2>6. ASSUME NEW o \in Operators, NEW t \in Tasks, NEW p \in Products, NEW action \in Actions,
               Choose(o, t, p, action)
        PROVE  Patience'
    <3>1. /\ task'[t].stage = "send" /\ task'[t].answer = "none" /\ UNCHANGED buckets
          /\ \A u \in Tasks \ {t} : Alike(u)
      BY <2>6, ChooseIs DEF Alike, gatewayVars
    <3>2. Patient(t)'
      BY <3>1 DEF Patient
    <3> QED BY <2>2, <3>1, <3>2 DEF Patience
  <2>7. ASSUME NEW t \in Tasks, SettleTask(t)
        PROVE  Patience'
    <3>1. task'[t] = Idle /\ UNCHANGED buckets /\ \A u \in Tasks \ {t} : Alike(u)
      BY <2>7, SettleIs DEF Alike, gatewayVars
    <3>2. Patient(t)'
      BY <3>1 DEF Patient
    <3> QED BY <2>2, <3>1, <3>2 DEF Patience
  <2>8. ASSUME NEW t \in Tasks, Send(t) \/ SendLost(t)
        PROVE  Patience'
    <3> DEFINE p == task[t].by
    <3>1. p \in Principals /\ Spend(p) /\ UNCHANGED now /\ task[t] # Idle
      BY <2>1, <2>8, SendIs DEF Admit, Scoped, Authenticated
    <3>2. PICK answer \in Answers : AnswerAndCrowd(t, answer) /\ answer # "limited"
      BY <2>8, SendIs
    <3>3. /\ task'[t].stage = "answered" /\ task'[t].answer = answer
          /\ \A u \in Tasks \ {t} :
                /\ Alike(u)
                /\ task[u] # Idle /\ task[u].by = p /\ task[u].stage = "resend" => task'[u].crowded
      BY <2>1, <3>1, <3>2, AnswerIs
    <3> HIDE DEF p
    <3>4. ASSUME NEW u \in Tasks \ {t}
          PROVE  Patient(u)'
      BY <3>1, <3>3, OthersStayPatient
    <3>5. Patient(t)'
      BY <3>2, <3>3 DEF Patient
    <3> QED BY <3>4, <3>5 DEF Patience
  <2>9. ASSUME NEW t \in Tasks, SendLimited(t)
        PROVE  Patience'
    <3> DEFINE p == task[t].by  until == Wake(now, RetryAfter(p))
    <3>1. /\ task[t] # Idle /\ now >= task[t].wake /\ task[t].stage \in {"send", "resend"}
          /\ p \in Principals /\ ~Allowed(p) /\ Spend(p) /\ UNCHANGED now
          /\ IF task[t].stage = "send" THEN Postpone(t, until) ELSE Answer(t, "limited")
      BY <2>9 DEF SendLimited, Sending, Limit, Scoped, Authenticated
    <3>2. until \in Nat
      BY <2>1, <3>1, WakeIs
    <3>3. /\ \A u \in Tasks \ {t} : Alike(u)
          /\ task'[t] # Idle /\ task'[t].by = p
          /\ IF task[t].stage = "send"
             THEN /\ task'[t].stage = "resend" /\ task'[t].answer = task[t].answer
                  /\ task'[t].wake = until
             ELSE task'[t].stage = "answered" /\ task'[t].crowded = task[t].crowded
      BY <2>1, <3>1, <3>2, LimitedIs
    <3>4. Patient(t) /\ task[t].wake \in Nat
      BY <2>1, <3>1, TaskTypes DEF Patience
    <3>5. ASSUME task[t].stage = "send"
          PROVE  Patient(t)'
      <4>1. TokenBy(buckets'[p], until)
        BY <2>1, <3>1, Postponed
      <4>2. task[t].answer = "none"
        BY <3>1, <3>4, <3>5 DEF Patient
      <4> HIDE DEF p, until
      <4>3. /\ task'[t].stage = "resend" /\ task'[t].answer = "none"
            /\ TokenBy(buckets'[task'[t].by], task'[t].wake)
        BY <3>3, <3>5, <4>1, <4>2
      <4> QED BY <4>3 DEF Patient, TokenBy
    <3>6. ASSUME task[t].stage = "resend"
          PROVE  Patient(t)'
      <4>1. task[t].crowded
        BY <2>1, <3>1, <3>4, <3>6, HasToken DEF Patient
      <4>2. task'[t].stage = "answered" /\ task'[t].crowded
        BY <3>3, <3>6, <4>1
      <4> QED BY <4>2 DEF Patient
    <3>7. Patient(t)'
      BY <3>1, <3>5, <3>6
    <3> HIDE DEF p
    <3>8. ASSUME NEW u \in Tasks \ {t}
          PROVE  Patient(u)'
      BY <3>1, <3>3, OthersStayPatient
    <3> QED BY <3>7, <3>8 DEF Patience
  <2>10. ASSUME NEW p \in Principals \cup Strangers, NEW op \in Operations, Call(p, op)
         PROVE  Patience'
    <3>1. CASE Refuse(p, op) /\ UNCHANGED task
      BY <2>4, <3>1 DEF Refuse, gatewayVars
    <3>2. CASE Limit(p, op) /\ UNCHANGED task
      <4>1. p \in Principals /\ ~Allowed(p) /\ Spend(p) /\ UNCHANGED now
        BY <3>2 DEF Limit, Scoped, Authenticated
      <4> QED BY <2>3, <3>2, <4>1, OthersStayPatient DEF Patience
    <3>3. CASE Admit(p, op) /\ Crowd(p)
      <4>1. p \in Principals /\ Spend(p) /\ UNCHANGED now
        BY <3>3 DEF Admit, Scoped, Authenticated
      <4> QED BY <2>1, <3>3, <4>1, CrowdIs, OthersStayPatient DEF Patience
    <3> QED BY <2>10, <3>1, <3>2, <3>3 DEF Call
  <2>11. ASSUME NEW p \in Products, Discover(p)
         PROVE  Patience'
    BY <2>4, <2>11 DEF Discover, queueVars, gatewayVars
  <2>12. ASSUME NEW o \in Operators, ShowPage(o)
         PROVE  Patience'
    BY <2>4, <2>12 DEF ShowPage, PageArrives, gatewayVars
  <2>13. CASE Tick \/ UNCHANGED vars
    BY <2>4, <2>13 DEF Tick, vars, queueVars, gatewayVars
  <2> QED BY <2>5, <2>6, <2>7, <2>8, <2>9, <2>10, <2>11, <2>12, <2>13 DEF Next
<1>3. Patience => PoliteRetryIsServed
  BY DEF Patience, Patient, PoliteRetryIsServed
<1> QED BY <1>1, <1>2, <1>3, DeskTypeCorrect, PTL DEF Spec

-----------------------------------------------------------------------------
(* The items.                                                              *)

\* A link does not go away, a decided link stays decided, and no link comes back to be
\* decided again.
LEMMA LinksStay ==
  ASSUME DeskTypeOK, [Next]_vars, NEW p \in Products
  PROVE  /\ p \in Known => p \in Known'
         /\ Status(p) \in Decided => links'[p].status \in Decided
         /\ p \in Known /\ p \in Pending' => p \in Pending
<1>1. CASE UNCHANGED <<links, journal>>
  BY <1>1 DEF Known, Pending, Status
<1>2. ASSUME NEW q \in Products, Status(q) = "none", links'[q].status = "pending_review",
             \A r \in Products \ {q} : links'[r] = links[r]
      PROVE  /\ p \in Known => p \in Known'
             /\ Status(p) \in Decided => links'[p].status \in Decided
             /\ p \in Known /\ p \in Pending' => p \in Pending
  <2>1. CASE p = q
    BY <1>2, <2>1 DEF Known, Pending, Status, Decided
  <2>2. CASE p # q
    BY <1>2, <2>2 DEF Known, Pending, Status
  <2> QED BY <2>1, <2>2
<1>3. ASSUME NEW q \in Products, NEW action \in Actions, NEW o \in Operators, TakesEffect(q, action, o, o)
      PROVE  /\ p \in Known => p \in Known'
             /\ Status(p) \in Decided => links'[p].status \in Decided
             /\ p \in Known /\ p \in Pending' => p \in Pending
  <2>1. links'[q].status \in Decided /\ \A r \in Products \ {q} : links'[r] = links[r]
    BY <1>3 DEF TakesEffect, Decided
  <2>2. CASE p = q
    BY <2>1, <2>2 DEF Known, Pending, Status, Decided
  <2>3. CASE p # q
    BY <2>1, <2>3 DEF Known, Pending, Status
  <2> QED BY <2>2, <2>3
<1> QED BY <1>1, <1>2, <1>3, StepOnLinks

\* u is the decision it was; if its item stays away for good, it is decided.
Kept(u) ==
    /\ task'[u] = Idle <=> task[u] = Idle
    /\ task[u] # Idle =>
          /\ task'[u].by = task[u].by /\ task'[u].product = task[u].product /\ task'[u].prev = task[u].prev
          /\ task'[u].stage = "answered" /\ Gone(task'[u].action, task'[u].answer) =>
                \/ task[u].stage = "answered" /\ Gone(task[u].action, task[u].answer)
                \/ links'[task[u].product].status \in Decided

LEMMA AlikeIsKept ==
  ASSUME NEW u \in Tasks, Alike(u)
  PROVE  Kept(u)
BY DEF Alike, Kept

\* Decisions that stay what they were are those of whom they were.
LEMMA InFlightIs ==
  ASSUME NEW o, \A u \in Tasks : Kept(u)
  PROVE  InFlight(o)' = InFlight(o)
BY DEF InFlight, Kept

\* An answer: the item is decided if it stays away.
LEMMA AnswerIsTrue ==
  ASSUME DeskTypeOK, SeesKnown, NEW t \in Tasks, Send(t) \/ SendLost(t)
  PROVE  \A u \in Tasks : Kept(u)
<1>1. QueueTypeOK /\ task[t] # Idle /\ task[t].product \in Known
  BY SendIs DEF DeskTypeOK, SeesKnown
<1>2. PICK answer \in Answers :
         /\ AnswerAndCrowd(t, answer)
         /\ answer = "ok" => links'[task[t].product].status \in Decided
         /\ answer \in {"conflict", "not_found"} =>
               answer = Reply(task[t].product, task[t].action) /\ UNCHANGED matching
  BY SendIs
<1>3. \A u \in Tasks \ {t} : Kept(u)
  BY <1>1, <1>2, AnswerIs, AlikeIsKept
<1>4. /\ task'[t] # Idle /\ task'[t].stage = "answered" /\ task'[t].answer = answer
      /\ task'[t].by = task[t].by /\ task'[t].product = task[t].product
      /\ task'[t].action = task[t].action /\ task'[t].prev = task[t].prev
  BY <1>1, <1>2, AnswerIs
<1>5. Gone(task[t].action, answer) => links'[task[t].product].status \in Decided
  <2>1. CASE answer = "ok"
    BY <1>2, <2>1
  <2>2. CASE answer = "conflict"
    <3>1. Conflicting(task[t].product, task[t].action) /\ UNCHANGED links
      BY <1>2, <2>2 DEF Reply, matching
    <3> QED BY <3>1 DEF Conflicting, Status, Decided
  <2>3. CASE answer = "not_found"
    <3>1. Status(task[t].product) = "none"
      BY <1>2, <2>3 DEF Reply
    <3> QED BY <1>1, <3>1 DEF Known
  <2>4. CASE answer \notin {"ok", "conflict", "not_found"}
    BY <2>4 DEF Gone
  <2> QED BY <2>1, <2>2, <2>3, <2>4
<1> QED BY <1>1, <1>3, <1>4, <1>5 DEF Kept

LEMMA LimitIsTrue ==
  ASSUME DeskTypeOK, NEW t \in Tasks, SendLimited(t)
  PROVE  \A u \in Tasks : Kept(u)
<1> DEFINE until == Wake(now, RetryAfter(task[t].by))
<1>1. /\ QueueTypeOK /\ BucketTypeOK /\ task[t] # Idle /\ task[t].by \in Principals /\ ~Allowed(task[t].by)
      /\ IF task[t].stage = "send" THEN Postpone(t, until) ELSE Answer(t, "limited")
  BY DEF DeskTypeOK, SendLimited, Sending, Limit, Scoped, Authenticated
<1>2. until \in Nat
  BY <1>1, WakeIs
<1>3. /\ \A u \in Tasks \ {t} : Alike(u)
      /\ task'[t] # Idle /\ task'[t].by = task[t].by /\ task'[t].product = task[t].product
      /\ task'[t].prev = task[t].prev
      /\ task'[t].stage = "resend" \/ task'[t].answer = "limited"
  BY <1>1, <1>2, LimitedIs
<1>4. Kept(t)
  BY <1>1, <1>3 DEF Kept, Gone
<1> QED BY <1>3, <1>4, AlikeIsKept

\* What a step does to the browsers: one of them loads a page, shows it, sends a decision or
\* settles it, or each keeps what it has.
LEMMA StepOnQueues ==
  ASSUME DeskTypeOK, SeesKnown, [Next]_vars
  PROVE  \/ (\A u \in Tasks : Kept(u)) /\ UNCHANGED <<queue, fetch, loaded, overlapped>>
         \/ \E o \in Operators : LoadPage(o) \/ ShowPage(o)
         \/ \E o \in Operators, t \in Tasks, p \in Products, action \in Actions : Choose(o, t, p, action)
         \/ \E t \in Tasks : SettleTask(t)
<1>1. UNCHANGED task => \A u \in Tasks : Kept(u)
  BY DEF Kept
<1>2. ASSUME NEW t \in Tasks, SendLimited(t) \/ Send(t) \/ SendLost(t)
      PROVE  (\A u \in Tasks : Kept(u)) /\ UNCHANGED <<queue, fetch, loaded, overlapped>>
  BY <1>2, AnswerIsTrue, LimitIsTrue DEF SendLimited, Send, SendLost
<1>3. ASSUME NEW p \in Principals \cup Strangers, NEW op \in Operations, Call(p, op)
      PROVE  (\A u \in Tasks : Kept(u)) /\ UNCHANGED <<queue, fetch, loaded, overlapped>>
  BY <1>3, CallIs, AlikeIsKept
<1>4. ASSUME NEW p \in Products, Discover(p)
      PROVE  (\A u \in Tasks : Kept(u)) /\ UNCHANGED <<queue, fetch, loaded, overlapped>>
  BY <1>1, <1>4 DEF Discover, queueVars
<1>5. ASSUME Tick \/ UNCHANGED vars
      PROVE  (\A u \in Tasks : Kept(u)) /\ UNCHANGED <<queue, fetch, loaded, overlapped>>
  BY <1>1, <1>5 DEF Tick, vars, queueVars
<1> QED BY <1>2, <1>3, <1>4, <1>5 DEF Next

LEMMA SeesKnownStays ==
  ASSUME DeskTypeOK, SeesKnown, [Next]_vars
  PROVE  SeesKnown'
<1>1. \A p \in Known : p \in Known'
  BY LinksStay DEF Known
<1>2. QueueTypeOK
  BY DEF DeskTypeOK
<1>3. CASE (\A u \in Tasks : Kept(u)) /\ UNCHANGED <<queue, fetch, loaded, overlapped>>
  BY <1>1, <1>3 DEF SeesKnown, Kept
<1>4. ASSUME NEW o \in Operators, LoadPage(o)
      PROVE  SeesKnown'
  <2>1. PICK page \in Queues : /\ page.items \subseteq Pending
                               /\ fetch' = [fetch EXCEPT ![o] = [base |-> queue[o], page |-> page]]
    BY <1>4, LoadPageIs
  <2>2. UNCHANGED <<queue, loaded>> /\ \A u \in Tasks : Alike(u)
    BY <1>2, <1>4, LoadPageIs, CrowdIs
  <2>3. page.items \subseteq Known
    BY <2>1 DEF Pending, Known
  <2>4. /\ fetch'[o].base.items = queue[o].items /\ fetch'[o].page.items = page.items
        /\ \A q \in Operators \ {o} : fetch'[q] = fetch[q]
    BY <1>2, <2>1 DEF QueueTypeOK
  <2> QED BY <1>1, <2>2, <2>3, <2>4 DEF SeesKnown, Alike
<1>5. ASSUME NEW o \in Operators, ShowPage(o)
      PROVE  SeesKnown'
  BY <1>1, <1>5, ShowPageIs DEF SeesKnown
<1>6. ASSUME NEW o \in Operators, NEW t \in Tasks, NEW p \in Products, NEW action \in Actions,
             Choose(o, t, p, action)
      PROVE  SeesKnown'
  BY <1>1, <1>6, ChooseIs DEF SeesKnown
<1>7. ASSUME NEW t \in Tasks, SettleTask(t)
      PROVE  SeesKnown'
  <2>1. task[t].by \in Operators /\ task[t].prev.items \subseteq Known
    BY <1>2, <1>7, SettleIs, TaskTypes DEF SeesKnown
  <2>2. \A o \in Operators : queue'[o].items \subseteq Known
    BY <1>7, <2>1, SettleIs DEF SeesKnown
  <2> QED BY <1>1, <1>7, <2>2, SettleIs DEF SeesKnown
<1> QED BY <1>3, <1>4, <1>5, <1>6, <1>7, StepOnQueues

LEMMA DecidedStays ==
  ASSUME DeskTypeOK, SeesKnown, AnsweredIsDecided, [Next]_vars
  PROVE  AnsweredIsDecided'
<1>1. \A p \in Products : Status(p) \in Decided => links'[p].status \in Decided
  BY LinksStay
<1>2. QueueTypeOK
  BY DEF DeskTypeOK
<1>3. ASSUME NEW u \in Tasks, Kept(u) \/ task'[u] = Idle \/ task'[u].stage = "send"
      PROVE  (task[u] # Idle /\ task[u].stage = "answered" /\ Gone(task[u].action, task[u].answer) =>
                Status(task[u].product) \in Decided)'
  <2> SUFFICES ASSUME task'[u] # Idle, task'[u].stage = "answered", Gone(task'[u].action, task'[u].answer)
               PROVE  links'[task'[u].product].status \in Decided
    BY DEF Status, Gone
  <2>1. /\ task[u] # Idle /\ task'[u].product = task[u].product
        /\ \/ task[u].stage = "answered" /\ Gone(task[u].action, task[u].answer)
           \/ links'[task[u].product].status \in Decided
    BY <1>3 DEF Kept
  <2>2. task[u].product \in Products
    BY <1>2, <2>1, TaskTypes
  <2> QED BY <1>1, <2>1, <2>2 DEF AnsweredIsDecided
<1>4. \A u \in Tasks : UNCHANGED task[u] => Kept(u)
  BY DEF Kept
<1>5. ASSUME NEW u \in Tasks
      PROVE  Kept(u) \/ task'[u] = Idle \/ task'[u].stage = "send"
  <2>1. ASSUME NEW o \in Operators, LoadPage(o)
        PROVE  Kept(u)
    BY <1>2, <2>1, LoadPageIs, CrowdIs, AlikeIsKept
  <2>2. ASSUME NEW o \in Operators, ShowPage(o)
        PROVE  Kept(u)
    BY <1>4, <2>2, ShowPageIs
  <2>3. ASSUME NEW o \in Operators, NEW t \in Tasks, NEW p \in Products, NEW action \in Actions,
               Choose(o, t, p, action)
        PROVE  Kept(u) \/ task'[u].stage = "send"
    BY <1>4, <2>3, ChooseIs
  <2>4. ASSUME NEW t \in Tasks, SettleTask(t)
        PROVE  Kept(u) \/ task'[u] = Idle
    BY <1>4, <2>4, SettleIs
  <2> QED BY <2>1, <2>2, <2>3, <2>4, StepOnQueues
<1> QED BY <1>3, <1>5 DEF AnsweredIsDecided

\* One operator.
OneThing(o) ==
    ~overlapped[o] =>
        /\ fetch[o] # NotFetching => InFlight(o) = {} /\ fetch[o].base.items = queue[o].items
        /\ \A t \in InFlight(o) :
              InFlight(o) = {t} /\ task[t].prev.items = queue[o].items \cup {task[t].product}

WithinReach(o) ==
    ~overlapped[o] =>
        \A p \in loaded[o] \cap Pending :
            p \in queue[o].items \/ \E t \in InFlight(o) : task[t].product = p

\* Nothing of o's changes.
LEMMA LeftAlone ==
  ASSUME DeskTypeOK, SeesKnown, [Next]_vars, NEW o \in Operators, OneThing(o), WithinReach(o),
         UNCHANGED <<queue[o].items, fetch[o], loaded[o], overlapped[o]>>,
         InFlight(o)' = InFlight(o),
         \A t \in InFlight(o) : task'[t].product = task[t].product /\ task'[t].prev = task[t].prev
  PROVE  OneThing(o)' /\ WithinReach(o)'
<1>1. OneThing(o)'
  BY DEF OneThing
<1>2. \A p \in loaded[o] : p \in Pending' => p \in Pending
  BY LinksStay DEF SeesKnown, Known
<1>3. WithinReach(o)'
  BY <1>2 DEF WithinReach
<1> QED BY <1>1, <1>3

LEMMA ItemsStay ==
  ASSUME DeskTypeOK, ItemsInv, [Next]_vars, NEW o \in Operators
  PROVE  OneThing(o)' /\ WithinReach(o)'
<1>1. SeesKnown /\ AnsweredIsDecided /\ OneThing(o) /\ WithinReach(o) /\ QueueTypeOK
  BY DEF ItemsInv, OneAtATime, NoItemIsLost, OneThing, WithinReach, DeskTypeOK
<1>2. \A p \in loaded[o] : p \in Pending' => p \in Pending
  BY <1>1, LinksStay DEF SeesKnown, Known
<1>3. ASSUME \A u \in Tasks : Kept(u)
      PROVE  /\ InFlight(o)' = InFlight(o)
             /\ \A t \in InFlight(o) : task'[t].product = task[t].product /\ task'[t].prev = task[t].prev
  BY <1>3, InFlightIs DEF InFlight, Kept
<1>4. CASE (\A u \in Tasks : Kept(u)) /\ UNCHANGED <<queue, fetch, loaded, overlapped>>
  BY <1>1, <1>3, <1>4, LeftAlone
<1>5. ASSUME NEW x \in Operators, LoadPage(x)
      PROVE  OneThing(o)' /\ WithinReach(o)'
  <2>1. \A u \in Tasks : Kept(u)
    BY <1>1, <1>5, LoadPageIs, CrowdIs, AlikeIsKept
  <2>2. PICK page \in Queues : fetch' = [fetch EXCEPT ![x] = [base |-> queue[x], page |-> page]]
    BY <1>5, LoadPageIs
  <2>3. UNCHANGED <<queue, loaded>> /\ Overlap(x)
    BY <1>5, LoadPageIs
  <2>4. CASE x # o
    <3>1. fetch'[o] = fetch[o] /\ overlapped'[o] = overlapped[o]
      BY <1>1, <2>2, <2>3, <2>4, OverlapTypes DEF QueueTypeOK
    <3> QED BY <1>1, <1>3, <2>1, <2>3, <3>1, LeftAlone
  <2>5. CASE x = o
    <3>1. /\ fetch'[o].base = queue[o]
          /\ overlapped'[o] = (overlapped[o] \/ InFlight(o) # {})
      BY <1>1, <2>2, <2>3, <2>5, OverlapTypes DEF QueueTypeOK
    <3>2. OneThing(o)'
      BY <1>1, <1>3, <2>1, <2>3, <3>1 DEF OneThing
    <3>3. WithinReach(o)'
      BY <1>1, <1>2, <1>3, <2>1, <2>3, <3>1 DEF WithinReach
    <3> QED BY <3>2, <3>3
  <2> QED BY <2>4, <2>5
<1>6. ASSUME NEW x \in Operators, ShowPage(x)
      PROVE  OneThing(o)' /\ WithinReach(o)'
  <2>1. InFlight(o)' = InFlight(o) /\ UNCHANGED <<task, overlapped>>
    BY <1>6, ShowPageIs DEF InFlight
  <2>2. CASE x # o
    BY <1>1, <1>6, <2>1, <2>2, LeftAlone, ShowPageIs
  <2>3. CASE x = o
    <3>1. /\ fetch[o] # NotFetching /\ fetch'[o] = NotFetching
          /\ queue'[o].items = fetch[o].base.items \cup fetch[o].page.items
          /\ loaded'[o] = loaded[o] \cup fetch[o].page.items
      BY <1>6, <2>3, ShowPageIs
    <3>2. OneThing(o)'
      BY <1>1, <2>1, <3>1 DEF OneThing
    <3>3. WithinReach(o)'
      <4> SUFFICES ASSUME ~overlapped[o], NEW p \in loaded'[o], p \in Pending'
                   PROVE  p \in queue'[o].items
        BY <2>1 DEF WithinReach
      <4>1. InFlight(o) = {} /\ fetch[o].base.items = queue[o].items
        BY <1>1, <3>1 DEF OneThing
      <4>2. p \in fetch[o].page.items \/ (p \in loaded[o] /\ p \in Pending)
        BY <1>2, <3>1
      <4> QED BY <1>1, <3>1, <4>1, <4>2 DEF WithinReach
    <3> QED BY <3>2, <3>3
  <2> QED BY <2>2, <2>3
<1>7. ASSUME NEW x \in Operators, NEW t \in Tasks, NEW p \in Products, NEW action \in Actions,
             Choose(x, t, p, action)
      PROVE  OneThing(o)' /\ WithinReach(o)'
  <2>1. /\ task[t] = Idle /\ p \in queue[x].items
        /\ task'[t] # Idle /\ task'[t].by = x /\ task'[t].product = p /\ task'[t].prev = queue[x]
        /\ \A u \in Tasks \ {t} : task'[u] = task[u]
        /\ queue'[x].items = queue[x].items \ {p} /\ fetch'[x] = NotFetching
        /\ \A q \in Operators \ {x} : queue'[q] = queue[q] /\ fetch'[q] = fetch[q]
        /\ Overlap(x) /\ UNCHANGED loaded
    BY <1>7, ChooseIs
  <2>2. CASE x # o
    <3>1. InFlight(o)' = InFlight(o)
      BY <2>1, <2>2 DEF InFlight
    <3>2. \A u \in InFlight(o) : task'[u] = task[u]
      BY <2>1 DEF InFlight
    <3>3. overlapped'[o] = overlapped[o]
      BY <1>1, <2>1, <2>2, OverlapTypes
    <3> QED BY <1>1, <2>1, <2>2, <3>1, <3>2, <3>3, LeftAlone
  <2>3. CASE x = o
    <3>1. overlapped'[o] = (overlapped[o] \/ InFlight(o) # {})
      BY <1>1, <2>1, <2>3, OverlapTypes
    <3>2. InFlight(o) = {} => InFlight(o)' = {t}
      BY <2>1, <2>3 DEF InFlight
    <3>3. OneThing(o)'
      BY <2>1, <2>3, <3>1, <3>2 DEF OneThing
    <3>4. WithinReach(o)'
      <4> SUFFICES ASSUME ~overlapped[o], InFlight(o) = {}, NEW q \in loaded[o], q \in Pending'
                   PROVE  q \in queue'[o].items \/ task'[t].product = q
        BY <2>1, <3>1, <3>2 DEF WithinReach
      <4>1. q \in queue[o].items
        BY <1>1, <1>2 DEF WithinReach
      <4> QED BY <2>1, <2>3, <4>1
    <3> QED BY <3>3, <3>4
  <2> QED BY <2>2, <2>3
<1>8. ASSUME NEW t \in Tasks, SettleTask(t)
      PROVE  OneThing(o)' /\ WithinReach(o)'
  <2> DEFINE p == task[t].product
  <2>1. /\ task[t] # Idle /\ task[t].stage = "answered" /\ task'[t] = Idle
        /\ \A u \in Tasks \ {t} : task'[u] = task[u]
        /\ IF Gone(task[t].action, task[t].answer) THEN UNCHANGED queue
           ELSE /\ queue'[task[t].by] = task[t].prev
                /\ \A q \in Operators \ {task[t].by} : queue'[q] = queue[q]
        /\ UNCHANGED <<fetch, loaded, overlapped>>
    BY <1>8, SettleIs
  <2>2. task[t].by \in Operators
    BY <1>1, <2>1, TaskTypes
  <2>3. CASE task[t].by # o
    <3>1. InFlight(o)' = InFlight(o) /\ \A u \in InFlight(o) : task'[u] = task[u]
      BY <2>1, <2>3 DEF InFlight
    <3>2. queue'[o] = queue[o]
      BY <2>1, <2>3
    <3> QED BY <1>1, <2>1, <3>1, <3>2, LeftAlone
  <2>4. CASE task[t].by = o
    <3> SUFFICES ASSUME ~overlapped[o]
                 PROVE  OneThing(o)' /\ WithinReach(o)'
      BY <2>1 DEF OneThing, WithinReach
    <3>1. t \in InFlight(o)
      BY <2>1, <2>4 DEF InFlight
    <3>2. InFlight(o) = {t} /\ task[t].prev.items = queue[o].items \cup {p} /\ fetch[o] = NotFetching
      BY <1>1, <3>1 DEF OneThing
    <3>3. InFlight(o)' = {}
      BY <2>1, <3>2 DEF InFlight
    <3>4. OneThing(o)'
      BY <2>1, <3>2, <3>3 DEF OneThing
    <3>5. WithinReach(o)'
      <4> SUFFICES ASSUME NEW q \in loaded[o], q \in Pending'
                   PROVE  q \in queue'[o].items
        BY <2>1 DEF WithinReach
      <4>1. q \in Pending /\ (q \in queue[o].items \/ q = p)
        BY <1>1, <1>2, <3>2 DEF WithinReach
      <4>2. CASE Gone(task[t].action, task[t].answer)
        <5>1. q # p
          BY <1>1, <2>1, <4>1, <4>2 DEF AnsweredIsDecided, Pending, Decided
        <5> QED BY <2>1, <4>1, <4>2, <5>1
      <4>3. CASE ~Gone(task[t].action, task[t].answer)
        BY <2>1, <2>4, <3>2, <4>1, <4>3
      <4> QED BY <4>2, <4>3
    <3> QED BY <3>4, <3>5
  <2> QED BY <2>3, <2>4
<1> QED BY <1>1, <1>4, <1>5, <1>6, <1>7, <1>8, StepOnQueues

\* However decisions fail, answers are lost and others decide meanwhile: what an operator has
\* loaded and nobody has decided stays in his queue, or its decision is on its way, as long as
\* he does one thing at a time.
THEOREM ItemsAreKept == Spec => []NoItemIsLost
<1>1. Init => ItemsInv
  BY DEF Init, QueueInit, ItemsInv, SeesKnown, OneAtATime, AnsweredIsDecided, NoItemIsLost, InFlight
<1>2. DeskTypeOK /\ ItemsInv /\ [Next]_vars => ItemsInv'
  <2> SUFFICES ASSUME DeskTypeOK, ItemsInv, [Next]_vars PROVE ItemsInv'
    OBVIOUS
  <2>1. SeesKnown' /\ AnsweredIsDecided'
    BY SeesKnownStays, DecidedStays DEF ItemsInv
  <2>2. \A o \in Operators : OneThing(o)' /\ WithinReach(o)'
    BY ItemsStay
  <2> QED BY <2>1, <2>2 DEF ItemsInv, OneAtATime, NoItemIsLost, OneThing, WithinReach
<1>3. ItemsInv => NoItemIsLost
  BY DEF ItemsInv
<1> QED BY <1>1, <1>2, <1>3, DeskTypeCorrect, PTL DEF Spec
=============================================================================
