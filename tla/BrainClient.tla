----------------------------- MODULE BrainClient -----------------------------
(***************************************************************************)
(* The Brain API client of one account and the two parts of the connector  *)
(* SDK it is built from: the token bucket (rate_limit.py) and the session  *)
(* cache (session.py).  Several coroutines may call one client.  An        *)
(* asyncio lock is a queue whose head holds it; a step ends where a        *)
(* coroutine waits for a lock, a sleep, the supplier or the archive.       *)
(*                                                                         *)
(* Time is counted in ticks, and only in differences: a token takes Cost   *)
(* ticks to refill, a second is Rate of them.  The bucket adds what has    *)
(* elapsed when it is next looked at, which is the same as adding it       *)
(* tick by tick.                                                           *)
(***************************************************************************)
EXTENDS Naturals, Sequences, FiniteSets

CONSTANTS Callers,
          Sids,     \* session ids, numbers
          NoSid,
          Rate,     \* tokens, that is requests, in a second; the bucket's capacity
          Cost,     \* ticks in which one token is refilled
          Ttl       \* ticks for which a session id is cached

VARIABLES level,         \* the bucket's content, in ticks
          rateQueue,     \* the bucket's lock
          asleep,        \* ticks its holder still sleeps
          sid, ttl,      \* the cached session id and the ticks it is still trusted
          sessionQueue,  \* the session manager's lock
          alive,         \* external: the sessions the supplier accepts
          call,          \* call[c]: where coroutine c is
          sent           \* history: sent[n]: the requests of the last n ticks

vars == <<level, rateQueue, asleep, sid, ttl, sessionQueue, alive, call, sent>>
bucketVars == <<level, rateQueue, asleep>>
sessionVars == <<sid, ttl, sessionQueue>>

ASSUME ClientAssumption ==
    /\ Sids \subseteq Nat /\ NoSid \notin Sids /\ IsFiniteSet(Callers)
    /\ Rate \in Nat \ {0} /\ Cost \in Nat \ {0} /\ Ttl \in Nat \ {0}

Second == Rate * Cost
Capacity == Rate * Cost

Places == {"idle", "rate", "session", "locked", "login rate", "login", "request", "archive", "drop"}
\* A result, the rate-limit error and any other error all end the call.
Answers == {"final", "expired"}
Calls == [at : Places, attempt : {0, 1}, sid : Sids \cup {NoSid}, answer : Answers]

Quiet == [at |-> "idle", attempt |-> 0, sid |-> NoSid, answer |-> "final"]

ClientTypeOK ==
    /\ level \in 0..Capacity /\ asleep \in 0..Cost
    /\ rateQueue \in Seq(Callers) /\ sessionQueue \in Seq(Callers)
    /\ sid \in Sids \cup {NoSid} /\ ttl \in 0..Ttl
    /\ alive \in SUBSET Sids
    /\ call \in [Callers -> Calls]
    /\ sent \in [1..Second -> Nat]

Init ==
    /\ level = Capacity /\ rateQueue = <<>> /\ asleep = 0
    /\ sid = NoSid /\ ttl = 0 /\ sessionQueue = <<>>
    /\ alive = {}
    /\ call = [c \in Callers |-> Quiet]
    /\ sent = [n \in 1..Second |-> 0]

-----------------------------------------------------------------------------
Goes(c, place) == call' = [call EXCEPT ![c].at = place]
Holds(queue, c) == queue # <<>> /\ Head(queue) = c

\* _valid_token
Valid == sid # NoSid /\ ttl > 0

\* A request leaves for the supplier.
Send == sent' = [n \in 1..Second |-> sent[n] + 1]

\* _refill, and everything else that depends on the time.
Tick ==
    /\ level' = IF level < Capacity THEN level + 1 ELSE Capacity
    /\ asleep' = IF asleep > 0 THEN asleep - 1 ELSE 0
    /\ ttl' = IF ttl > 0 THEN ttl - 1 ELSE 0
    /\ sent' = [n \in 1..Second |-> IF n = 1 THEN 0 ELSE sent[n - 1]]
    /\ UNCHANGED <<rateQueue, sid, sessionQueue, alive, call>>

\* _call: a request to the supplier begins with a token.
Call(c) ==
    /\ call[c].at = "idle"
    /\ call' = [call EXCEPT ![c] = [Quiet EXCEPT !.at = "rate"]]
    /\ rateQueue' = Append(rateQueue, c)
    /\ UNCHANGED <<level, asleep, sessionVars, alive, sent>>

\* Mutant of Acquire: a caller that has slept, or cannot wait, goes on without a token.
AcquireUnpaid(c) ==
    /\ Holds(rateQueue, c)
    /\ level' = IF level >= Cost THEN level - Cost ELSE level
    /\ rateQueue' = Tail(rateQueue)
    /\ Goes(c, IF call[c].at = "rate" THEN "session" ELSE "login")
    /\ UNCHANGED <<asleep, sessionVars, alive, sent>>

\* acquire, in the lock: take a token, or sleep until there should be one.
Acquire(c) ==
    /\ Holds(rateQueue, c) /\ asleep = 0
    /\ \/ /\ level >= Cost
          /\ level' = level - Cost
          /\ rateQueue' = Tail(rateQueue)
          /\ Goes(c, IF call[c].at = "rate" THEN "session" ELSE "login")
          /\ UNCHANGED asleep
       \/ /\ level < Cost
          /\ asleep' = Cost - level
          /\ UNCHANGED <<level, rateQueue, call>>
    /\ UNCHANGED <<sessionVars, alive, sent>>

\* get: the cached id if it is valid, else the lock.
GetSession(c) ==
    /\ call[c].at = "session"
    /\ \/ /\ Valid
          /\ call' = [call EXCEPT ![c].at = "request", ![c].sid = sid]
          /\ UNCHANGED sessionQueue
       \/ /\ ~Valid
          /\ sessionQueue' = Append(sessionQueue, c)
          /\ Goes(c, "locked")
    /\ UNCHANGED <<bucketVars, sid, ttl, alive, sent>>

\* Mutant of GetSessionLocked: no second look at the cache.
GetSessionUnchecked(c) ==
    /\ call[c].at = "locked" /\ Holds(sessionQueue, c)
    /\ rateQueue' = Append(rateQueue, c)
    /\ Goes(c, "login rate")
    /\ UNCHANGED <<level, asleep, sessionVars, alive, sent>>

\* get, in the lock: another caller may have logged in; else log in, which takes a token.
GetSessionLocked(c) ==
    /\ call[c].at = "locked" /\ Holds(sessionQueue, c)
    /\ \/ /\ Valid
          /\ call' = [call EXCEPT ![c].at = "request", ![c].sid = sid]
          /\ sessionQueue' = Tail(sessionQueue)
          /\ UNCHANGED rateQueue
       \/ /\ ~Valid
          /\ rateQueue' = Append(rateQueue, c)
          /\ Goes(c, "login rate")
          /\ UNCHANGED sessionQueue
    /\ UNCHANGED <<level, asleep, sid, ttl, alive, sent>>

\* Session ids somebody still has; an id nobody has may be given again.
KnownSids == {sid} \cup {call[d].sid : d \in Callers}

\* _authenticate: the supplier opens a new session.
Login(c) ==
    /\ call[c].at = "login"
    /\ \E s \in Sids \ KnownSids :
          /\ \A t \in Sids \ KnownSids : s <= t
          /\ alive' = (alive \cap KnownSids) \cup {s}
          /\ sid' = s /\ ttl' = Ttl
          /\ call' = [call EXCEPT ![c].at = "request", ![c].sid = s]
    /\ sessionQueue' = Tail(sessionQueue)
    /\ Send
    /\ UNCHANGED bucketVars

\* The GET, and the supplier's answer.
Request(c) ==
    /\ call[c].at = "request"
    /\ \E answer \in Answers :
          /\ answer = "expired" <=> call[c].sid \notin alive
          /\ call' = [call EXCEPT ![c].at = "archive", ![c].answer = answer]
    /\ Send
    /\ UNCHANGED <<bucketVars, sessionVars, alive>>

\* The answer is archived whatever it says; then it is returned, raised, or, if the session
\* has expired and this was the first attempt, the session is dropped.
Archive(c) ==
    /\ call[c].at = "archive"
    /\ IF call[c].answer = "expired" /\ call[c].attempt = 0
       THEN Goes(c, "drop") /\ sessionQueue' = Append(sessionQueue, c)
       ELSE call' = [call EXCEPT ![c] = Quiet] /\ UNCHANGED sessionQueue
    /\ UNCHANGED <<bucketVars, sid, ttl, alive, sent>>

\* invalidate, and the second attempt.
Invalidate(c) ==
    /\ call[c].at = "drop" /\ Holds(sessionQueue, c)
    /\ sid' = NoSid /\ ttl' = 0
    /\ sessionQueue' = Tail(sessionQueue)
    /\ call' = [call EXCEPT ![c] = [Quiet EXCEPT !.at = "rate", !.attempt = 1]]
    /\ rateQueue' = Append(rateQueue, c)
    /\ UNCHANGED <<level, asleep, alive, sent>>

\* Mutant of Raises: the lock is not released.
RaisesLocked(c) ==
    /\ call[c].at \in {"login", "request", "archive"}
    /\ call' = [call EXCEPT ![c] = Quiet]
    /\ UNCHANGED <<bucketVars, sid, ttl, sessionQueue, alive, sent>>

\* The network, the login or the archive fails: the call raises and lets the lock go.
Raises(c) ==
    /\ call[c].at \in {"login", "request", "archive"}
    /\ call' = [call EXCEPT ![c] = Quiet]
    /\ sessionQueue' = IF Holds(sessionQueue, c) THEN Tail(sessionQueue) ELSE sessionQueue
    /\ UNCHANGED <<bucketVars, sid, ttl, alive, sent>>

\* External: the supplier ends a session before the client expects it.
Expire ==
    /\ \E s \in alive \cap KnownSids : alive' = alive \ {s}
    /\ UNCHANGED <<bucketVars, sessionVars, call, sent>>

Proceed(c) ==
    \/ Acquire(c) \/ GetSession(c) \/ GetSessionLocked(c) \/ Login(c)
    \/ Request(c) \/ Archive(c) \/ Invalidate(c)

Next == Tick \/ Expire \/ \E c \in Callers : Call(c) \/ Proceed(c) \/ Raises(c)

Spec == Init /\ [][Next]_vars

\* Time passes, and a coroutine that can go on does; nobody has to call.
FairSpec == Spec /\ WF_vars(Tick) /\ \A c \in Callers : WF_vars(Proceed(c))

-----------------------------------------------------------------------------
LoggingIn == {c \in Callers : call[c].at \in {"login rate", "login"}}

\* Single flight: one caller logs in at a time, and only while there is no valid session id.
SingleFlight ==
    /\ Cardinality(LoggingIn) <= 1
    /\ LoggingIn # {} => ~Valid /\ sessionQueue # <<>> /\ Head(sessionQueue) \in LoggingIn

\* The supplier sees no more requests in a second than a full bucket, what is refilled meanwhile,
\* and those whose token was taken before: one of each caller, and a login.
SpeedLimit == sent[Second] <= 2 * Rate + Cardinality(Callers)

\* The bucket's promise: a connector never exceeds the supplier's requests per second.
BudgetKept == sent[Second] <= Rate

\* Every call returns or raises: no caller waits for ever on the locks of bucket and session.
CallsEnd == \A c \in Callers : call[c].at # "idle" ~> call[c].at = "idle"
=============================================================================
