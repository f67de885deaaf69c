--------------------------- MODULE BrainClientProofs ---------------------------
(***************************************************************************)
(* Proofs about BrainClient, for any number of callers, any rate and any   *)
(* lifetime of a session: one caller logs in at a time, and what a second  *)
(* of requests can amount to.                                              *)
(*                                                                         *)
(* The bound is an account kept for every window of n ticks: the requests  *)
(* of the window, the tokens taken and not yet used, and what is left in   *)
(* the bucket are together no more than a full bucket, one tick's refill   *)
(* for each tick of the window, and the most that may have been in hand    *)
(* when the window began.                                                  *)
(***************************************************************************)
EXTENDS BrainClient, FiniteSetTheorems, TLAPS

\* What a queue is after one has joined it.
LEMMA Joins ==
  ASSUME NEW q \in Seq(Callers), NEW c \in Callers
  PROVE  /\ Append(q, c) \in Seq(Callers) /\ Append(q, c) # <<>>
         /\ DOMAIN Append(q, c) = DOMAIN q \cup {Len(q) + 1}
         /\ \A i \in DOMAIN q : Append(q, c)[i] = q[i]
         /\ Append(q, c)[Len(q) + 1] = c
         /\ Len(q) + 1 \notin DOMAIN q
         /\ q # <<>> => Head(Append(q, c)) = Head(q)
  OBVIOUS

\* What a queue is after its head has left it.
LEMMA Leaves ==
  ASSUME NEW q \in Seq(Callers), q # <<>>
  PROVE  /\ Tail(q) \in Seq(Callers) /\ Head(q) \in Callers
         /\ Head(q) = q[1] /\ 1 \in DOMAIN q
         /\ \A i \in DOMAIN Tail(q) : i + 1 \in DOMAIN q /\ i \in Nat \ {0} /\ Tail(q)[i] = q[i + 1]
  OBVIOUS

\* A step of c takes it from one of some places to one of others, and moves nobody else.
Takes(c, from, to) ==
    /\ call' \in [Callers -> Calls]
    /\ \A d \in Callers \ {c} : call'[d] = call[d]
    /\ call[c].at \in from /\ call'[c].at \in to

\* The ways in which the record of a caller is replaced.
LEMMA Puts ==
  ASSUME NEW c \in Callers, NEW k \in Calls, call \in [Callers -> Calls], NEW from, NEW to,
         call' = [call EXCEPT ![c] = k], call[c].at \in from, k.at \in to
  PROVE  Takes(c, from, to)
BY DEF Takes

LEMMA PutsPlace ==
  ASSUME NEW k \in Calls, NEW place \in Places
  PROVE  [k EXCEPT !.at = place] \in Calls /\ [k EXCEPT !.at = place].at = place
BY DEF Calls

LEMMA PutsSid ==
  ASSUME NEW k \in Calls, NEW place \in Places, NEW s \in Sids \cup {NoSid}
  PROVE  /\ [k EXCEPT !.at = place, !.sid = s] \in Calls
         /\ [k EXCEPT !.at = place, !.sid = s].at = place
BY DEF Calls

LEMMA PutsAnswer ==
  ASSUME NEW k \in Calls, NEW place \in Places, NEW answer \in Answers
  PROVE  /\ [k EXCEPT !.at = place, !.answer = answer] \in Calls
         /\ [k EXCEPT !.at = place, !.answer = answer].at = place
BY DEF Calls

LEMMA QuietPuts ==
  /\ Quiet \in Calls /\ Quiet.at = "idle"
  /\ [Quiet EXCEPT !.at = "rate"] \in Calls /\ [Quiet EXCEPT !.at = "rate"].at = "rate"
  /\ [Quiet EXCEPT !.at = "rate", !.attempt = 1] \in Calls
  /\ [Quiet EXCEPT !.at = "rate", !.attempt = 1].at = "rate"
BY DEF Calls, Quiet, Places, Answers

\* A caller goes to another place, and takes no more with it.
LEMMA GoesTakes ==
  ASSUME ClientTypeOK, NEW c \in Callers, NEW place \in Places, Goes(c, place),
         NEW from, call[c].at \in from
  PROVE  Takes(c, from, {place})
<1> DEFINE k == [call[c] EXCEPT !.at = place]
<1>1. call \in [Callers -> Calls] /\ call[c] \in Calls
  BY DEF ClientTypeOK
<1>2. k \in Calls /\ k.at = place
  BY <1>1, PutsPlace
<1>3. call' = [call EXCEPT ![c] = k]
  BY <1>1 DEF Goes
<1> HIDE DEF k
<1> QED BY <1>1, <1>2, <1>3, Puts

\* A caller goes to ask with a session id.
LEMMA AsksTakes ==
  ASSUME ClientTypeOK, NEW c \in Callers, NEW s \in Sids \cup {NoSid}, NEW from, call[c].at \in from,
         call' = [call EXCEPT ![c].at = "request", ![c].sid = s]
  PROVE  Takes(c, from, {"request"})
<1> DEFINE k == [call[c] EXCEPT !.at = "request", !.sid = s]
<1>1. call \in [Callers -> Calls] /\ call[c] \in Calls
  BY DEF ClientTypeOK
<1>2. k \in Calls /\ k.at = "request"
  BY <1>1, PutsSid DEF Places
<1>3. call' = [call EXCEPT ![c] = k]
  BY <1>1
<1> HIDE DEF k
<1> QED BY <1>1, <1>2, <1>3, Puts

LEMMA Numbers == Second \in Nat \ {0} /\ Capacity = Second /\ Cost \in Nat \ {0} /\ Cost <= Capacity
<1>1. Rate \in Nat \ {0} /\ Cost \in Nat \ {0}
  BY ClientAssumption
<1>2. \A r, k \in Nat \ {0} : r * k \in Nat \ {0} /\ k <= r * k
  OBVIOUS
<1> QED BY <1>1, <1>2 DEF Second, Capacity

LEMMA CallTakes ==
  ASSUME ClientTypeOK, NEW c \in Callers, Call(c)
  PROVE  Takes(c, {"idle"}, {"rate"})
BY Puts, QuietPuts DEF ClientTypeOK, Call

LEMMA AcquireTakes ==
  ASSUME ClientTypeOK, NEW c \in Callers, Acquire(c)
  PROVE  \/ /\ level >= Cost /\ level' = level - Cost
            /\ rateQueue' = Tail(rateQueue) /\ UNCHANGED asleep
            /\ call[c].at = "rate" => Takes(c, {"rate"}, {"session"})
            /\ call[c].at = "login rate" => Takes(c, {"login rate"}, {"login"})
         \/ level < Cost /\ asleep' = Cost - level /\ UNCHANGED <<level, rateQueue, call>>
<1>1. CASE level >= Cost /\ Goes(c, IF call[c].at = "rate" THEN "session" ELSE "login")
  <2>1. ASSUME call[c].at = "rate"
        PROVE  Takes(c, {"rate"}, {"session"})
    <3>1. Goes(c, "session") /\ "session" \in Places /\ call[c].at \in {"rate"}
      BY <1>1, <2>1 DEF Places
    <3> QED BY <3>1, GoesTakes
  <2>2. ASSUME call[c].at = "login rate"
        PROVE  Takes(c, {"login rate"}, {"login"})
    <3>1. Goes(c, "login") /\ "login" \in Places /\ call[c].at \in {"login rate"}
      BY <1>1, <2>2 DEF Places
    <3> QED BY <3>1, GoesTakes
  <2>3. level \in Nat /\ Cost \in Nat
    BY Numbers DEF ClientTypeOK
  <2> QED BY <1>1, <2>1, <2>2, <2>3 DEF Acquire
<1> QED BY <1>1 DEF Acquire

LEMMA GetSessionTakes ==
  ASSUME ClientTypeOK, NEW c \in Callers, GetSession(c)
  PROVE  \/ Valid /\ Takes(c, {"session"}, {"request"}) /\ UNCHANGED sessionQueue
         \/ ~Valid /\ Takes(c, {"session"}, {"locked"}) /\ sessionQueue' = Append(sessionQueue, c)
<1>1. call[c].at \in {"session"} /\ "locked" \in Places /\ sid \in Sids \cup {NoSid}
  BY DEF GetSession, Places, ClientTypeOK
<1> QED BY <1>1, GoesTakes, AsksTakes DEF GetSession

LEMMA GetSessionLockedTakes ==
  ASSUME ClientTypeOK, NEW c \in Callers, GetSessionLocked(c)
  PROVE  \/ /\ Valid /\ Takes(c, {"locked"}, {"request"})
            /\ sessionQueue' = Tail(sessionQueue) /\ UNCHANGED rateQueue
         \/ /\ ~Valid /\ Takes(c, {"locked"}, {"login rate"})
            /\ rateQueue' = Append(rateQueue, c) /\ UNCHANGED sessionQueue
<1>1. call[c].at \in {"locked"} /\ "login rate" \in Places /\ sid \in Sids \cup {NoSid}
  BY DEF GetSessionLocked, Places, ClientTypeOK
<1> QED BY <1>1, GoesTakes, AsksTakes DEF GetSessionLocked

LEMMA LoginTakes ==
  ASSUME ClientTypeOK, NEW c \in Callers, Login(c)
  PROVE  Takes(c, {"login"}, {"request"}) /\ sid' \in Sids /\ ttl' = Ttl /\ alive' \in SUBSET Sids
<1> PICK s \in Sids \ KnownSids :
          /\ alive' = (alive \cap KnownSids) \cup {s}
          /\ sid' = s /\ ttl' = Ttl
          /\ call' = [call EXCEPT ![c].at = "request", ![c].sid = s]
  BY DEF Login
<1>1. call[c].at \in {"login"} /\ alive \in SUBSET Sids
  BY DEF Login, ClientTypeOK
<1> QED BY <1>1, AsksTakes

LEMMA RequestTakes ==
  ASSUME ClientTypeOK, NEW c \in Callers, Request(c)
  PROVE  Takes(c, {"request"}, {"archive"})
<1> PICK answer \in Answers : call' = [call EXCEPT ![c].at = "archive", ![c].answer = answer]
  BY DEF Request
<1> DEFINE k == [call[c] EXCEPT !.at = "archive", !.answer = answer]
<1>1. call \in [Callers -> Calls] /\ call[c] \in Calls /\ call[c].at \in {"request"}
  BY DEF ClientTypeOK, Request
<1>2. k \in Calls /\ k.at = "archive"
  BY <1>1, PutsAnswer DEF Places
<1>3. call' = [call EXCEPT ![c] = k]
  BY <1>1
<1> HIDE DEF k
<1> QED BY <1>1, <1>2, <1>3, Puts

LEMMA ArchiveTakes ==
  ASSUME ClientTypeOK, NEW c \in Callers, Archive(c)
  PROVE  \/ Takes(c, {"archive"}, {"drop"}) /\ sessionQueue' = Append(sessionQueue, c)
         \/ Takes(c, {"archive"}, {"idle"}) /\ UNCHANGED sessionQueue
<1>1. call[c].at \in {"archive"} /\ "drop" \in Places /\ call \in [Callers -> Calls]
  BY DEF Archive, Places, ClientTypeOK
<1>2. CASE call' = [call EXCEPT ![c] = Quiet] /\ UNCHANGED sessionQueue
  <2>1. Takes(c, {"archive"}, {"idle"})
    BY <1>1, <1>2, Puts, QuietPuts
  <2> QED BY <1>2, <2>1
<1>3. CASE Goes(c, "drop") /\ sessionQueue' = Append(sessionQueue, c)
  BY <1>1, <1>3, GoesTakes
<1> QED BY <1>2, <1>3 DEF Archive

LEMMA InvalidateTakes ==
  ASSUME ClientTypeOK, NEW c \in Callers, Invalidate(c)
  PROVE  Takes(c, {"drop"}, {"rate"})
BY Puts, QuietPuts DEF ClientTypeOK, Invalidate

LEMMA RaisesTakes ==
  ASSUME ClientTypeOK, NEW c \in Callers, Raises(c)
  PROVE  Takes(c, {"login", "request", "archive"}, {"idle"})
BY Puts, QuietPuts DEF ClientTypeOK, Raises

-----------------------------------------------------------------------------
\* Who waits in a queue is where it says, and waits in it once.
InLine(queue, where, places) ==
    /\ \A i \in DOMAIN queue : where[queue[i]].at \in places
    /\ \A i, j \in DOMAIN queue : queue[i] = queue[j] => i = j

AtBucket == {"rate", "login rate"}
AtSession == {"locked", "login rate", "login", "drop"}

\* The two locks: a caller that logs in holds the session manager's, and there is no valid id.
ClientInv ==
    /\ ClientTypeOK
    /\ InLine(rateQueue, call, AtBucket)
    /\ InLine(sessionQueue, call, AtSession)
    /\ \A c \in LoggingIn : Holds(sessionQueue, c) /\ ~Valid

LEMMA LineJoined ==
  ASSUME NEW q \in Seq(Callers), NEW c \in Callers, NEW places, NEW f, NEW g,
         InLine(q, f, places), \A d \in Callers \ {c} : g[d] = f[d],
         f[c].at \notin places, g[c].at \in places
  PROVE  InLine(Append(q, c), g, places)
<1>1. \A i \in DOMAIN q : q[i] \in Callers \ {c} /\ g[q[i]].at \in places
  BY DEF InLine
<1> DEFINE r == Append(q, c)
<1>2. /\ DOMAIN r = DOMAIN q \cup {Len(q) + 1} /\ Len(q) + 1 \notin DOMAIN q
      /\ \A i \in DOMAIN q : r[i] = q[i]
      /\ r[Len(q) + 1] = c
  BY Joins
<1> HIDE DEF r
<1>3. \A i, j \in DOMAIN q : q[i] = q[j] => i = j
  BY DEF InLine
<1> QED BY <1>1, <1>2, <1>3 DEF InLine, r

LEMMA LineLeft ==
  ASSUME NEW q \in Seq(Callers), NEW c \in Callers, NEW places, NEW f, NEW g,
         InLine(q, f, places), \A d \in Callers \ {c} : g[d] = f[d], Holds(q, c)
  PROVE  InLine(Tail(q), g, places)
<1>1. q # <<>> /\ q[1] = c /\ 1 \in DOMAIN q
  BY Leaves DEF Holds
<1> DEFINE r == Tail(q)
<1>2. \A i \in DOMAIN r : i + 1 \in DOMAIN q /\ i \in Nat \ {0} /\ r[i] = q[i + 1]
  BY <1>1, Leaves
<1> HIDE DEF r
<1>3. \A i \in DOMAIN r : q[i + 1] \in Callers \ {c}
  BY <1>1, <1>2 DEF InLine
<1> QED BY <1>2, <1>3 DEF InLine, r

LEMMA LineKept ==
  ASSUME NEW q \in Seq(Callers), NEW c \in Callers, NEW places, NEW f, NEW g,
         InLine(q, f, places), \A d \in Callers \ {c} : g[d] = f[d],
         f[c].at \notin places \/ g[c].at \in places
  PROVE  InLine(q, g, places)
<1>1. \A i \in DOMAIN q : q[i] \in Callers
  OBVIOUS
<1> QED BY <1>1 DEF InLine

\* Whoever holds the lock of a queue is where its queue says.
LEMMA HolderPlace ==
  ASSUME NEW q \in Seq(Callers), NEW c \in Callers, NEW places, NEW f, InLine(q, f, places), Holds(q, c)
  PROVE  f[c].at \in places
BY Leaves DEF InLine, Holds

LEMMA QueueSteps ==
  ASSUME NEW q \in Seq(Callers), NEW c \in Callers
  PROVE  /\ Append(q, c) \in Seq(Callers)
         /\ \A d \in Callers : Holds(q, d) => Holds(Append(q, c), d)
         /\ q # <<>> => Tail(q) \in Seq(Callers)
BY Joins, Leaves DEF Holds

\* What is typed well and what a caller's step leaves alone.
LEMMA SmallTypes ==
  ASSUME ClientTypeOK
  PROVE  /\ level \in 0..Capacity /\ asleep \in 0..Cost /\ Cost \in Nat \ {0} /\ Capacity \in Nat
         /\ rateQueue \in Seq(Callers) /\ sessionQueue \in Seq(Callers)
         /\ sid \in Sids \cup {NoSid} /\ ttl \in 0..Ttl /\ Ttl \in Nat \ {0} /\ alive \in SUBSET Sids
         /\ call \in [Callers -> Calls] /\ sent \in [1..Second -> Nat]
         /\ Send => sent' \in [1..Second -> Nat]
BY Numbers, ClientAssumption DEF ClientTypeOK, Send

\* Nobody begins to log in, the id stays what it was, and who logs in keeps the lock.
LEMMA LogsInStill ==
  ASSUME ClientInv, NEW c \in Callers, NEW from, NEW to, Takes(c, from, to),
         {"login rate", "login"} \cap to = {},
         Valid' => Valid, \A d \in Callers \ {c} : Holds(sessionQueue, d) => Holds(sessionQueue, d)'
  PROVE  \A d \in LoggingIn' : Holds(sessionQueue, d)' /\ ~Valid'
<1> SUFFICES ASSUME NEW d \in Callers, call'[d].at \in {"login rate", "login"}
             PROVE  Holds(sessionQueue, d)' /\ ~Valid'
  BY DEF LoggingIn
<1>1. d # c /\ d \in LoggingIn
  BY DEF Takes, LoggingIn
<1> QED BY <1>1 DEF ClientInv

LEMMA CallKeeps ==
  ASSUME ClientInv, NEW c \in Callers, Call(c)
  PROVE  ClientInv'
<1>1. ClientTypeOK /\ Takes(c, {"idle"}, {"rate"}) /\ rateQueue' = Append(rateQueue, c)
  BY CallTakes DEF ClientInv, Call
<1>2. ClientTypeOK'
  BY <1>1, SmallTypes, QueueSteps DEF ClientTypeOK, Takes, Call, sessionVars
<1>3. InLine(rateQueue, call, AtBucket)'
  BY <1>1, SmallTypes, LineJoined DEF Takes, ClientInv, AtBucket
<1>4. InLine(sessionQueue, call, AtSession)'
  BY <1>1, SmallTypes, LineKept DEF Takes, ClientInv, AtSession, Call, sessionVars
<1>5. \A d \in LoggingIn' : Holds(sessionQueue, d)' /\ ~Valid'
  BY <1>1, LogsInStill DEF Call, sessionVars, Holds, Valid
<1> QED BY <1>2, <1>3, <1>4, <1>5 DEF ClientInv

LEMMA AcquireKeeps ==
  ASSUME ClientInv, NEW c \in Callers, Acquire(c)
  PROVE  ClientInv'
<1>1. ClientTypeOK /\ Holds(rateQueue, c) /\ rateQueue # <<>> /\ call[c].at \in AtBucket
  BY SmallTypes, HolderPlace DEF ClientInv, Acquire, Holds
<1>2. ASSUME level < Cost, asleep' = Cost - level, UNCHANGED <<level, rateQueue, call>>
      PROVE  ClientInv'
  <2>1. asleep' \in 0..Cost
    BY <1>1, <1>2, SmallTypes
  <2>2. ClientTypeOK'
    BY <1>1, <1>2, <2>1, SmallTypes DEF ClientTypeOK, Acquire, sessionVars
  <2> QED BY <1>2, <2>2 DEF ClientInv, InLine, LoggingIn, Valid, Holds, Acquire, sessionVars
<1>3. ASSUME level >= Cost, level' = level - Cost, rateQueue' = Tail(rateQueue), UNCHANGED asleep,
             NEW from \in AtBucket, NEW to \in {"session", "login"}, Takes(c, {from}, {to}),
             to = IF from = "rate" THEN "session" ELSE "login"
      PROVE  ClientInv'
  <2>1. level' \in 0..Capacity
    <3>1. level \in 0..Capacity /\ Cost \in Nat /\ Capacity \in Nat
      BY <1>1, SmallTypes
    <3>2. level >= Cost /\ level' = level - Cost
      BY <1>3
    <3> QED BY <3>1, <3>2
  <2>2. ClientTypeOK'
    BY <1>1, <1>3, <2>1, SmallTypes, QueueSteps DEF ClientTypeOK, Takes, Acquire, sessionVars
  <2>3. InLine(rateQueue, call, AtBucket)'
    BY <1>1, <1>3, SmallTypes, LineLeft DEF Takes, ClientInv
  <2>4. InLine(sessionQueue, call, AtSession)'
    <3>1. call[c].at \notin AtSession \/ call'[c].at \in AtSession
      BY <1>3 DEF Takes, AtSession, AtBucket
    <3> QED BY <1>1, <1>3, <3>1, SmallTypes, LineKept DEF Takes, ClientInv, Acquire, sessionVars
  <2>5. \A d \in LoggingIn' : Holds(sessionQueue, d)' /\ ~Valid'
    <3>1. LoggingIn' \subseteq LoggingIn
      BY <1>3 DEF LoggingIn, Takes, AtBucket
    <3> QED BY <3>1 DEF ClientInv, Holds, Valid, Acquire, sessionVars
  <2> QED BY <2>2, <2>3, <2>4, <2>5 DEF ClientInv
<1> QED BY <1>1, <1>2, <1>3, AcquireTakes DEF AtBucket

LEMMA GetSessionKeeps ==
  ASSUME ClientInv, NEW c \in Callers, GetSession(c)
  PROVE  ClientInv'
<1>1. ClientTypeOK /\ UNCHANGED <<bucketVars, sid, ttl, alive, sent>>
  BY DEF ClientInv, GetSession
<1>2. ASSUME Takes(c, {"session"}, {"request"}), UNCHANGED sessionQueue
      PROVE  ClientInv'
  <2>1. ClientTypeOK'
    BY <1>1, <1>2 DEF ClientTypeOK, Takes, bucketVars
  <2>2. InLine(rateQueue, call, AtBucket)' /\ InLine(sessionQueue, call, AtSession)'
    BY <1>1, <1>2, SmallTypes, LineKept DEF Takes, ClientInv, AtSession, AtBucket, bucketVars
  <2>3. \A d \in LoggingIn' : Holds(sessionQueue, d)' /\ ~Valid'
    BY <1>1, <1>2, LogsInStill DEF Holds, Valid
  <2> QED BY <2>1, <2>2, <2>3 DEF ClientInv
<1>3. ASSUME Takes(c, {"session"}, {"locked"}), sessionQueue' = Append(sessionQueue, c)
      PROVE  ClientInv'
  <2>1. ClientTypeOK'
    BY <1>1, <1>3, SmallTypes, QueueSteps DEF ClientTypeOK, Takes, bucketVars
  <2>2. InLine(rateQueue, call, AtBucket)'
    BY <1>1, <1>3, SmallTypes, LineKept DEF Takes, ClientInv, AtBucket, bucketVars
  <2>3. InLine(sessionQueue, call, AtSession)'
    BY <1>1, <1>3, SmallTypes, LineJoined DEF Takes, ClientInv, AtSession
  <2>4. \A d \in LoggingIn' : Holds(sessionQueue, d)' /\ ~Valid'
    <3>1. \A d \in Callers : Holds(sessionQueue, d) => Holds(sessionQueue', d)
      BY <1>1, <1>3, SmallTypes, QueueSteps
    <3>2. Valid' => Valid
      BY <1>1 DEF Valid
    <3>3. \A d \in Callers : Holds(sessionQueue, d) => Holds(sessionQueue, d)'
      BY <3>1 DEF Holds
    <3> QED BY <1>1, <1>3, <3>2, <3>3, LogsInStill
  <2> QED BY <2>1, <2>2, <2>3, <2>4 DEF ClientInv
<1> QED BY <1>1, <1>2, <1>3, GetSessionTakes

LEMMA GetSessionLockedKeeps ==
  ASSUME ClientInv, NEW c \in Callers, GetSessionLocked(c)
  PROVE  ClientInv'
<1>1. /\ ClientTypeOK /\ UNCHANGED <<level, asleep, sid, ttl, alive, sent>>
      /\ Holds(sessionQueue, c) /\ sessionQueue # <<>>
  BY DEF ClientInv, GetSessionLocked, Holds
<1>2. ASSUME Valid, Takes(c, {"locked"}, {"request"}), sessionQueue' = Tail(sessionQueue), UNCHANGED rateQueue
      PROVE  ClientInv'
  <2>1. ClientTypeOK'
    BY <1>1, <1>2, SmallTypes, QueueSteps DEF ClientTypeOK, Takes
  <2>2. InLine(rateQueue, call, AtBucket)'
    BY <1>1, <1>2, SmallTypes, LineKept DEF Takes, ClientInv, AtBucket
  <2>3. InLine(sessionQueue, call, AtSession)'
    BY <1>1, <1>2, SmallTypes, LineLeft DEF Takes, ClientInv
  <2>4. LoggingIn' = {}
    BY <1>2 DEF ClientInv, LoggingIn, Takes
  <2> QED BY <2>1, <2>2, <2>3, <2>4 DEF ClientInv
<1>3. ASSUME ~Valid, Takes(c, {"locked"}, {"login rate"}), rateQueue' = Append(rateQueue, c),
             UNCHANGED sessionQueue
      PROVE  ClientInv'
  <2>1. ClientTypeOK'
    BY <1>1, <1>3, SmallTypes, QueueSteps DEF ClientTypeOK, Takes
  <2>2. InLine(rateQueue, call, AtBucket)'
    BY <1>1, <1>3, SmallTypes, LineJoined DEF Takes, ClientInv, AtBucket
  <2>3. InLine(sessionQueue, call, AtSession)'
    BY <1>1, <1>3, SmallTypes, LineKept DEF Takes, ClientInv, AtSession
  <2>4. LoggingIn' \subseteq LoggingIn \cup {c}
    BY <1>3 DEF LoggingIn, Takes
  <2>5. \A d \in LoggingIn' : Holds(sessionQueue, d)' /\ ~Valid'
    BY <1>1, <1>3, <2>4 DEF ClientInv, Holds, Valid
  <2> QED BY <2>1, <2>2, <2>3, <2>5 DEF ClientInv
<1> QED BY <1>1, <1>2, <1>3, GetSessionLockedTakes

\* Who logs in has the lock, and nobody else logs in.
LEMMA OneLogsIn ==
  ASSUME ClientInv, NEW c \in LoggingIn
  PROVE  Holds(sessionQueue, c) /\ LoggingIn = {c}
BY DEF ClientInv, Holds

LEMMA LoginKeeps ==
  ASSUME ClientInv, NEW c \in Callers, Login(c)
  PROVE  ClientInv'
<1>1. /\ ClientTypeOK /\ Takes(c, {"login"}, {"request"})
      /\ sid' \in Sids /\ ttl' = Ttl /\ alive' \in SUBSET Sids
  BY LoginTakes DEF ClientInv
<1>2. UNCHANGED <<level, rateQueue, asleep>> /\ sessionQueue' = Tail(sessionQueue) /\ Send
  BY DEF Login, bucketVars
<1>3. Holds(sessionQueue, c) /\ LoggingIn = {c} /\ sessionQueue # <<>>
  BY <1>1, OneLogsIn DEF Takes, LoggingIn, Holds
<1>4. ttl' \in 0..Ttl
  BY <1>1, SmallTypes
<1>5. ClientTypeOK'
  BY <1>1, <1>2, <1>3, <1>4, SmallTypes, QueueSteps DEF ClientTypeOK, Takes
<1>6. InLine(rateQueue, call, AtBucket)'
  BY <1>1, <1>2, SmallTypes, LineKept DEF Takes, ClientInv, AtBucket
<1>7. InLine(sessionQueue, call, AtSession)'
  BY <1>1, <1>2, <1>3, SmallTypes, LineLeft DEF Takes, ClientInv
<1>8. LoggingIn' = {}
  BY <1>1, <1>3 DEF LoggingIn, Takes
<1> QED BY <1>5, <1>6, <1>7, <1>8 DEF ClientInv

LEMMA RequestKeeps ==
  ASSUME ClientInv, NEW c \in Callers, Request(c)
  PROVE  ClientInv'
<1>1. /\ ClientTypeOK /\ Takes(c, {"request"}, {"archive"}) /\ Send
      /\ UNCHANGED <<bucketVars, sessionVars, alive>>
  BY RequestTakes DEF ClientInv, Request
<1>2. ClientTypeOK'
  BY <1>1, SmallTypes DEF ClientTypeOK, Takes, bucketVars, sessionVars
<1>3. InLine(rateQueue, call, AtBucket)' /\ InLine(sessionQueue, call, AtSession)'
  BY <1>1, SmallTypes, LineKept DEF Takes, ClientInv, AtBucket, AtSession, bucketVars, sessionVars
<1>4. \A d \in LoggingIn' : Holds(sessionQueue, d)' /\ ~Valid'
  BY <1>1, LogsInStill DEF Holds, Valid, sessionVars
<1> QED BY <1>2, <1>3, <1>4 DEF ClientInv

LEMMA ArchiveKeeps ==
  ASSUME ClientInv, NEW c \in Callers, Archive(c)
  PROVE  ClientInv'
<1>1. ClientTypeOK /\ UNCHANGED <<bucketVars, sid, ttl, alive, sent>>
  BY DEF ClientInv, Archive
<1>2. ASSUME NEW to \in {"drop", "idle"}, Takes(c, {"archive"}, {to}),
             IF to = "drop" THEN sessionQueue' = Append(sessionQueue, c) ELSE UNCHANGED sessionQueue
      PROVE  ClientInv'
  <2>1. ClientTypeOK'
    BY <1>1, <1>2, SmallTypes, QueueSteps DEF ClientTypeOK, Takes, bucketVars
  <2>2. InLine(rateQueue, call, AtBucket)'
    BY <1>1, <1>2, SmallTypes, LineKept DEF Takes, ClientInv, AtBucket, bucketVars
  <2>3. InLine(sessionQueue, call, AtSession)'
    <3>1. /\ sessionQueue \in Seq(Callers) /\ \A d \in Callers \ {c} : call'[d] = call[d]
          /\ call[c].at \notin AtSession /\ call'[c].at = to /\ InLine(sessionQueue, call, AtSession)
      BY <1>1, <1>2, SmallTypes DEF Takes, ClientInv, AtSession
    <3>2. CASE to = "drop"
      BY <1>2, <3>1, <3>2, LineJoined DEF AtSession
    <3>3. CASE to = "idle"
      BY <1>2, <3>1, <3>3, LineKept
    <3> QED BY <3>2, <3>3
  <2>4. \A d \in Callers : Holds(sessionQueue, d) => Holds(sessionQueue', d)
    BY <1>1, <1>2, SmallTypes, QueueSteps
  <2>5. /\ \A d \in Callers : Holds(sessionQueue, d) => Holds(sessionQueue, d)'
        /\ Valid' => Valid
    BY <1>1, <2>4 DEF Holds, Valid
  <2>6. {"login rate", "login"} \cap {to} = {}
    BY <1>2
  <2>7. \A d \in LoggingIn' : Holds(sessionQueue, d)' /\ ~Valid'
    BY <1>2, <2>5, <2>6, LogsInStill
  <2> QED BY <2>1, <2>2, <2>3, <2>7 DEF ClientInv
<1> QED BY <1>1, <1>2, ArchiveTakes

LEMMA InvalidateKeeps ==
  ASSUME ClientInv, NEW c \in Callers, Invalidate(c)
  PROVE  ClientInv'
<1>1. /\ ClientTypeOK /\ Takes(c, {"drop"}, {"rate"}) /\ UNCHANGED <<level, asleep, alive, sent>>
      /\ Holds(sessionQueue, c) /\ sessionQueue # <<>> /\ sessionQueue' = Tail(sessionQueue)
      /\ rateQueue' = Append(rateQueue, c) /\ sid' = NoSid /\ ttl' = 0
  BY InvalidateTakes DEF ClientInv, Invalidate, Holds
<1>2. ClientTypeOK'
  <2>1. ttl' \in 0..Ttl
    BY <1>1, SmallTypes
  <2> QED BY <1>1, <2>1, SmallTypes, QueueSteps DEF ClientTypeOK, Takes
<1>3. InLine(rateQueue, call, AtBucket)'
  BY <1>1, SmallTypes, LineJoined DEF Takes, ClientInv, AtBucket
<1>4. InLine(sessionQueue, call, AtSession)'
  BY <1>1, SmallTypes, LineLeft DEF Takes, ClientInv
<1>5. LoggingIn' = {}
  BY <1>1 DEF LoggingIn, Takes, ClientInv, Holds
<1> QED BY <1>2, <1>3, <1>4, <1>5 DEF ClientInv

LEMMA RaisesKeeps ==
  ASSUME ClientInv, NEW c \in Callers, Raises(c)
  PROVE  ClientInv'
<1>1. /\ ClientTypeOK /\ Takes(c, {"login", "request", "archive"}, {"idle"})
      /\ UNCHANGED <<bucketVars, sid, ttl, alive, sent>>
      /\ sessionQueue' = IF Holds(sessionQueue, c) THEN Tail(sessionQueue) ELSE sessionQueue
  BY RaisesTakes DEF ClientInv, Raises
<1>2. ClientTypeOK'
  BY <1>1, SmallTypes, QueueSteps DEF ClientTypeOK, Takes, bucketVars, Holds
<1>3. InLine(rateQueue, call, AtBucket)'
  BY <1>1, SmallTypes, LineKept DEF Takes, ClientInv, AtBucket, bucketVars
<1>4. InLine(sessionQueue, call, AtSession)'
  <2>1. CASE Holds(sessionQueue, c)
    BY <1>1, <2>1, SmallTypes, LineLeft DEF Takes, ClientInv
  <2>2. CASE ~Holds(sessionQueue, c)
    <3>1. call[c].at \notin AtSession
      BY <1>1, <2>2 DEF Takes, AtSession, ClientInv, LoggingIn
    <3> QED BY <1>1, <2>2, <3>1, SmallTypes, LineKept DEF Takes, ClientInv
  <2> QED BY <2>1, <2>2
<1>5. \A d \in LoggingIn' : Holds(sessionQueue, d)' /\ ~Valid'
  <2>1. Valid' = Valid
    BY <1>1 DEF Valid
  <2>2. CASE Holds(sessionQueue, c)
    BY <1>1, <2>2 DEF LoggingIn, Takes, ClientInv, Holds
  <2>3. CASE ~Holds(sessionQueue, c)
    BY <1>1, <2>1, <2>3, LogsInStill DEF Holds
  <2> QED BY <2>2, <2>3
<1> QED BY <1>2, <1>3, <1>4, <1>5 DEF ClientInv

LEMMA TickKeeps ==
  ASSUME ClientInv, Tick
  PROVE  ClientInv'
<1>1. ClientTypeOK /\ UNCHANGED <<rateQueue, sid, sessionQueue, alive, call>>
  BY DEF ClientInv, Tick
<1>2. level' \in 0..Capacity /\ asleep' \in 0..Cost
  BY <1>1, SmallTypes DEF Tick
<1>3. ttl' \in 0..Ttl /\ (Valid' => Valid)
  BY <1>1, SmallTypes DEF Tick, Valid
<1>4. sent' \in [1..Second -> Nat]
  <2>1. /\ Second \in Nat /\ sent \in [1..Second -> Nat]
        /\ sent' = [n \in 1..Second |-> IF n = 1 THEN 0 ELSE sent[n - 1]]
    BY <1>1, SmallTypes, Numbers DEF Tick
  <2>2. \A n \in 1..Second : n # 1 => n - 1 \in 1..Second
    BY <2>1
  <2> QED BY <2>1, <2>2
<1>5. ClientTypeOK'
  BY <1>1, <1>2, <1>3, <1>4 DEF ClientTypeOK
<1> QED BY <1>1, <1>3, <1>5 DEF ClientInv, LoggingIn, Holds

\* Every step of a caller, the clock and the supplier keeps the queues of bucket and session in
\* line with what the callers are about, and a login inside the session's lock.
THEOREM ClientInvariant == Spec => []ClientInv
<1>1. Init => ClientInv
  <2> SUFFICES ASSUME Init PROVE ClientInv
    OBVIOUS
  <2>1. ClientTypeOK
    <3>1. Capacity \in 0..Capacity /\ 0 \in 0..Cost /\ 0 \in 0..Ttl
      BY Numbers, ClientAssumption
    <3>2. sent \in [1..Second -> Nat] /\ call \in [Callers -> Calls]
      BY QuietPuts DEF Init
    <3> QED BY <3>1, <3>2 DEF Init, ClientTypeOK
  <2>2. LoggingIn = {}
    BY QuietPuts DEF Init, LoggingIn
  <2> QED BY <2>1, <2>2 DEF Init, ClientInv, InLine
<1>2. ClientInv /\ [Next]_vars => ClientInv'
  <2> SUFFICES ASSUME ClientInv, [Next]_vars PROVE ClientInv'
    OBVIOUS
  <2>1. CASE Expire
    <3>1. ClientTypeOK'
      BY <2>1 DEF Expire, ClientInv, ClientTypeOK, bucketVars, sessionVars
    <3> QED BY <2>1, <3>1 DEF Expire, ClientInv, LoggingIn, Valid, Holds, bucketVars, sessionVars
  <2>2. CASE UNCHANGED vars
    BY <2>2 DEF vars, ClientInv, ClientTypeOK, LoggingIn, Valid, Holds
  <2>3. ASSUME NEW c \in Callers, Call(c) \/ Proceed(c) \/ Raises(c)
        PROVE  ClientInv'
    BY <2>3, CallKeeps, AcquireKeeps, GetSessionKeeps, GetSessionLockedKeeps, LoginKeeps,
       RequestKeeps, ArchiveKeeps, InvalidateKeeps, RaisesKeeps DEF Proceed
  <2> QED BY <2>1, <2>2, <2>3, TickKeeps DEF Next
<1> QED BY <1>1, <1>2, PTL DEF Spec

-----------------------------------------------------------------------------
\* For any number of callers the state stays well typed.
THEOREM ClientTypeCorrect == Spec => []ClientTypeOK
BY ClientInvariant, PTL DEF ClientInv

\* For any number of callers one of them logs in at a time, and none without need (session.py: get).
THEOREM OneLogin == Spec => []SingleFlight
<1>1. ClientInv => SingleFlight
  <2> SUFFICES ASSUME ClientInv PROVE SingleFlight
    OBVIOUS
  <2>1. CASE LoggingIn = {}
    BY <2>1, FS_EmptySet DEF SingleFlight
  <2>2. ASSUME NEW c \in LoggingIn
        PROVE  SingleFlight
    <3>1. Holds(sessionQueue, c) /\ LoggingIn = {c} /\ ~Valid
      BY <2>2, OneLogsIn DEF ClientInv
    <3>2. Cardinality(LoggingIn) = 1
      BY <3>1, FS_Singleton
    <3> QED BY <3>1, <3>2 DEF SingleFlight, Holds
  <2> QED BY <2>1, <2>2
<1> QED BY <1>1, ClientInvariant, PTL

-----------------------------------------------------------------------------
(* The account of the tokens.                                              *)

\* Tokens in hand: one of every caller that has paid and not yet asked, and one of its login.
Paid == {"session", "locked", "login rate", "login", "request"}
InHand == {c \in Callers : call[c].at \in Paid}
AtLogin == {c \in Callers : call[c].at = "login"}
Tokens == Cardinality(InHand) + Cardinality(AtLogin)

\* For every window that ends now.
Account ==
    \A n \in 1..Second :
        Cost * (sent[n] + Tokens) + level <= Capacity + (n - 1) + Cost * (Cardinality(Callers) + 1)

One(c, S) == IF c \in S THEN 1 ELSE 0

Weight(place) == One(place, Paid) + One(place, {"login"})

LEMMA SetMoves ==
  ASSUME NEW A, NEW B, NEW c, IsFiniteSet(A), IsFiniteSet(B), \A d : d # c => (d \in A <=> d \in B)
  PROVE  /\ Cardinality(A) \in Nat /\ Cardinality(B) \in Nat
         /\ Cardinality(B) + One(c, A) = Cardinality(A) + One(c, B)
<1>1. Cardinality(A) \in Nat /\ Cardinality(B) \in Nat
  BY FS_CardinalityType
<1>2. CASE c \in A <=> c \in B
  <2>1. A = B
    BY <1>2
  <2> QED BY <1>1, <2>1 DEF One
<1>3. CASE c \in A /\ c \notin B
  <2>1. A = B \cup {c}
    BY <1>3
  <2>2. Cardinality(A) = Cardinality(B) + 1
    BY <1>3, <2>1, FS_AddElement
  <2> QED BY <1>1, <1>3, <2>2 DEF One
<1>4. CASE c \notin A /\ c \in B
  <2>1. B = A \cup {c}
    BY <1>4
  <2>2. Cardinality(B) = Cardinality(A) + 1
    BY <1>4, <2>1, FS_AddElement
  <2> QED BY <1>1, <1>4, <2>2 DEF One
<1> QED BY <1>2, <1>3, <1>4

LEMMA HandsAreFinite ==
  /\ IsFiniteSet(InHand) /\ IsFiniteSet(InHand') /\ IsFiniteSet(AtLogin) /\ IsFiniteSet(AtLogin')
  /\ Cardinality(Callers) \in Nat
BY ClientAssumption, FS_Subset, FS_CardinalityType DEF InHand, AtLogin

LEMMA TokensMove ==
  ASSUME NEW c \in Callers, NEW f, NEW t, Takes(c, {f}, {t})
  PROVE  Tokens \in Nat /\ Tokens' \in Nat /\ Tokens' + Weight(f) = Tokens + Weight(t)
<1>1. /\ Cardinality(InHand) \in Nat /\ Cardinality(InHand') \in Nat
      /\ Cardinality(InHand') + One(c, InHand) = Cardinality(InHand) + One(c, InHand')
  <2>1. \A d : d # c => (d \in InHand <=> d \in InHand')
    BY DEF InHand, Takes
  <2> QED BY <2>1, HandsAreFinite, SetMoves
<1>2. /\ Cardinality(AtLogin) \in Nat /\ Cardinality(AtLogin') \in Nat
      /\ Cardinality(AtLogin') + One(c, AtLogin) = Cardinality(AtLogin) + One(c, AtLogin')
  <2>1. \A d : d # c => (d \in AtLogin <=> d \in AtLogin')
    BY DEF AtLogin, Takes
  <2> QED BY <2>1, HandsAreFinite, SetMoves
<1>3. call[c].at = f /\ call'[c].at = t
  BY DEF Takes
<1>4. Weight(f) = One(c, InHand) + One(c, AtLogin)
  <2>1. (c \in InHand <=> f \in Paid)
        /\ (c \in AtLogin <=> f = "login")
    BY <1>3 DEF InHand, AtLogin
  <2> QED BY <2>1 DEF One, Weight
<1>7. Weight(t) = One(c, InHand') + One(c, AtLogin')
  <2>1. (c \in InHand' <=> t \in Paid)
        /\ (c \in AtLogin' <=> t = "login")
    BY <1>3 DEF InHand, AtLogin
  <2> QED BY <2>1 DEF One, Weight
<1>5. /\ Tokens = Cardinality(InHand) + Cardinality(AtLogin)
      /\ Tokens' = Cardinality(InHand') + Cardinality(AtLogin')
  BY DEF Tokens
<1>6. /\ One(c, InHand) \in Nat /\ One(c, InHand') \in Nat
      /\ One(c, AtLogin) \in Nat /\ One(c, AtLogin') \in Nat
  BY DEF One
<1> QED BY <1>1, <1>2, <1>4, <1>5, <1>6, <1>7

\* There are never more in hand than one of each caller, and a login's.
LEMMA TokensBound ==
  ASSUME ClientInv
  PROVE  Tokens \in Nat /\ Tokens <= Cardinality(Callers) + 1
<1>1. Cardinality(InHand) \in Nat /\ Cardinality(InHand) <= Cardinality(Callers)
  BY ClientAssumption, FS_Subset, FS_CardinalityType, HandsAreFinite DEF InHand
<1>2. Cardinality(AtLogin) \in {0, 1}
  <2>1. CASE AtLogin = {}
    BY <2>1, FS_EmptySet
  <2>2. ASSUME NEW c \in AtLogin
        PROVE  Cardinality(AtLogin) \in {0, 1}
    <3>1. AtLogin = {c}
      BY <2>2, OneLogsIn DEF AtLogin, LoggingIn
    <3> QED BY <3>1, FS_Singleton
  <2> QED BY <2>1, <2>2
<1> QED BY <1>1, <1>2, HandsAreFinite DEF Tokens

LEMMA CostGrows == \A a, b \in Nat : a <= b => Cost * a <= Cost * b
<1> SUFFICES ASSUME NEW a \in Nat, NEW b \in Nat, a <= b PROVE Cost * a <= Cost * b
  OBVIOUS
<1> DEFINE d == b - a
<1>1. d \in Nat /\ b = a + d
  OBVIOUS
<1> HIDE DEF d
<1>2. Cost * b = Cost * a + Cost * d /\ Cost * d \in Nat /\ Cost * a \in Nat
  BY <1>1, Numbers
<1> QED BY <1>2

LEMMA Pays ==
  ASSUME NEW s \in Nat, NEW t \in Nat, NEW l \in Nat, NEW u \in Nat, NEW v \in Nat, NEW m \in Nat,
         NEW bound \in Int, Cost * (s + t) + l <= bound,
         \/ l >= Cost /\ m = l - Cost /\ v = t + 1 /\ u = s
         \/ m = l /\ v <= t /\ u = s
         \/ m = l /\ v + 1 = t /\ u = s + 1
  PROVE  Cost * (u + v) + m <= bound
<1>1. Cost \in Nat \ {0}
  BY Numbers
<1> DEFINE k == s + t  n == u + v
<1>2. k \in Nat /\ n \in Nat /\ Cost * k + l <= bound
  OBVIOUS
<1>3. \A a, b \in Nat : Cost * (a + b) = Cost * a + Cost * b /\ Cost * a \in Nat /\ Cost * 1 = Cost
  BY <1>1
<1>4. CASE l >= Cost /\ m = l - Cost /\ v = t + 1 /\ u = s
  <2>1. n = k + 1
    BY <1>4
  <2> HIDE DEF k, n
  <2>2. Cost * n = Cost * k + Cost
    BY <1>2, <1>3, <2>1
  <2>3. Cost * n + m <= bound
    BY <1>1, <1>2, <1>3, <1>4, <2>2
  <2> QED BY <2>3 DEF n
<1>5. ASSUME m = l, n <= k
      PROVE  Cost * n + m <= bound
  <2> DEFINE d == k - n
  <2>1. d \in Nat /\ k = n + d
    BY <1>5
  <2> HIDE DEF k, n, d
  <2>2. Cost * k = Cost * n + Cost * d /\ Cost * d \in Nat /\ Cost * n \in Nat
    BY <1>2, <1>3, <2>1
  <2>3. Cost * n + m <= bound
    BY <1>1, <1>2, <1>3, <1>5, <2>2
  <2> QED BY <2>3
<1>6. CASE m = l /\ v <= t /\ u = s
  <2>1. n <= k
    BY <1>6
  <2> QED BY <1>5, <1>6, <2>1
<1>7. CASE m = l /\ v + 1 = t /\ u = s + 1
  <2>1. n <= k
    BY <1>7
  <2> QED BY <1>5, <1>7, <2>1
<1> HIDE DEF k, n
<1> QED BY <1>4, <1>6, <1>7

\* A step that uses no more than it has keeps the account.
LEMMA AccountSteps ==
  ASSUME ClientInv, Account, Tokens' \in Nat,
         \/ level >= Cost /\ level' = level - Cost /\ Tokens' = Tokens + 1 /\ UNCHANGED sent
         \/ level' = level /\ Tokens' <= Tokens /\ UNCHANGED sent
         \/ level' = level /\ Tokens' + 1 = Tokens /\ Send
  PROVE  Account'
<1> SUFFICES ASSUME NEW n \in 1..Second
             PROVE  Cost * (sent'[n] + Tokens') + level' <=
                    Capacity + (n - 1) + Cost * (Cardinality(Callers) + 1)
  BY DEF Account
<1>1. Cost * (sent[n] + Tokens) + level <= Capacity + (n - 1) + Cost * (Cardinality(Callers) + 1)
  BY DEF Account
<1>2. /\ sent[n] \in Nat /\ Tokens \in Nat /\ level \in Nat /\ Cost \in Nat \ {0} /\ Tokens' \in Nat
      /\ Capacity \in Nat /\ n \in Nat /\ Cardinality(Callers) \in Nat
  BY SmallTypes, TokensBound, HandsAreFinite, Numbers DEF ClientInv
<1>3. Capacity + (n - 1) + Cost * (Cardinality(Callers) + 1) \in Int
  BY <1>2
<1> DEFINE bound == Capacity + (n - 1) + Cost * (Cardinality(Callers) + 1)
<1> HIDE DEF bound
<1>4. Cost * (sent[n] + Tokens) + level <= bound /\ bound \in Int
  BY <1>1, <1>3 DEF bound
<1>5. CASE level >= Cost /\ level' = level - Cost /\ Tokens' = Tokens + 1 /\ UNCHANGED sent
  <2>1. level' \in Nat /\ sent'[n] = sent[n]
    BY <1>2, <1>5
  <2> QED BY <1>2, <1>4, <1>5, <2>1, Pays DEF bound
<1>6. CASE level' = level /\ Tokens' <= Tokens /\ UNCHANGED sent
  BY <1>2, <1>4, <1>6, Pays DEF bound
<1>7. CASE level' = level /\ Tokens' + 1 = Tokens /\ Send
  <2>1. sent'[n] = sent[n] + 1 /\ sent'[n] \in Nat /\ level' \in Nat
    BY <1>2, <1>7 DEF Send
  <2>2. level' = level /\ Tokens' + 1 = Tokens
    BY <1>7
  <2>3. Cost * (sent'[n] + Tokens') + level' <= bound
    <3> DEFINE s == sent[n]  t == Tokens  u == sent'[n]  v == Tokens'
    <3>1. s \in Nat /\ t \in Nat /\ u \in Nat /\ v \in Nat /\ v + 1 = t /\ u = s + 1
      BY <1>2, <2>1, <2>2
    <3>2. Cost * (s + t) + level <= bound
      BY <1>4
    <3> HIDE DEF s, t, u, v
    <3>3. Cost * (u + v) + level' <= bound
      BY <1>2, <1>4, <2>1, <2>2, <3>1, <3>2, Pays
    <3> QED BY <3>3 DEF u, v
  <2> QED BY <2>3 DEF bound
<1> QED BY <1>5, <1>6, <1>7

\* Where a caller has no token in hand, and where it has one.
NoToken == {"idle", "rate", "archive", "drop"}
OneToken == {"session", "locked", "login rate", "request"}

LEMMA Weights ==
  ASSUME NEW place
  PROVE  /\ place \in NoToken => Weight(place) = 0
         /\ place \in OneToken => Weight(place) = 1
         /\ place = "login" => Weight(place) = 2
<1>1. ASSUME place \in NoToken
      PROVE  Weight(place) = 0
  <2>1. place \notin Paid /\ place \notin {"login"}
    BY <1>1 DEF NoToken, Paid
  <2>2. One(place, Paid) = 0 /\ One(place, {"login"}) = 0
    BY <2>1 DEF One
  <2> QED BY <2>2 DEF Weight
<1>2. ASSUME place \in OneToken
      PROVE  Weight(place) = 1
  <2>1. place \in Paid /\ place \notin {"login"}
    BY <1>2 DEF OneToken, Paid
  <2>2. One(place, Paid) = 1 /\ One(place, {"login"}) = 0
    BY <2>1 DEF One
  <2> QED BY <2>2 DEF Weight
<1>3. ASSUME place = "login"
      PROVE  Weight(place) = 2
  BY <1>3 DEF Weight, One, Paid
<1> QED BY <1>1, <1>2, <1>3

\* The moves that leave as much in hand or less, those that use a token, and those that take one.
LEMMA MovesCount ==
  ASSUME NEW c \in Callers, NEW f, NEW t, Takes(c, {f}, {t})
  PROVE  /\ Tokens \in Nat /\ Tokens' \in Nat
         /\ t \in NoToken /\ f \in NoToken \cup OneToken \cup {"login"} => Tokens' <= Tokens
         /\ t \in OneToken /\ f \in OneToken => Tokens' <= Tokens
         /\ \/ f = "request" /\ t = "archive"
            \/ f = "login" /\ t = "request"
            => Tokens' + 1 = Tokens
         /\ \/ f = "rate" /\ t = "session"
            \/ f = "login rate" /\ t = "login"
            => Tokens' = Tokens + 1
<1> DEFINE u == Tokens  v == Tokens'  a == Weight(f)  b == Weight(t)
<1>1. u \in Nat /\ v \in Nat /\ v + a = u + b
  BY TokensMove
<1>2. ASSUME t \in NoToken, f \in NoToken \cup OneToken \cup {"login"}
      PROVE  v <= u
  <2>1. b = 0 /\ (a = 0 \/ a = 1 \/ a = 2)
    BY <1>2, Weights
  <2> HIDE DEF u, v, a, b
  <2> QED BY <1>1, <2>1
<1>3. ASSUME t \in OneToken, f \in OneToken
      PROVE  v <= u
  <2>1. a = 1 /\ b = 1
    BY <1>3, Weights
  <2> HIDE DEF u, v, a, b
  <2> QED BY <1>1, <2>1
<1>4. ASSUME \/ f = "request" /\ t = "archive"
             \/ f = "login" /\ t = "request"
      PROVE  v + 1 = u
  <2>1. (a = 1 /\ b = 0) \/ (a = 2 /\ b = 1)
    <3>1. (f \in OneToken /\ t \in NoToken) \/ (f = "login" /\ t \in OneToken)
      BY <1>4 DEF NoToken, OneToken
    <3> QED BY <3>1, Weights
  <2> HIDE DEF u, v, a, b
  <2> QED BY <1>1, <2>1
<1>5. ASSUME \/ f = "rate" /\ t = "session"
             \/ f = "login rate" /\ t = "login"
      PROVE  v = u + 1
  <2>1. (a = 0 /\ b = 1) \/ (a = 1 /\ b = 2)
    <3>1. (f \in NoToken /\ t \in OneToken) \/ (f \in OneToken /\ t = "login")
      BY <1>5 DEF NoToken, OneToken
    <3> QED BY <3>1, Weights
  <2> HIDE DEF u, v, a, b
  <2> QED BY <1>1, <2>1
<1> QED BY <1>1, <1>2, <1>3, <1>4, <1>5

LEMMA CallerAccount ==
  ASSUME ClientInv, Account, NEW c \in Callers, Call(c) \/ Proceed(c) \/ Raises(c)
  PROVE  Account'
<1>1. ClientTypeOK /\ level \in Nat
  BY SmallTypes DEF ClientInv
<1>2. ASSUME NEW f, NEW t, Takes(c, {f}, {t}), UNCHANGED <<level, sent>>,
             \/ t \in NoToken /\ f \in NoToken \cup OneToken \cup {"login"}
             \/ t \in OneToken /\ f \in OneToken
      PROVE  Account'
  BY <1>2, MovesCount, AccountSteps
<1>3. ASSUME NEW f, NEW t, Takes(c, {f}, {t}), level' = level, Send,
             \/ f = "request" /\ t = "archive"
             \/ f = "login" /\ t = "request"
      PROVE  Account'
  BY <1>3, MovesCount, AccountSteps
<1>4. CASE Call(c)
  <2>1. Takes(c, {"idle"}, {"rate"}) /\ UNCHANGED <<level, sent>>
    BY <1>1, <1>4, CallTakes DEF Call
  <2> QED BY <1>2, <2>1 DEF NoToken, OneToken
<1>5. CASE Acquire(c)
  <2>1. call[c].at \in AtBucket /\ UNCHANGED sent
    BY <1>1, <1>5, SmallTypes, HolderPlace DEF ClientInv, Acquire
  <2>2. CASE level >= Cost /\ level' = level - Cost
    <3>1. ASSUME NEW f, NEW t, Takes(c, {f}, {t}),
                 \/ f = "rate" /\ t = "session"
                 \/ f = "login rate" /\ t = "login"
          PROVE  Account'
      BY <2>1, <2>2, <3>1, MovesCount, AccountSteps
    <3>2. Takes(c, {"rate"}, {"session"}) \/ Takes(c, {"login rate"}, {"login"})
      <4>1. level < Cost => FALSE
        BY <1>1, <2>2, Numbers
      <4> QED BY <1>1, <1>5, <2>1, <4>1, AcquireTakes DEF AtBucket
    <3> QED BY <3>1, <3>2
  <2>3. CASE UNCHANGED <<level, rateQueue, call>>
    <3>1. Tokens' = Tokens
      BY <2>3 DEF Tokens, InHand, AtLogin
    <3> QED BY <2>1, <2>3, <3>1, TokensBound, AccountSteps
  <2> QED BY <1>1, <1>5, <2>2, <2>3, AcquireTakes
<1>6. CASE GetSession(c)
  <2>1. /\ UNCHANGED <<level, sent>>
        /\ Takes(c, {"session"}, {"request"}) \/ Takes(c, {"session"}, {"locked"})
    BY <1>1, <1>6, GetSessionTakes DEF GetSession, bucketVars
  <2> QED BY <1>2, <2>1 DEF NoToken, OneToken
<1>7. CASE GetSessionLocked(c)
  <2>1. /\ UNCHANGED <<level, sent>>
        /\ Takes(c, {"locked"}, {"request"}) \/ Takes(c, {"locked"}, {"login rate"})
    BY <1>1, <1>7, GetSessionLockedTakes DEF GetSessionLocked
  <2> QED BY <1>2, <2>1 DEF NoToken, OneToken
<1>8. CASE Login(c)
  <2>1. Takes(c, {"login"}, {"request"}) /\ level' = level /\ Send
    BY <1>1, <1>8, LoginTakes DEF Login, bucketVars
  <2> QED BY <1>3, <2>1
<1>9. CASE Request(c)
  <2>1. Takes(c, {"request"}, {"archive"}) /\ level' = level /\ Send
    BY <1>1, <1>9, RequestTakes DEF Request, bucketVars
  <2> QED BY <1>3, <2>1
<1>10. CASE Archive(c)
  <2>1. /\ UNCHANGED <<level, sent>>
        /\ Takes(c, {"archive"}, {"drop"}) \/ Takes(c, {"archive"}, {"idle"})
    BY <1>1, <1>10, ArchiveTakes DEF Archive, bucketVars
  <2> QED BY <1>2, <2>1 DEF NoToken, OneToken
<1>11. CASE Invalidate(c)
  <2>1. Takes(c, {"drop"}, {"rate"}) /\ UNCHANGED <<level, sent>>
    BY <1>1, <1>11, InvalidateTakes DEF Invalidate
  <2> QED BY <1>2, <2>1 DEF NoToken, OneToken
<1>12. CASE Raises(c)
  <2>1. PICK f \in {"login", "request", "archive"} : Takes(c, {f}, {"idle"})
    BY <1>1, <1>12, RaisesTakes DEF Takes
  <2>2. UNCHANGED <<level, sent>>
    BY <1>12 DEF Raises, bucketVars
  <2> QED BY <1>2, <2>1, <2>2 DEF NoToken, OneToken
<1> QED BY <1>4, <1>5, <1>6, <1>7, <1>8, <1>9, <1>10, <1>11, <1>12 DEF Proceed

\* A tick: every window is a tick longer than the one that ended a tick ago, and a new one begins.
LEMMA TickAccount ==
  ASSUME ClientInv, Account, Tick
  PROVE  Account'
<1> SUFFICES ASSUME NEW n \in 1..Second
             PROVE  Cost * (sent'[n] + Tokens') + level' <=
                    Capacity + (n - 1) + Cost * (Cardinality(Callers) + 1)
  BY DEF Account
<1>1. Tokens' = Tokens
  BY DEF Tick, Tokens, InHand, AtLogin
<1>2. /\ level \in 0..Capacity /\ Tokens \in Nat /\ Cost \in Nat \ {0} /\ Capacity \in Nat
      /\ Tokens <= Cardinality(Callers) + 1 /\ Cardinality(Callers) \in Nat /\ Second \in Nat
      /\ sent \in [1..Second -> Nat]
  BY SmallTypes, TokensBound, HandsAreFinite, Numbers DEF ClientInv
<1>3. level' \in 0..Capacity /\ level' <= level + 1
  BY <1>2 DEF Tick
<1>4. sent'[n] = IF n = 1 THEN 0 ELSE sent[n - 1]
  BY DEF Tick
<1> DEFINE most == Cost * (Cardinality(Callers) + 1)
<1>5. most \in Nat
  BY <1>2
<1>6. CASE n = 1
  <2>1. Cost * Tokens <= most
    <3> DEFINE t == Tokens  b == Cardinality(Callers) + 1
    <3>1. t \in Nat /\ b \in Nat /\ t <= b
      BY <1>2
    <3> HIDE DEF t, b
    <3>2. Cost * t <= Cost * b
      BY <1>2, <3>1, CostGrows
    <3> QED BY <3>2 DEF t, b
  <2>2. sent'[n] + Tokens' = Tokens /\ n - 1 = 0
    BY <1>1, <1>2, <1>4, <1>6
  <2>3. Cost * Tokens \in Nat
    BY <1>2
  <2> HIDE DEF most
  <2>4. Cost * (sent'[n] + Tokens') + level' <= Capacity + (n - 1) + most
    BY <1>2, <1>3, <1>5, <2>1, <2>2, <2>3
  <2> QED BY <2>4 DEF most
<1>7. CASE n # 1
  <2>1. n - 1 \in 1..Second /\ n \in Nat
    BY <1>2, <1>7
  <2>2. Cost * (sent[n - 1] + Tokens) + level <= Capacity + ((n - 1) - 1) + most
    BY <2>1 DEF Account
  <2>3. sent'[n] + Tokens' = sent[n - 1] + Tokens
    BY <1>1, <1>4, <1>7
  <2>4. Cost * (sent[n - 1] + Tokens) \in Nat
    BY <1>2, <2>1
  <2> HIDE DEF most
  <2> DEFINE x == Cost * (sent[n - 1] + Tokens)
  <2>5. x + level <= Capacity + ((n - 1) - 1) + most /\ x \in Nat
    BY <2>2, <2>4
  <2>6. Cost * (sent'[n] + Tokens') = x
    BY <2>3
  <2> DEFINE l == level'
  <2>7. /\ x \in Nat /\ level \in Nat /\ l \in Nat /\ Capacity \in Nat /\ n \in Nat /\ most \in Nat
        /\ l <= level + 1
    BY <1>2, <1>3, <1>5, <2>1, <2>5
  <2> HIDE DEF x, l
  <2>8. x + l <= Capacity + (n - 1) + most
    BY <2>5, <2>7
  <2> QED BY <2>6, <2>8 DEF most, l
<1> QED BY <1>6, <1>7

\* The account of the bucket: what was sent in the last n ticks, the tokens taken and not yet
\* used, and what the bucket holds came from a full bucket, n - 1 refills, or an earlier token.
THEOREM AccountHolds == Spec => []Account
<1>1. Init => Account
  <2> SUFFICES ASSUME Init, NEW n \in 1..Second
               PROVE  Cost * (sent[n] + Tokens) + level <=
                      Capacity + (n - 1) + Cost * (Cardinality(Callers) + 1)
    BY DEF Account
  <2>1. InHand = {} /\ AtLogin = {}
    BY QuietPuts DEF Init, InHand, AtLogin, Paid
  <2>2. sent[n] + Tokens = 0 /\ level = Capacity
    BY <2>1, FS_EmptySet DEF Tokens, Init
  <2>3. Cost * (Cardinality(Callers) + 1) \in Nat /\ Cost * 0 = 0 /\ Capacity \in Nat
    BY Numbers, HandsAreFinite
  <2>4. n - 1 \in Nat
    BY Numbers
  <2> QED BY <2>2, <2>3, <2>4
<1>2. ClientInv /\ Account /\ [Next]_vars => Account'
  <2> SUFFICES ASSUME ClientInv, Account, [Next]_vars PROVE Account'
    OBVIOUS
  <2>1. CASE Expire \/ UNCHANGED vars
    BY <2>1 DEF Expire, Account, Tokens, InHand, AtLogin, bucketVars, sessionVars, vars
  <2> QED BY <2>1, CallerAccount, TickAccount DEF Next
<1> QED BY <1>1, <1>2, ClientInvariant, PTL DEF Spec

\* For any number of callers and any rate: a second sees no more requests than two full buckets and
\* one of each caller (rate_limit.py: acquire).
THEOREM SpeedIsLimited == Spec => []SpeedLimit
<1>1. ClientInv /\ Account => SpeedLimit
  <2> SUFFICES ASSUME ClientInv, Account, ~(sent[Second] <= 2 * Rate + Cardinality(Callers))
               PROVE  FALSE
    BY DEF SpeedLimit
  <2>1. /\ sent[Second] \in Nat /\ level \in Nat /\ Tokens \in Nat /\ Cost \in Nat \ {0} /\ Rate \in Nat
        /\ Cardinality(Callers) \in Nat /\ Capacity = Rate * Cost /\ Second = Rate * Cost /\ Second \in 1..Second
    BY SmallTypes, TokensBound, HandsAreFinite, Numbers, ClientAssumption DEF ClientInv, Capacity, Second
  <2>2. Cost * (sent[Second] + Tokens) + level <= Capacity + (Second - 1) + Cost * (Cardinality(Callers) + 1)
    BY <2>1 DEF Account
  <2> DEFINE x == sent[Second]  t == Tokens  k == Cardinality(Callers)  b == Rate * Cost
  <2>3. /\ x \in Nat /\ t \in Nat /\ k \in Nat /\ b \in Nat /\ x >= 2 * Rate + k + 1
        /\ Cost * (x + t) + level <= b + (b - 1) + Cost * (k + 1)
    BY <2>1, <2>2
  <2>4. b = Cost * Rate
    BY <2>1
  <2> HIDE DEF x, t, k, b
  <2>5. Cost * (2 * Rate + k + 1) <= Cost * (x + t)
    BY <2>1, <2>3, CostGrows
  <2>6. Cost * (2 * Rate + k + 1) = Cost * Rate + Cost * Rate + Cost * (k + 1)
    BY <2>1, <2>3
  <2>7. Cost * (k + 1) \in Nat /\ Cost * (x + t) \in Nat
    BY <2>1, <2>3
  <2> QED BY <2>1, <2>3, <2>4, <2>5, <2>6, <2>7
<1> QED BY <1>1, ClientInvariant, AccountHolds, PTL
=============================================================================
