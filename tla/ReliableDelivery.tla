-------------------------- MODULE ReliableDelivery --------------------------
(***************************************************************************)
(* What the event plumbing promises a service that publishes an event and  *)
(* one that consumes it (ARCHITECTURE.md section 4.1, events.md section 4) *)
(* with the broker, the relays, the retries and the crashes left out: a    *)
(* committed event is applied exactly once, unless it is parked on the     *)
(* dead-letter topic, from where it may be taken up again.  It is never    *)
(* forgotten, and an event nobody committed is never seen.                 *)
(***************************************************************************)
CONSTANT Events

VARIABLE fate           \* fate[e]: how far e has come

Fate == {"unknown", "accepted", "parked", "applied"}

Init == fate = [e \in Events |-> "unknown"]

Moves(e, from, to) == fate[e] \in from /\ fate' = [fate EXCEPT ![e] = to]

\* The producer's transaction commits.
Accept(e) == Moves(e, {"unknown"}, "accepted")

\* The consumer's write is committed; a late writer may overtake the parking.
Apply(e) == Moves(e, {"accepted", "parked"}, "applied")

\* The consumer has given up on S for now.  (The rows of a batch all cease to be
\* the relay's business in the one commit that marks them sent.)
Park(S) ==
    /\ \A e \in S : fate[e] = "accepted"
    /\ fate' = [e \in Events |-> IF e \in S THEN "parked" ELSE fate[e]]

\* A parked event is on its way again.
Resume(e) == Moves(e, {"parked"}, "accepted")

Next ==
    \/ \E e \in Events : Accept(e) \/ Apply(e) \/ Resume(e)
    \/ \E S \in SUBSET Events : Park(S)

Spec == Init /\ [][Next]_fate
=============================================================================
