--------------------------- MODULE MatchingProofs ---------------------------
(***************************************************************************)
(* Proofs about Matching, for any products, GTINs and bounds.  The first   *)
(* part holds for any number of concurrent requests, the second when they  *)
(* take turns.                                                             *)
(***************************************************************************)
EXTENDS Matching, FiniteSetTheorems, TLAPS

USE DEF tables

-----------------------------------------------------------------------------
(* The inductive invariant of concurrent requests.                          *)

\* No two existing canonicals share a GTIN.
GtinInv ==
    \A c, d \in Canonicals :
        /\ Exists(c)
        /\ Exists(d)
        /\ canon[c].gtin = canon[d].gtin
        /\ canon[c].gtin # NoGtin
        => c = d

\* What a transaction has read of a link and no other one can undo: a link is
\* never deleted, and never waits for an operator again.
JobInv ==
    \A s \in Requests :
        /\ job[s].op \in {"confirm", "reject", "create"} => Linked(job[s].product)
        /\ job[s].op = "move" =>
              /\ \A p \in job[s].moved : Linked(p)
              /\ job[s].announce \subseteq job[s].moved
              /\ \A p \in job[s].announce : links[p].status # "pending_review"

IInv ==
    /\ TypeOK
    /\ GtinInv
    /\ JobInv
    /\ PendingIsQuiet
    /\ DecisionsAreLogged

-----------------------------------------------------------------------------
\* What a job of each kind carries.
LEMMA JobShape ==
    ASSUME NEW j \in Job \cup {Idle}
    PROVE  /\ j.op \in {"idle", "link", "confirm", "reject", "create", "merge", "move"}
           /\ j.op = "link" => /\ j.product \in Products
                               /\ j.gtin \in Gtins \cup {NoGtin}
                               /\ j.candidate \in Canonicals \cup {NoCanonical}
           /\ j.op \in {"confirm", "reject"} =>
                  j.product \in Products /\ j.canonical \in Canonicals
           /\ j.op = "create" => j.product \in Products /\ j.gtin \in Gtins \cup {NoGtin}
           /\ j.op \in {"merge", "move"} => j.target \in Canonicals /\ j.source \in Canonicals
           /\ j.op = "move" => j.moved \in SUBSET Products /\ j.announce \in SUBSET Products
BY DEF Job, Idle

\* Idle is not one of the kinds that commit.
LEMMA IdleOp == Idle.op = "idle"
BY DEF Idle

-----------------------------------------------------------------------------
(* What each committed transaction does to the tables.                      *)

\* The part of IInv that is about the tables alone.
TablesInv ==
    /\ TablesTypeOK
    /\ GtinInv
    /\ PendingIsQuiet
    /\ DecisionsAreLogged

\* Links are never deleted, and never wait for an operator again.
LinksGrow ==
    \A p \in Products :
        Linked(p) =>
            /\ links'[p].status # "none"
            /\ links[p].status # "pending_review" => links'[p].status # "pending_review"

LEMMA CanonicalsAreNumbers ==
    /\ Canonicals \subseteq Nat
    /\ NoCanonical \notin Canonicals
BY TablesAssumption DEF Canonicals, NoCanonical

\* Linked rows are rows.
LEMMA LinkedRow ==
    ASSUME TablesTypeOK, NEW p \in Products, Linked(p)
    PROVE  /\ links[p] \in Link
           /\ links[p].canonical \in Canonicals
           /\ links[p].status \in LinkStatus
BY DEF TablesTypeOK, Linked, Link, NoLink, LinkStatus

\* A fresh canonical with a free GTIN keeps the GTINs apart.
LEMMA CreateKeepsGtins ==
    ASSUME TablesTypeOK, GtinInv, NEW c \in Canonicals,
           NEW status \in {"draft", "confirmed"}, NEW gtin \in Gtins \cup {NoGtin},
           CreateCanonical(c, status, gtin)
    PROVE  /\ canon' \in [Canonicals -> CanonicalRow]
           /\ GtinInv'
           /\ canon'[c] = [status |-> status, gtin |-> gtin]
           /\ \A d \in Canonicals : d # c => canon'[d] = canon[d]
<1>1. /\ canon'[c] = [status |-> status, gtin |-> gtin]
      /\ \A d \in Canonicals : d # c => canon'[d] = canon[d]
  BY DEF CreateCanonical, TablesTypeOK
<1>2. canon' \in [Canonicals -> CanonicalRow]
  BY DEF CreateCanonical, TablesTypeOK, CanonicalRow
<1>3. gtin # NoGtin => \A d \in Canonicals : Exists(d) => canon[d].gtin # gtin
  BY DEF CreateCanonical, GtinFree, Carriers
<1>4. GtinInv'
  BY <1>1, <1>3 DEF GtinInv, Exists
<1> QED
  BY <1>1, <1>2, <1>4

\* The journal only grows, and its decisions are well typed.
LEMMA RecordKeepsLog ==
    ASSUME TablesTypeOK, NEW p \in Products, NEW c \in Canonicals,
           NEW action \in {"confirm", "reject", "create_new"}, RecordDecision(action, p, c)
    PROVE  /\ log' \in SUBSET Decision
           /\ log \subseteq log'
           /\ \E d \in log' : d.action = action /\ d.product = p /\ d.canonical = c
<1> DEFINE d == [action |-> action, product |-> p, canonical |-> c]
<1>1. d \in Decision
  BY DEF Decision
<1>2. log' = log \cup {d}
  BY DEF RecordDecision
<1>3. d.action = action /\ d.product = p /\ d.canonical = c
  OBVIOUS
<1> QED
  BY <1>1, <1>2, <1>3 DEF TablesTypeOK

\* One more announcement.
LEMMA AnnounceAppends ==
    ASSUME TablesTypeOK, NEW p \in Products, NEW c \in Canonicals, Announce(p, c)
    PROVE  /\ emitted' \in [Products -> Seq(Canonicals)]
           /\ emitted'[p] = Append(emitted[p], c)
           /\ Len(emitted'[p]) = Len(emitted[p]) + 1
           /\ emitted'[p] # <<>>
           /\ \A i \in DOMAIN emitted'[p] :
                 \/ i \in DOMAIN emitted[p] /\ emitted'[p][i] = emitted[p][i]
                 \/ i = Len(emitted[p]) + 1 /\ emitted'[p][i] = c
           /\ \A q \in Products : q # p => emitted'[q] = emitted[q]
<1>1. /\ emitted' \in [Products -> Seq(Canonicals)]
      /\ emitted'[p] = Append(emitted[p], c)
      /\ \A q \in Products : q # p => emitted'[q] = emitted[q]
  BY DEF Announce, TablesTypeOK
<1>2. emitted[p] \in Seq(Canonicals)
  BY DEF TablesTypeOK
<1> QED
  BY <1>1, <1>2

LEMMA InsertKeeps ==
    ASSUME TablesInv, NEW p \in Products, NEW gtin \in Gtins \cup {NoGtin},
           NEW candidate \in Canonicals \cup {NoCanonical}, InsertLink(p, gtin, candidate)
    PROVE  TablesInv' /\ LinksGrow
<1> USE DEF TablesInv
<1>1. PICK c \in Canonicals :
          /\ IF candidate = NoCanonical
             THEN CreateCanonical(c, IF gtin = NoGtin THEN "draft" ELSE "confirmed", gtin)
             ELSE c = candidate /\ UNCHANGED canon
          /\ links' = [links EXCEPT ![p] =
                [canonical |-> c, status |-> IF gtin = NoGtin THEN "pending_review" ELSE "auto"]]
          /\ IF gtin = NoGtin THEN UNCHANGED emitted ELSE Announce(p, c)
  BY DEF InsertLink
<1>2. ~Linked(p) /\ log' = log
  BY DEF InsertLink
<1>3. emitted[p] = <<>>
  BY <1>2 DEF PendingIsQuiet, Linked
<1>4. canon' \in [Canonicals -> CanonicalRow] /\ GtinInv'
  <2>1. CASE candidate = NoCanonical
    BY <1>1, <2>1, CreateKeepsGtins
  <2>2. CASE candidate # NoCanonical
    BY <1>1, <2>2 DEF TablesTypeOK, GtinInv, Exists
  <2> QED
    BY <2>1, <2>2
<1>5. /\ links' \in [Products -> Link \cup {NoLink}]
      /\ links'[p].status = (IF gtin = NoGtin THEN "pending_review" ELSE "auto")
      /\ \A q \in Products : q # p => links'[q] = links[q]
  BY <1>1 DEF TablesTypeOK, Link, LinkStatus
<1>6. LinksGrow
  BY <1>2, <1>5 DEF LinksGrow, Linked
<1>7. CASE gtin = NoGtin
  <2>1. emitted' = emitted
    BY <1>1, <1>7
  <2>2. PendingIsQuiet'
    BY <1>3, <1>5, <1>7, <2>1 DEF PendingIsQuiet
  <2>3. DecisionsAreLogged'
    BY <1>2, <1>3, <1>5, <1>7, <2>1 DEF DecisionsAreLogged, Decided
  <2> QED
    BY <1>2, <1>4, <1>5, <1>6, <2>1, <2>2, <2>3 DEF TablesTypeOK
<1>8. CASE gtin # NoGtin
  <2>1. Announce(p, c)
    BY <1>1, <1>8
  <2>2. PendingIsQuiet'
    BY <1>5, <1>8, <2>1, AnnounceAppends DEF PendingIsQuiet
  <2>3. \A i \in DOMAIN emitted'[p] : i = 1
    BY <1>3, <2>1, AnnounceAppends
  <2>4. DecisionsAreLogged'
    BY <1>2, <1>5, <1>8, <2>1, <2>3, AnnounceAppends DEF DecisionsAreLogged, Decided
  <2> QED
    BY <1>2, <1>4, <1>5, <1>6, <2>1, <2>2, <2>4, AnnounceAppends DEF TablesTypeOK
<1> QED
  BY <1>7, <1>8

\* Whatever only sets p's status (and canonical), announces p and records it,
\* keeps the journal complete.
LEMMA DecidedKeeps ==
    ASSUME TablesInv, NEW p \in Products, NEW c \in Canonicals,
           NEW action \in {"confirm", "create_new"}, Linked(p),
           links' \in [Products -> Link \cup {NoLink}],
           links'[p].status = "confirmed",
           \A q \in Products : q # p => links'[q] = links[q],
           RecordDecision(action, p, c), Announce(p, c)
    PROVE  /\ PendingIsQuiet'
           /\ DecisionsAreLogged'
           /\ LinksGrow
<1> USE DEF TablesInv
<1>1. /\ log \subseteq log'
      /\ \E d \in log' : d.action = action /\ d.product = p /\ d.canonical = c
  BY RecordKeepsLog
<1>2. PendingIsQuiet'
  BY AnnounceAppends DEF PendingIsQuiet
<1>3. LinksGrow
  BY DEF LinksGrow, Linked
<1>4. ASSUME NEW q \in Products
      PROVE  /\ links'[q].status = "confirmed" =>
                   emitted'[q] # <<>> /\ Decided(q, {"confirm", "create_new"})'
             /\ links'[q].status = "rejected" => Decided(q, {"reject"})'
             /\ \A i \in DOMAIN emitted'[q] : i > 1 =>
                   \E d \in log' : d.action # "reject" /\ d.canonical = emitted'[q][i]
  <2>1. CASE q = p
    <3>1. emitted'[p] # <<>> /\ Decided(p, {"confirm", "create_new"})'
      BY <1>1, AnnounceAppends DEF Decided
    <3>2. \A i \in DOMAIN emitted[p] : i > 1 =>
              \E d \in log : d.action # "reject" /\ d.canonical = emitted[p][i]
      BY DEF DecisionsAreLogged
    <3>3. \E d \in log' : d.action # "reject" /\ d.canonical = c
      BY <1>1
    <3>4. \A i \in DOMAIN emitted'[p] : i > 1 =>
              \E d \in log' : d.action # "reject" /\ d.canonical = emitted'[p][i]
      BY <1>1, <3>2, <3>3, AnnounceAppends
    <3> QED
      BY <2>1, <3>1, <3>4
  <2>2. CASE q # p
    <3>1. emitted'[q] = emitted[q] /\ links'[q] = links[q]
      BY <2>2, AnnounceAppends
    <3> QED
      BY <1>1, <3>1 DEF DecisionsAreLogged, Decided
  <2> QED
    BY <2>1, <2>2
<1>5. DecisionsAreLogged'
  BY <1>4 DEF DecisionsAreLogged
<1> QED
  BY <1>2, <1>3, <1>5

LEMMA ConfirmKeeps ==
    ASSUME TablesInv, NEW p \in Products, NEW c \in Canonicals, Linked(p), WriteConfirm(p, c)
    PROVE  TablesInv' /\ LinksGrow
<1> USE DEF TablesInv
<1>1. links[p] \in Link
  BY LinkedRow
<1>2. /\ links' = [links EXCEPT ![p].status = "confirmed"]
      /\ RecordDecision("confirm", p, c)
      /\ Announce(p, c)
  BY DEF WriteConfirm
<1>3. /\ links' \in [Products -> Link \cup {NoLink}]
      /\ links'[p].status = "confirmed"
      /\ \A q \in Products : q # p => links'[q] = links[q]
  BY <1>1, <1>2 DEF TablesTypeOK, Link, LinkStatus
<1>4. /\ canon' \in [Canonicals -> CanonicalRow]
      /\ \A d \in Canonicals :
            /\ canon'[d].gtin = canon[d].gtin
            /\ canon'[d].status \in {"draft", "confirmed"} <=>
                   canon[d].status \in {"draft", "confirmed"}
  <2>1. CASE canon[c].status = "draft"
    <3>1. canon' = [canon EXCEPT ![c].status = "confirmed"]
      BY <2>1 DEF WriteConfirm
    <3>2. canon[c] \in CanonicalRow
      BY DEF TablesTypeOK
    <3>3. /\ canon'[c] = [canon[c] EXCEPT !.status = "confirmed"]
          /\ \A d \in Canonicals : d # c => canon'[d] = canon[d]
      BY <3>1 DEF TablesTypeOK
    <3>4. /\ canon'[c].status = "confirmed" /\ canon'[c].gtin = canon[c].gtin
          /\ canon'[c] \in CanonicalRow
      BY <3>2, <3>3 DEF CanonicalRow
    <3>5. canon' \in [Canonicals -> CanonicalRow]
      BY <3>1, <3>3, <3>4 DEF TablesTypeOK
    <3> QED
      BY <2>1, <3>3, <3>4, <3>5
  <2>2. CASE canon[c].status # "draft"
    BY <2>2 DEF WriteConfirm, TablesTypeOK
  <2> QED
    BY <2>1, <2>2
<1>5. GtinInv'
  BY <1>4 DEF GtinInv, Exists
<1>6. PendingIsQuiet' /\ DecisionsAreLogged' /\ LinksGrow
  BY <1>2, <1>3, DecidedKeeps
<1>7. log' \in SUBSET Decision /\ emitted' \in [Products -> Seq(Canonicals)]
  BY <1>2, RecordKeepsLog, AnnounceAppends
<1> QED
  BY <1>3, <1>4, <1>5, <1>6, <1>7 DEF TablesTypeOK

LEMMA RejectKeeps ==
    ASSUME TablesInv, NEW p \in Products, NEW c \in Canonicals, Linked(p), WriteReject(p, c)
    PROVE  TablesInv' /\ LinksGrow
<1> USE DEF TablesInv
<1>1. links[p] \in Link
  BY LinkedRow
<1>2. /\ links' = [links EXCEPT ![p].status = "rejected"]
      /\ RecordDecision("reject", p, c)
      /\ canon' = canon /\ emitted' = emitted
  BY DEF WriteReject
<1>3. /\ links' \in [Products -> Link \cup {NoLink}]
      /\ links'[p].status = "rejected"
      /\ \A q \in Products : q # p => links'[q] = links[q]
  BY <1>1, <1>2 DEF TablesTypeOK, Link, LinkStatus
<1>4. /\ log' \in SUBSET Decision
      /\ log \subseteq log'
      /\ \E d \in log' : d.action = "reject" /\ d.product = p /\ d.canonical = c
  BY <1>2, RecordKeepsLog
<1>5. GtinInv' /\ LinksGrow /\ PendingIsQuiet'
  BY <1>2, <1>3 DEF GtinInv, Exists, LinksGrow, Linked, PendingIsQuiet
<1>6. DecisionsAreLogged'
  BY <1>2, <1>3, <1>4 DEF DecisionsAreLogged, Decided
<1> QED
  BY <1>2, <1>3, <1>4, <1>5, <1>6 DEF TablesTypeOK

LEMMA CreateNewKeeps ==
    ASSUME TablesInv, NEW p \in Products, NEW gtin \in Gtins \cup {NoGtin}, Linked(p),
           WriteCreateNew(p, gtin)
    PROVE  TablesInv' /\ LinksGrow
<1> USE DEF TablesInv
<1>1. PICK c \in Canonicals :
          /\ CreateCanonical(c, "confirmed", gtin)
          /\ links' = [links EXCEPT ![p] = [canonical |-> c, status |-> "confirmed"]]
          /\ RecordDecision("create_new", p, c)
          /\ Announce(p, c)
  BY DEF WriteCreateNew
<1>2. /\ links' \in [Products -> Link \cup {NoLink}]
      /\ links'[p].status = "confirmed"
      /\ \A q \in Products : q # p => links'[q] = links[q]
  BY <1>1 DEF TablesTypeOK, Link, LinkStatus
<1>3. canon' \in [Canonicals -> CanonicalRow] /\ GtinInv'
  BY <1>1, CreateKeepsGtins
<1>4. PendingIsQuiet' /\ DecisionsAreLogged' /\ LinksGrow
  BY <1>1, <1>2, DecidedKeeps
<1>5. log' \in SUBSET Decision /\ emitted' \in [Products -> Seq(Canonicals)]
  BY <1>1, RecordKeepsLog, AnnounceAppends
<1> QED
  BY <1>2, <1>3, <1>4, <1>5 DEF TablesTypeOK

LEMMA MergeKeeps ==
    ASSUME TablesInv, NEW target \in Canonicals, NEW source \in Canonicals,
           NEW moved \in SUBSET Products, NEW announce \in SUBSET Products,
           \A p \in moved : Linked(p), announce \subseteq moved,
           \A p \in announce : links[p].status # "pending_review",
           WriteMerge(target, source, moved, announce)
    PROVE  TablesInv' /\ LinksGrow
<1> USE DEF TablesInv
<1>1. \A p \in moved : links[p] \in Link
  BY LinkedRow
<1>2. /\ links' \in [Products -> Link \cup {NoLink}]
      /\ \A p \in Products : links'[p].status = links[p].status
  BY <1>1 DEF WriteMerge, TablesTypeOK, Link, NoLink
<1>3. /\ canon' \in [Canonicals -> CanonicalRow]
      /\ GtinInv'
  BY DEF WriteMerge, TablesTypeOK, CanonicalRow, GtinInv, Exists
<1>4. PICK d \in Decision : d.action = "merge" /\ d.canonical = target /\ log' = log \cup {d}
  BY DEF WriteMerge, Decision
<1>5. ASSUME NEW p \in Products
      PROVE  /\ emitted'[p] \in Seq(Canonicals)
             /\ emitted[p] # <<>> => emitted'[p] # <<>>
             /\ p \notin announce => emitted'[p] = emitted[p]
             /\ \A i \in DOMAIN emitted'[p] :
                   \/ i \in DOMAIN emitted[p] /\ emitted'[p][i] = emitted[p][i]
                   \/ emitted'[p][i] = target
  <2>1. emitted[p] \in Seq(Canonicals)
    BY DEF TablesTypeOK
  <2>2. emitted'[p] = IF p \in announce THEN Append(emitted[p], target) ELSE emitted[p]
    BY DEF WriteMerge
  <2> QED
    BY <2>1, <2>2
<1>6. emitted' \in [Products -> Seq(Canonicals)]
  <2>1. emitted' = [p \in Products |-> emitted'[p]]
    BY DEF WriteMerge
  <2> QED
    BY <1>5, <2>1
<1>7. PendingIsQuiet'
  BY <1>2, <1>5 DEF PendingIsQuiet, Linked
<1>8. LinksGrow
  BY <1>2 DEF LinksGrow, Linked
<1>9. DecisionsAreLogged'
  BY <1>2, <1>4, <1>5 DEF DecisionsAreLogged, Decided
<1> QED
  BY <1>2, <1>3, <1>4, <1>6, <1>7, <1>8, <1>9 DEF TablesTypeOK

-----------------------------------------------------------------------------
(* The steps of the transactions.                                           *)

\* A first half changes no table: its job must carry what JobInv says.
LEMMA BeginKeeps ==
    ASSUME IInv, NEW s \in Requests, NEW j \in Job, Begin(s, j),
           j.op \in {"confirm", "reject", "create"} => Linked(j.product),
           j.op # "move"
    PROVE  IInv'
<1>1. UNCHANGED tables
  BY DEF Begin
<1>2. /\ job' = [job EXCEPT ![s] = j]
      /\ budget' = budget - 1 /\ budget > 0
  BY DEF Begin
<1>3. TypeOK'
  BY <1>1, <1>2, RequestsAssumption DEF IInv, TypeOK, TablesTypeOK
<1>4. JobInv'
  BY <1>1, <1>2 DEF IInv, TypeOK, JobInv, Linked
<1>5. GtinInv' /\ PendingIsQuiet' /\ DecisionsAreLogged'
  BY <1>1 DEF IInv, GtinInv, Exists, PendingIsQuiet, DecisionsAreLogged, Decided
<1> QED
  BY <1>3, <1>4, <1>5 DEF IInv

\* A second half writes the tables and ends the job.
LEMMA EndKeeps ==
    ASSUME IInv, NEW s \in Requests, End(s), TablesInv', LinksGrow
    PROVE  IInv'
<1>1. job' = [job EXCEPT ![s] = Idle] /\ budget' = budget
  BY DEF End
<1>2. TypeOK'
  BY <1>1 DEF IInv, TypeOK, TablesInv
<1>3. ASSUME NEW r \in Requests
      PROVE  /\ job'[r].op \in {"confirm", "reject", "create"} =>
                   links'[job'[r].product].status # "none"
             /\ job'[r].op = "move" =>
                   /\ \A p \in job'[r].moved : links'[p].status # "none"
                   /\ job'[r].announce \subseteq job'[r].moved
                   /\ \A p \in job'[r].announce : links'[p].status # "pending_review"
  <2>1. CASE job'[r] = Idle
    BY <2>1, IdleOp
  <2>2. CASE job'[r] # Idle
    <3>1. job'[r] = job[r]
      BY <1>1, <2>2 DEF IInv, TypeOK
    <3>2. job[r] \in Job \cup {Idle}
      BY DEF IInv, TypeOK
    <3> QED
      BY <3>1, <3>2, JobShape DEF IInv, JobInv, LinksGrow, Linked
  <2> QED
    BY <2>1, <2>2
<1>4. JobInv'
  BY <1>3 DEF JobInv, Linked
<1> QED
  BY <1>2, <1>4 DEF IInv, TablesInv

LEMMA ReadLinksKeeps ==
    ASSUME IInv, NEW s \in Requests, ReadLinks(s)
    PROVE  IInv'
<1> DEFINE moved == LinksOf(job[s].source)
           j == [op |-> "move", target |-> job[s].target, source |-> job[s].source,
                 moved |-> moved, announce |-> Announced(moved)]
<1>1. /\ UNCHANGED <<links, canon, emitted, log, budget>>
      /\ job' = [job EXCEPT ![s] = j]
  BY DEF ReadLinks
<1>2. job[s] \in Job \cup {Idle} /\ job[s].op = "merge"
  BY DEF IInv, TypeOK, ReadLinks
<1>3. moved \subseteq Products /\ Announced(moved) \subseteq moved
  BY DEF LinksOf, Announced
<1>4. j \in Job
  BY <1>2, <1>3, JobShape DEF Job
<1>5. TypeOK'
  BY <1>1, <1>4 DEF IInv, TypeOK, TablesTypeOK
<1>6. /\ \A p \in moved : Linked(p)
      /\ \A p \in Announced(moved) : links[p].status # "pending_review"
  BY DEF LinksOf, Announced
<1>7. JobInv'
  <2> SUFFICES ASSUME NEW r \in Requests
               PROVE  /\ job'[r].op \in {"confirm", "reject", "create"} =>
                            Linked(job'[r].product)
                      /\ job'[r].op = "move" =>
                            /\ \A p \in job'[r].moved : Linked(p)
                            /\ job'[r].announce \subseteq job'[r].moved
                            /\ \A p \in job'[r].announce : links[p].status # "pending_review"
    BY <1>1 DEF JobInv, Linked
  <2>1. CASE r = s
    <3>1. job'[r] = j
      BY <1>1, <2>1 DEF IInv, TypeOK
    <3>2. j.op = "move" /\ j.moved = moved /\ j.announce = Announced(moved)
      OBVIOUS
    <3>3. /\ job'[r].op = "move"
          /\ job'[r].moved = moved
          /\ job'[r].announce = Announced(moved)
      BY <3>1, <3>2
    <3> HIDE DEF j, moved
    <3> QED
      BY <1>3, <1>6, <3>3
  <2>2. CASE r # s
    <3>1. job'[r] = job[r]
      BY <1>1, <2>2 DEF IInv, TypeOK
    <3> QED
      BY <3>1 DEF IInv, JobInv
  <2> QED
    BY <2>1, <2>2
<1>8. GtinInv' /\ PendingIsQuiet' /\ DecisionsAreLogged'
  BY <1>1 DEF IInv, GtinInv, Exists, PendingIsQuiet, DecisionsAreLogged, Decided
<1> QED
  BY <1>5, <1>7, <1>8 DEF IInv

LEMMA InitHolds == Init => IInv
<1> SUFFICES ASSUME Init PROVE IInv
  OBVIOUS
<1> USE DEF Init, TablesInit
<1>1. TypeOK
  BY RequestsAssumption
  DEF TypeOK, TablesTypeOK, NoLink, CanonicalRow
<1>2. GtinInv
  BY DEF GtinInv, Exists
<1>3. JobInv
  BY IdleOp DEF JobInv
<1>4. PendingIsQuiet /\ DecisionsAreLogged
  BY DEF PendingIsQuiet, DecisionsAreLogged, NoLink
<1> QED
  BY <1>1, <1>2, <1>3, <1>4 DEF IInv

\* The jobs the first halves open.
LEMMA BeginStep ==
    ASSUME IInv, NEW s \in Requests,
           \/ \E p \in Products :
                 \/ BeginConfirm(s, p)
                 \/ BeginReject(s, p)
                 \/ \E g \in Gtins \cup {NoGtin} : BeginDiscover(s, p, g) \/ BeginCreateNew(s, p, g)
           \/ \E c, d \in Canonicals : BeginMerge(s, c, d)
    PROVE  IInv'
<1> USE DEF IInv, TypeOK
<1>1. ASSUME NEW p \in Products, BeginConfirm(s, p)
      PROVE  IInv'
  <2>1. links[p].canonical \in Canonicals
    BY <1>1, LinkedRow DEF BeginConfirm
  <2>2. PICK j \in Job : /\ j = [op |-> "confirm", product |-> p, canonical |-> links[p].canonical]
                         /\ Begin(s, j)
    BY <1>1, <2>1 DEF BeginConfirm, Job
  <2> QED
    BY <1>1, <2>2, BeginKeeps DEF BeginConfirm
<1>2. ASSUME NEW p \in Products, BeginReject(s, p)
      PROVE  IInv'
  <2>1. links[p].canonical \in Canonicals
    BY <1>2, LinkedRow DEF BeginReject
  <2>2. PICK j \in Job : /\ j = [op |-> "reject", product |-> p, canonical |-> links[p].canonical]
                         /\ Begin(s, j)
    BY <1>2, <2>1 DEF BeginReject, Job
  <2> QED
    BY <1>2, <2>2, BeginKeeps DEF BeginReject
<1>3. ASSUME NEW p \in Products, NEW g \in Gtins \cup {NoGtin}, BeginDiscover(s, p, g)
      PROVE  IInv'
  <2>1. PICK c \in Candidates(g) :
            Begin(s, [op |-> "link", product |-> p, gtin |-> g, candidate |-> c])
    BY <1>3 DEF BeginDiscover
  <2>2. c \in Canonicals \cup {NoCanonical}
    BY DEF Candidates, Carriers
  <2>3. PICK j \in Job : /\ j = [op |-> "link", product |-> p, gtin |-> g, candidate |-> c]
                         /\ Begin(s, j)
    BY <2>1, <2>2 DEF Job
  <2> QED
    BY <2>3, BeginKeeps
<1>4. ASSUME NEW p \in Products, NEW g \in Gtins \cup {NoGtin}, BeginCreateNew(s, p, g)
      PROVE  IInv'
  <2>1. PICK j \in Job : /\ j = [op |-> "create", product |-> p, gtin |-> g]
                         /\ Begin(s, j)
    BY <1>4 DEF BeginCreateNew, Job
  <2> QED
    BY <1>4, <2>1, BeginKeeps DEF BeginCreateNew
<1>5. ASSUME NEW c \in Canonicals, NEW d \in Canonicals, BeginMerge(s, c, d)
      PROVE  IInv'
  <2>1. PICK j \in Job : /\ j = [op |-> "merge", target |-> c, source |-> d]
                         /\ Begin(s, j)
    BY <1>5 DEF BeginMerge, Job
  <2> QED
    BY <2>1, BeginKeeps
<1> QED
  BY <1>1, <1>2, <1>3, <1>4, <1>5

\* The commits.
LEMMA CommitStep ==
    ASSUME IInv, NEW s \in Requests,
           \/ CommitDiscover(s) \/ CommitConfirm(s) \/ CommitReject(s)
           \/ CommitCreateNew(s) \/ CommitMerge(s)
    PROVE  IInv'
<1>1. TablesInv /\ job[s] \in Job \cup {Idle}
  BY DEF IInv, TypeOK, TablesInv
<1>2. TablesInv' /\ LinksGrow /\ End(s)
  <2>1. CASE CommitDiscover(s)
    BY <1>1, <2>1, JobShape, InsertKeeps DEF CommitDiscover
  <2>2. CASE CommitConfirm(s)
    BY <1>1, <2>2, JobShape, ConfirmKeeps DEF CommitConfirm, IInv, JobInv
  <2>3. CASE CommitReject(s)
    BY <1>1, <2>3, JobShape, RejectKeeps DEF CommitReject, IInv, JobInv
  <2>4. CASE CommitCreateNew(s)
    BY <1>1, <2>4, JobShape, CreateNewKeeps DEF CommitCreateNew, IInv, JobInv
  <2>5. CASE CommitMerge(s)
    BY <1>1, <2>5, JobShape, MergeKeeps DEF CommitMerge, IInv, JobInv
  <2> QED
    BY <2>1, <2>2, <2>3, <2>4, <2>5
<1> QED
  BY <1>2, EndKeeps

LEMMA RollbackKeeps ==
    ASSUME IInv, NEW s \in Requests, Rollback(s)
    PROVE  IInv'
<1>1. UNCHANGED tables /\ End(s)
  BY DEF Rollback
<1>2. TablesInv' /\ LinksGrow
  BY <1>1
  DEF IInv, TypeOK, TablesInv, TablesTypeOK, LinksGrow, Linked, GtinInv, Exists,
      PendingIsQuiet, DecisionsAreLogged, Decided
<1> QED
  BY <1>1, <1>2, EndKeeps

LEMMA StepHolds == IInv /\ [Next]_matchingVars => IInv'
<1> SUFFICES ASSUME IInv, [Next]_matchingVars PROVE IInv'
  OBVIOUS
<1>1. CASE UNCHANGED matchingVars
  BY <1>1
  DEF matchingVars, IInv, TypeOK, TablesTypeOK, GtinInv, Exists, JobInv, Linked,
      PendingIsQuiet, DecisionsAreLogged, Decided
<1>2. CASE Next
  BY <1>2, BeginStep, ReadLinksKeeps, CommitStep, RollbackKeeps DEF Next
<1> QED
  BY <1>1, <1>2

\* The invariant of the matching service under any interleaving of requests.
THEOREM InvariantHolds == Spec => []IInv
<1>1. Init => IInv
  BY InitHolds
<1>2. IInv /\ [Next]_matchingVars => IInv'
  BY StepHolds
<1> QED
  BY <1>1, <1>2, PTL DEF Spec

\* Every state of the service is well typed: no transaction, whatever it read,
\* writes a row that is not one (curation.py, routes.py, handlers.py).
THEOREM TypeCorrect == Spec => []TypeOK
<1>1. IInv => TypeOK
  BY DEF IInv
<1> QED
  BY <1>1, InvariantHolds, PTL

\* A link that waits for an operator is never announced (handlers.py: "no event
\* is emitted until confirmation").
THEOREM PendingStaysQuiet == Spec => []PendingIsQuiet
<1>1. IInv => PendingIsQuiet
  BY DEF IInv
<1> QED
  BY <1>1, InvariantHolds, PTL

\* Every decision has its row in the journal (models.py, DecisionLogRow).
THEOREM JournalIsComplete == Spec => []DecisionsAreLogged
<1>1. IInv => DecisionsAreLogged
  BY DEF IInv
<1> QED
  BY <1>1, InvariantHolds, PTL

\* One GTIN, one canonical, however the lookups and creations interleave
\* (models.py: the unique constraint on canonical_product.gtin).
THEOREM GtinIsUnique == Spec => []OneCanonicalPerGtin
<1>1. IInv => OneCanonicalPerGtin
  <2> SUFFICES ASSUME IInv, NEW g \in Gtins
               PROVE  Cardinality(Carriers(g)) <= 1
    BY DEF OneCanonicalPerGtin
  <2>1. \A c, d \in Carriers(g) : c = d
    BY TablesAssumption DEF IInv, GtinInv, Carriers
  <2>2. CASE Carriers(g) = {}
    BY <2>2, FS_EmptySet
  <2>3. CASE Carriers(g) # {}
    <3>1. PICK c : Carriers(g) = {c}
      BY <2>1, <2>3
    <3> QED
      BY <3>1, FS_Singleton
  <2> QED
    BY <2>2, <2>3
<1> QED
  BY <1>1, InvariantHolds, PTL

-----------------------------------------------------------------------------
(* When transactions take turns, one request open at a time, what one has     *)
(* read is still true when it writes (ReadsHold): the service implements      *)
(* Curation, and the three properties that races violate hold.                *)

\* What the open transaction has read is still so.
ReadsHold ==
    \A s \in Requests :
        /\ job[s].op = "link" =>
              /\ ~Linked(job[s].product)
              /\ job[s].candidate \in Candidates(job[s].gtin)
        /\ job[s].op \in {"confirm", "reject"} =>
              /\ links[job[s].product].status \in {"auto", "pending_review"}
              /\ job[s].canonical = links[job[s].product].canonical
        /\ job[s].op = "create" =>
              /\ Linked(job[s].product)
              /\ links[job[s].product].status # "confirmed"
        /\ job[s].op \in {"merge", "move"} =>
              /\ job[s].target # job[s].source
              /\ Exists(job[s].target)
              /\ Exists(job[s].source)
        /\ job[s].op = "move" =>
              /\ job[s].moved = LinksOf(job[s].source)
              /\ job[s].announce = Announced(LinksOf(job[s].source))

SerialInv ==
    /\ IInv
    /\ ReadsHold
    /\ LinksHaveCanonical
    /\ AnnouncedIsCurrent

\* A confirmed link is still confirmed after the step.
ConfirmedStays ==
    \A p \in Products : links[p].status = "confirmed" => links'[p].status = "confirmed"

-----------------------------------------------------------------------------
(* The writes, when what was read is so.                                    *)

\* What a linked product's last announcement is after one more.
LEMMA LastAnnounced ==
    ASSUME TablesTypeOK, NEW p \in Products, NEW c \in Canonicals, Announce(p, c)
    PROVE  /\ emitted'[p] # <<>>
           /\ emitted'[p][Len(emitted'[p])] = c
           /\ \A q \in Products : q # p => emitted'[q] = emitted[q]
<1>1. /\ emitted'[p] = Append(emitted[p], c)
      /\ \A q \in Products : q # p => emitted'[q] = emitted[q]
  BY DEF Announce, TablesTypeOK
<1>2. emitted[p] \in Seq(Canonicals)
  BY DEF TablesTypeOK
<1> QED
  BY <1>1, <1>2

\* A canonical that is created disturbs no other.
LEMMA CreateAdds ==
    ASSUME TablesTypeOK, NEW c \in Canonicals, NEW status \in {"draft", "confirmed"},
           NEW gtin, CreateCanonical(c, status, gtin)
    PROVE  \A d \in Canonicals : Exists(d) => canon'[d].status \in {"draft", "confirmed"}
BY DEF CreateCanonical, TablesTypeOK, Exists

LEMMA CreatedExists ==
    ASSUME TablesTypeOK, NEW c \in Canonicals, NEW status \in {"draft", "confirmed"},
           NEW gtin, CreateCanonical(c, status, gtin)
    PROVE  canon'[c].status \in {"draft", "confirmed"}
BY DEF CreateCanonical, TablesTypeOK

LEMMA InsertSerial ==
    ASSUME TablesInv, LinksHaveCanonical, AnnouncedIsCurrent, NEW p \in Products,
           NEW gtin \in Gtins \cup {NoGtin}, NEW candidate \in Candidates(gtin),
           InsertLink(p, gtin, candidate)
    PROVE  LinksHaveCanonical' /\ AnnouncedIsCurrent' /\ ConfirmedStays
<1> USE DEF TablesInv
<1>1. PICK c \in Canonicals :
          /\ IF candidate = NoCanonical
             THEN CreateCanonical(c, IF gtin = NoGtin THEN "draft" ELSE "confirmed", gtin)
             ELSE c = candidate /\ UNCHANGED canon
          /\ links' = [links EXCEPT ![p] =
                [canonical |-> c, status |-> IF gtin = NoGtin THEN "pending_review" ELSE "auto"]]
          /\ IF gtin = NoGtin THEN UNCHANGED emitted ELSE Announce(p, c)
  BY DEF InsertLink
<1>2. /\ links'[p].canonical = c
      /\ links'[p].status = (IF gtin = NoGtin THEN "pending_review" ELSE "auto")
      /\ \A q \in Products : q # p => links'[q] = links[q]
  BY <1>1 DEF TablesTypeOK
<1>3. /\ canon'[c].status \in {"draft", "confirmed"}
      /\ \A d \in Canonicals : Exists(d) => canon'[d].status \in {"draft", "confirmed"}
  <2>1. CASE candidate = NoCanonical
    BY <1>1, <2>1, CreateAdds, CreatedExists
  <2>2. CASE candidate # NoCanonical
    BY <1>1, <2>2 DEF Candidates, Carriers, Exists
  <2> QED
    BY <2>1, <2>2
<1>4. LinksHaveCanonical'
  <2> SUFFICES ASSUME NEW q \in Products, links'[q].status # "none"
               PROVE  canon'[links'[q].canonical].status \in {"draft", "confirmed"}
    BY DEF LinksHaveCanonical, Linked, Exists
  <2>1. CASE q = p
    BY <1>2, <1>3, <2>1
  <2>2. CASE q # p
    BY <1>2, <1>3, <2>2, LinkedRow DEF LinksHaveCanonical, Linked
  <2> QED
    BY <2>1, <2>2
<1>5. AnnouncedIsCurrent'
  BY <1>1, <1>2, LastAnnounced DEF AnnouncedIsCurrent
<1>6. ConfirmedStays
  BY <1>2 DEF InsertLink, Linked, ConfirmedStays
<1> QED
  BY <1>4, <1>5, <1>6

LEMMA ConfirmSerial ==
    ASSUME TablesInv, LinksHaveCanonical, AnnouncedIsCurrent, NEW p \in Products, Linked(p),
           WriteConfirm(p, links[p].canonical)
    PROVE  LinksHaveCanonical' /\ AnnouncedIsCurrent' /\ ConfirmedStays
<1> USE DEF TablesInv
<1> DEFINE c == links[p].canonical
<1>1. c \in Canonicals /\ links[p] \in Link
  BY LinkedRow
<1>2. /\ links'[p].status = "confirmed"
      /\ links'[p].canonical = c
      /\ \A q \in Products : q # p => links'[q] = links[q]
  BY <1>1 DEF WriteConfirm, TablesTypeOK, Link
<1>3. \A d \in Canonicals : Exists(d) => canon'[d].status \in {"draft", "confirmed"}
  BY DEF WriteConfirm, TablesTypeOK, CanonicalRow, Exists
<1>4. LinksHaveCanonical'
  BY <1>2, <1>3, LinkedRow DEF LinksHaveCanonical, Linked, Exists
<1>5. AnnouncedIsCurrent'
  BY <1>1, <1>2, LastAnnounced DEF AnnouncedIsCurrent, WriteConfirm
<1>6. ConfirmedStays
  BY <1>2 DEF ConfirmedStays
<1> QED
  BY <1>4, <1>5, <1>6

LEMMA RejectSerial ==
    ASSUME TablesInv, LinksHaveCanonical, AnnouncedIsCurrent, NEW p \in Products, Linked(p),
           links[p].status # "confirmed", NEW c, WriteReject(p, c)
    PROVE  LinksHaveCanonical' /\ AnnouncedIsCurrent' /\ ConfirmedStays
<1> USE DEF TablesInv
<1>1. links[p] \in Link
  BY LinkedRow
<1>2. /\ links'[p].status = "rejected"
      /\ links'[p].canonical = links[p].canonical
      /\ \A q \in Products : q # p => links'[q] = links[q]
      /\ canon' = canon /\ emitted' = emitted
  BY <1>1 DEF WriteReject, TablesTypeOK, Link
<1> QED
  BY <1>2 DEF LinksHaveCanonical, AnnouncedIsCurrent, ConfirmedStays, Linked, Exists

LEMMA CreateNewSerial ==
    ASSUME TablesInv, LinksHaveCanonical, AnnouncedIsCurrent, NEW p \in Products,
           NEW gtin, WriteCreateNew(p, gtin)
    PROVE  LinksHaveCanonical' /\ AnnouncedIsCurrent' /\ ConfirmedStays
<1> USE DEF TablesInv
<1>1. PICK c \in Canonicals :
          /\ CreateCanonical(c, "confirmed", gtin)
          /\ links' = [links EXCEPT ![p] = [canonical |-> c, status |-> "confirmed"]]
          /\ Announce(p, c)
  BY DEF WriteCreateNew
<1>2. /\ links'[p].status = "confirmed"
      /\ links'[p].canonical = c
      /\ \A q \in Products : q # p => links'[q] = links[q]
  BY <1>1 DEF TablesTypeOK
<1>3. /\ canon'[c].status \in {"draft", "confirmed"}
      /\ \A d \in Canonicals : Exists(d) => canon'[d].status \in {"draft", "confirmed"}
  BY <1>1, CreateAdds, CreatedExists
<1>4. LinksHaveCanonical'
  <2> SUFFICES ASSUME NEW q \in Products, links'[q].status # "none"
               PROVE  canon'[links'[q].canonical].status \in {"draft", "confirmed"}
    BY DEF LinksHaveCanonical, Linked, Exists
  <2>1. CASE q = p
    BY <1>2, <1>3, <2>1
  <2>2. CASE q # p
    BY <1>2, <1>3, <2>2, LinkedRow DEF LinksHaveCanonical, Linked
  <2> QED
    BY <2>1, <2>2
<1>5. AnnouncedIsCurrent'
  BY <1>1, <1>2, LastAnnounced DEF AnnouncedIsCurrent
<1>6. ConfirmedStays
  BY <1>2 DEF ConfirmedStays
<1> QED
  BY <1>4, <1>5, <1>6

LEMMA MergeSerial ==
    ASSUME TablesInv, LinksHaveCanonical, AnnouncedIsCurrent,
           NEW target \in Canonicals, NEW source \in Canonicals, target # source,
           Exists(target),
           WriteMerge(target, source, LinksOf(source), Announced(LinksOf(source)))
    PROVE  LinksHaveCanonical' /\ AnnouncedIsCurrent' /\ ConfirmedStays
<1> USE DEF TablesInv
<1> DEFINE moved == LinksOf(source)
<1>1. \A p \in moved : p \in Products /\ Linked(p) /\ links[p] \in Link
  BY LinkedRow DEF LinksOf
<1>2. ASSUME NEW p \in Products
      PROVE  /\ links'[p].status = links[p].status
             /\ p \in moved => links'[p].canonical = target
             /\ p \notin moved => links'[p] = links[p]
  BY <1>1 DEF WriteMerge, TablesTypeOK, Link
<1>3. \A d \in Canonicals : d # source => canon'[d] = canon[d]
  BY DEF WriteMerge, TablesTypeOK
<1>4. LinksHaveCanonical'
  <2> SUFFICES ASSUME NEW p \in Products, links'[p].status # "none"
               PROVE  canon'[links'[p].canonical].status \in {"draft", "confirmed"}
    BY DEF LinksHaveCanonical, Linked, Exists
  <2>1. CASE p \in moved
    BY <1>2, <1>3, <2>1 DEF Exists
  <2>2. CASE p \notin moved
    <3>1. Linked(p) /\ links'[p] = links[p]
      BY <1>2, <2>2 DEF Linked
    <3>2. links[p].canonical \in Canonicals /\ links[p].canonical # source
      BY <2>2, <3>1, LinkedRow DEF LinksOf
    <3> QED
      BY <1>3, <3>1, <3>2 DEF LinksHaveCanonical, Exists
  <2> QED
    BY <2>1, <2>2
<1>5. ASSUME NEW p \in Products, links'[p].status \in {"auto", "confirmed"}
      PROVE  emitted'[p] # <<>> /\ emitted'[p][Len(emitted'[p])] = links'[p].canonical
  <2>1. emitted[p] \in Seq(Canonicals)
    BY DEF TablesTypeOK
  <2>2. emitted'[p] = IF p \in Announced(moved) THEN Append(emitted[p], target) ELSE emitted[p]
    BY DEF WriteMerge
  <2>3. p \in Announced(moved) <=> p \in moved
    BY <1>2, <1>5 DEF Announced
  <2>4. CASE p \in moved
    BY <1>2, <2>1, <2>2, <2>3, <2>4
  <2>5. CASE p \notin moved
    BY <1>2, <1>5, <2>2, <2>3, <2>5 DEF AnnouncedIsCurrent
  <2> QED
    BY <2>4, <2>5
<1>6. AnnouncedIsCurrent'
  BY <1>5 DEF AnnouncedIsCurrent
<1>7. ConfirmedStays
  BY <1>2 DEF ConfirmedStays
<1> QED
  BY <1>4, <1>6, <1>7

-----------------------------------------------------------------------------
(* The steps of the one transaction.                                        *)

\* Every first half leaves the tables alone and reads what is so.
LEMMA SerialBegin ==
    ASSUME NEW s, Requests = {s}, SerialInv,
           \/ \E p \in Products :
                 \/ BeginConfirm(s, p)
                 \/ BeginReject(s, p)
                 \/ \E g \in Gtins \cup {NoGtin} : BeginDiscover(s, p, g) \/ BeginCreateNew(s, p, g)
           \/ \E c, d \in Canonicals : BeginMerge(s, c, d)
    PROVE  UNCHANGED tables /\ ReadsHold'
<1> USE DEF SerialInv, IInv, TypeOK
<1>0. s \in Requests /\ (\A r \in Requests : r = s)
  OBVIOUS
<1>1. ASSUME NEW p \in Products, BeginConfirm(s, p) \/ BeginReject(s, p)
      PROVE  UNCHANGED tables /\ ReadsHold'
  <2>1. links[p].status \in {"auto", "pending_review"}
    BY <1>1, LinkedRow DEF BeginConfirm, BeginReject, LinkStatus
  <2>2. PICK op \in {"confirm", "reject"} :
            Begin(s, [op |-> op, product |-> p, canonical |-> links[p].canonical])
    BY <1>1 DEF BeginConfirm, BeginReject
  <2>3. UNCHANGED tables
    BY <2>2 DEF Begin
  <2>4. job'[s] = [op |-> op, product |-> p, canonical |-> links[p].canonical]
    BY <1>0, <2>2 DEF Begin
  <2> QED
    BY <1>0, <2>1, <2>3, <2>4 DEF ReadsHold
<1>2. ASSUME NEW p \in Products, NEW g \in Gtins \cup {NoGtin}, BeginDiscover(s, p, g)
      PROVE  UNCHANGED tables /\ ReadsHold'
  <2>1. PICK c \in Candidates(g) :
            Begin(s, [op |-> "link", product |-> p, gtin |-> g, candidate |-> c])
    BY <1>2 DEF BeginDiscover
  <2>2. UNCHANGED tables
    BY <2>1 DEF Begin
  <2>3. job'[s] = [op |-> "link", product |-> p, gtin |-> g, candidate |-> c]
    BY <1>0, <2>1 DEF Begin
  <2>4. c \in Candidates(g)' /\ ~Linked(p)'
    BY <1>2, <2>2 DEF Candidates, Carriers, Exists, Linked, BeginDiscover
  <2>5. /\ job'[s].op = "link" /\ job'[s].product = p
        /\ job'[s].gtin = g /\ job'[s].candidate = c
    BY <2>3
  <2>6. ReadsHold'
    BY <1>0, <2>2, <2>4, <2>5 DEF ReadsHold, Linked, Candidates, Carriers, Exists
  <2> QED
    BY <2>2, <2>6
<1>3. ASSUME NEW p \in Products, NEW g \in Gtins \cup {NoGtin}, BeginCreateNew(s, p, g)
      PROVE  UNCHANGED tables /\ ReadsHold'
  <2>1. UNCHANGED tables /\ job'[s] = [op |-> "create", product |-> p, gtin |-> g]
    BY <1>0, <1>3 DEF BeginCreateNew, Begin
  <2> QED
    BY <1>0, <1>3, <2>1 DEF BeginCreateNew, ReadsHold, Linked
<1>4. ASSUME NEW c \in Canonicals, NEW d \in Canonicals, BeginMerge(s, c, d)
      PROVE  UNCHANGED tables /\ ReadsHold'
  <2>1. UNCHANGED tables /\ job'[s] = [op |-> "merge", target |-> c, source |-> d]
    BY <1>0, <1>4 DEF BeginMerge, Begin
  <2> QED
    BY <1>0, <1>4, <2>1 DEF BeginMerge, ReadsHold, Exists
<1> QED
  BY <1>1, <1>2, <1>3, <1>4

LEMMA SerialReadLinks ==
    ASSUME NEW s, Requests = {s}, SerialInv, ReadLinks(s)
    PROVE  UNCHANGED tables /\ ReadsHold'
<1>0. s \in Requests /\ (\A r \in Requests : r = s)
  OBVIOUS
<1>1. UNCHANGED tables
  BY DEF ReadLinks
<1>2. /\ job'[s].op = "move"
      /\ job'[s].target = job[s].target
      /\ job'[s].source = job[s].source
      /\ job'[s].moved = LinksOf(job[s].source)
      /\ job'[s].announce = Announced(LinksOf(job[s].source))
  BY <1>0 DEF ReadLinks, SerialInv, IInv, TypeOK
<1>3. /\ job[s].target # job[s].source
      /\ Exists(job[s].target)
      /\ Exists(job[s].source)
  BY <1>0 DEF ReadLinks, SerialInv, ReadsHold
<1> HIDE DEF tables
<1>4. ReadsHold'
  BY <1>0, <1>1, <1>2, <1>3 DEF tables, ReadsHold, Exists, LinksOf, Linked, Announced
<1> QED
  BY <1>1, <1>4

\* With nothing open, nothing has been read.
LEMMA SerialEnd ==
    ASSUME NEW s, Requests = {s}, SerialInv, End(s)
    PROVE  ReadsHold'
<1>1. job'[s] = Idle /\ \A r \in Requests : r = s
  BY DEF End, SerialInv, IInv, TypeOK
<1> QED
  BY <1>1, IdleOp DEF ReadsHold

\* Every second half decides on what is, and keeps the links and their events right.
LEMMA SerialCommit ==
    ASSUME NEW s, Requests = {s}, SerialInv,
           \/ CommitDiscover(s) \/ CommitConfirm(s) \/ CommitReject(s)
           \/ CommitCreateNew(s) \/ CommitMerge(s)
    PROVE  /\ LinksHaveCanonical' /\ AnnouncedIsCurrent' /\ ConfirmedStays
           /\ End(s)
<1>0. s \in Requests
  OBVIOUS
<1>1. /\ TablesInv /\ LinksHaveCanonical /\ AnnouncedIsCurrent
      /\ job[s] \in Job \cup {Idle}
  BY <1>0 DEF SerialInv, IInv, TypeOK, TablesInv
<1>2. CASE CommitDiscover(s)
  BY <1>0, <1>1, <1>2, JobShape, InsertSerial DEF CommitDiscover, SerialInv, ReadsHold
<1>3. CASE CommitConfirm(s)
  BY <1>0, <1>1, <1>3, JobShape, ConfirmSerial
  DEF CommitConfirm, SerialInv, ReadsHold, Linked
<1>4. CASE CommitReject(s)
  BY <1>0, <1>1, <1>4, JobShape, RejectSerial
  DEF CommitReject, SerialInv, ReadsHold, Linked
<1>5. CASE CommitCreateNew(s)
  BY <1>0, <1>1, <1>5, JobShape, CreateNewSerial DEF CommitCreateNew
<1>6. CASE CommitMerge(s)
  BY <1>0, <1>1, <1>6, JobShape, MergeSerial DEF CommitMerge, SerialInv, ReadsHold
<1> QED
  BY <1>2, <1>3, <1>4, <1>5, <1>6

LEMMA SerialInit == Init => SerialInv
<1> SUFFICES ASSUME Init PROVE SerialInv
  OBVIOUS
<1>1. ReadsHold
  BY IdleOp DEF Init, ReadsHold
<1>2. LinksHaveCanonical /\ AnnouncedIsCurrent
  BY DEF Init, TablesInit, LinksHaveCanonical, AnnouncedIsCurrent, Linked, NoLink
<1> QED
  BY <1>1, <1>2, InitHolds DEF SerialInv

LEMMA SerialStep ==
    ASSUME NEW s, Requests = {s}, SerialInv, [Next]_matchingVars
    PROVE  SerialInv' /\ ConfirmedStays
<1>0. IInv'
  BY StepHolds DEF SerialInv
<1>1. ASSUME UNCHANGED tables, ReadsHold'
      PROVE  SerialInv' /\ ConfirmedStays
  BY <1>0, <1>1
  DEF SerialInv, LinksHaveCanonical, AnnouncedIsCurrent, ConfirmedStays, Linked, Exists
<1>2. CASE UNCHANGED matchingVars
  <2>1. UNCHANGED tables /\ UNCHANGED job
    BY <1>2 DEF matchingVars
  <2>2. ReadsHold'
    BY <2>1
    DEF SerialInv, ReadsHold, Linked, Candidates, Carriers, Exists, LinksOf, Announced
  <2> QED
    BY <1>1, <2>1, <2>2
<1>3. CASE Next
  <2>1. \/ \E p \in Products :
              \/ BeginConfirm(s, p)
              \/ BeginReject(s, p)
              \/ \E g \in Gtins \cup {NoGtin} : BeginDiscover(s, p, g) \/ BeginCreateNew(s, p, g)
        \/ \E c, d \in Canonicals : BeginMerge(s, c, d)
        \/ ReadLinks(s)
        \/ CommitDiscover(s) \/ CommitConfirm(s) \/ CommitReject(s)
        \/ CommitCreateNew(s) \/ CommitMerge(s)
        \/ Rollback(s)
    BY <1>3 DEF Next
  <2>2. CASE \/ \E p \in Products :
                  \/ BeginConfirm(s, p)
                  \/ BeginReject(s, p)
                  \/ \E g \in Gtins \cup {NoGtin} :
                        BeginDiscover(s, p, g) \/ BeginCreateNew(s, p, g)
             \/ \E c, d \in Canonicals : BeginMerge(s, c, d)
    BY <1>1, <2>2, SerialBegin
  <2>3. CASE ReadLinks(s)
    BY <1>1, <2>3, SerialReadLinks
  <2>4. CASE \/ CommitDiscover(s) \/ CommitConfirm(s) \/ CommitReject(s)
             \/ CommitCreateNew(s) \/ CommitMerge(s)
    BY <1>0, <2>4, SerialCommit, SerialEnd DEF SerialInv
  <2>5. CASE Rollback(s)
    BY <1>1, <2>5, SerialEnd DEF Rollback
  <2> QED
    BY <2>1, <2>2, <2>3, <2>4, <2>5
<1> QED
  BY <1>2, <1>3

\* One open request at a time: the service keeps SerialInv.
THEOREM SerialInvariantHolds ==
    ASSUME NEW s, Requests = {s}
    PROVE  Spec => []SerialInv
<1>1. Init => SerialInv
  BY SerialInit
<1>2. SerialInv /\ [Next]_matchingVars => SerialInv'
  BY SerialStep
<1> QED
  BY <1>1, <1>2, PTL DEF Spec

\* A merge, alone, leaves no link on the canonical it deletes (routes.py: "every
\* supplier-product link on the source is repointed to the target").
THEOREM NoLinkDangles ==
    ASSUME NEW s, Requests = {s}
    PROVE  Spec => []LinksHaveCanonical
<1>1. SerialInv => LinksHaveCanonical
  BY DEF SerialInv
<1> QED
  BY <1>1, SerialInvariantHolds, PTL

\* The last event of a linked product names its canonical (routes.py: re-emitted
\* "so the catalog rebuilds against the target").
THEOREM LastEventIsRight ==
    ASSUME NEW s, Requests = {s}
    PROVE  Spec => []AnnouncedIsCurrent
<1>1. SerialInv => AnnouncedIsCurrent
  BY DEF SerialInv
<1> QED
  BY <1>1, SerialInvariantHolds, PTL

\* A confirmed link stays confirmed (curation.py: "A confirmed link cannot be
\* rejected").
THEOREM ConfirmedStaysConfirmed ==
    ASSUME NEW s, Requests = {s}
    PROVE  Spec => ConfirmedIsFinal
<1>1. SerialInv /\ [Next]_matchingVars =>
          [\A p \in Products :
              links[p].status = "confirmed" => links'[p].status = "confirmed"]_matchingVars
  BY SerialStep DEF ConfirmedStays
<1> QED
  BY <1>1, SerialInvariantHolds, PTL DEF Spec, ConfirmedIsFinal

-----------------------------------------------------------------------------
(* The service implements Curation.                                         *)

\* A link by GTIN names a carrier of it or a new canonical, a suggestion one
\* that exists or a new one: what Curation lets a discovery do.
LEMMA DiscoverIsAtomic ==
    ASSUME NEW p \in Products, NEW gtin \in Gtins \cup {NoGtin},
           NEW candidate \in Candidates(gtin), InsertLink(p, gtin, candidate)
    PROVE  Atomic!Discover(p, gtin)
<1>1. Atomic!InsertLink(p, gtin, candidate)
  BY DEF InsertLink, Atomic!InsertLink, Linked, Atomic!Linked, NoCanonical, Atomic!NoCanonical,
         Canonicals, Atomic!Canonicals, CreateCanonical, Atomic!CreateCanonical,
         GtinFree, Atomic!GtinFree, Carriers, Atomic!Carriers, Exists, Atomic!Exists,
         IsFresh, Atomic!IsFresh, Announce, Atomic!Announce
<1>2. CASE candidate = NoCanonical
  BY <1>1, <1>2 DEF Atomic!Discover, NoCanonical, Atomic!NoCanonical
<1>3. CASE candidate # NoCanonical
  BY <1>1, <1>3
  DEF Atomic!Discover, Candidates, Carriers, Atomic!Carriers, Exists, Atomic!Exists,
      Canonicals, Atomic!Canonicals
<1> QED
  BY <1>2, <1>3

\* A commit takes its decision on what is: it is a step of Curation.
LEMMA CommitIsAtomic ==
    ASSUME NEW s, Requests = {s}, SerialInv,
           \/ CommitDiscover(s) \/ CommitConfirm(s) \/ CommitReject(s)
           \/ CommitCreateNew(s) \/ CommitMerge(s)
    PROVE  Atomic!Next
<1>0. /\ s \in Requests
      /\ job[s] \in Job \cup {Idle}
  BY DEF SerialInv, IInv, TypeOK
<1> DEFINE p == job[s].product
<1>1. CASE CommitDiscover(s)
  <2>1. Atomic!Discover(p, job[s].gtin)
    BY <1>0, <1>1, JobShape, DiscoverIsAtomic DEF CommitDiscover, SerialInv, ReadsHold
  <2> QED
    BY <1>0, <1>1, <2>1, JobShape DEF CommitDiscover, Atomic!Next
<1>2. CASE CommitConfirm(s)
  <2>1. Atomic!Confirm(p)
    BY <1>0, <1>2
    DEF CommitConfirm, SerialInv, ReadsHold, Atomic!Confirm, WriteConfirm, Atomic!WriteConfirm,
        RecordDecision, Atomic!RecordDecision, Announce, Atomic!Announce
  <2> QED
    BY <1>0, <1>2, <2>1, JobShape DEF CommitConfirm, Atomic!Next
<1>3. CASE CommitReject(s)
  <2>1. Atomic!Reject(p)
    BY <1>0, <1>3
    DEF CommitReject, SerialInv, ReadsHold, Atomic!Reject, WriteReject, Atomic!WriteReject,
        RecordDecision, Atomic!RecordDecision
  <2> QED
    BY <1>0, <1>3, <2>1, JobShape DEF CommitReject, Atomic!Next
<1>4. CASE CommitCreateNew(s)
  <2>1. Atomic!WriteCreateNew(p, job[s].gtin)
    BY <1>4
    DEF CommitCreateNew, WriteCreateNew, Atomic!WriteCreateNew, Canonicals, Atomic!Canonicals,
        CreateCanonical, Atomic!CreateCanonical, GtinFree, Atomic!GtinFree,
        Carriers, Atomic!Carriers, Exists, Atomic!Exists, IsFresh, Atomic!IsFresh,
        RecordDecision, Atomic!RecordDecision, Announce, Atomic!Announce
  <2>2. Atomic!CreateNew(p, job[s].gtin)
    BY <1>0, <1>4, <2>1
    DEF CommitCreateNew, SerialInv, ReadsHold, Linked, Atomic!CreateNew, Atomic!Linked
  <2> QED
    BY <1>0, <1>4, <2>2, JobShape DEF CommitCreateNew, Atomic!Next
<1>5. CASE CommitMerge(s)
  <2>1. /\ job[s].target # job[s].source
        /\ Exists(job[s].target)
        /\ Exists(job[s].source)
        /\ WriteMerge(job[s].target, job[s].source,
                      LinksOf(job[s].source), Announced(LinksOf(job[s].source)))
    BY <1>0, <1>5 DEF CommitMerge, SerialInv, ReadsHold
  <2>2. Atomic!Merge(job[s].target, job[s].source)
    BY <2>1
    DEF Atomic!Merge, Exists, Atomic!Exists, WriteMerge, Atomic!WriteMerge,
        LinksOf, Atomic!LinksOf, Linked, Atomic!Linked, Announced, Atomic!Announced
  <2> QED
    BY <1>0, <1>5, <2>2, JobShape DEF CommitMerge, Atomic!Next, Canonicals, Atomic!Canonicals
<1> QED
  BY <1>1, <1>2, <1>3, <1>4, <1>5

LEMMA StepIsAtomic ==
    ASSUME NEW s, Requests = {s}, SerialInv, [Next]_matchingVars
    PROVE  [Atomic!Next]_(Atomic!tables)
<1>0. s \in Requests /\ \A r \in Requests : r = s
  OBVIOUS
<1>1. ASSUME UNCHANGED tables PROVE UNCHANGED Atomic!tables
  BY <1>1 DEF Atomic!tables
<1>2. CASE UNCHANGED matchingVars
  BY <1>1, <1>2 DEF matchingVars
<1>3. CASE /\ Next
           /\ \/ \E p \in Products :
                    \/ BeginConfirm(s, p)
                    \/ BeginReject(s, p)
                    \/ \E g \in Gtins \cup {NoGtin} :
                          BeginDiscover(s, p, g) \/ BeginCreateNew(s, p, g)
              \/ \E c, d \in Canonicals : BeginMerge(s, c, d)
  BY <1>1, <1>3, SerialBegin
<1>4. CASE ReadLinks(s) \/ Rollback(s)
  BY <1>1, <1>4 DEF ReadLinks, Rollback
<1>5. CASE \/ CommitDiscover(s) \/ CommitConfirm(s) \/ CommitReject(s)
           \/ CommitCreateNew(s) \/ CommitMerge(s)
  BY <1>5, CommitIsAtomic
<1> QED
  BY <1>0, <1>2, <1>3, <1>4, <1>5 DEF Next

\* One open request at a time: every behaviour of the service is one in which each
\* decision is read and written at one instant.
THEOREM SerialImplementsCuration ==
    ASSUME NEW s, Requests = {s}
    PROVE  Spec => DecidesAtomically
<1>1. Init => Atomic!Init
  BY DEF Init, Atomic!Init, TablesInit, Atomic!TablesInit, NoLink, Atomic!NoLink,
         NoCanonical, Atomic!NoCanonical, Canonicals, Atomic!Canonicals
<1>2. SerialInv /\ [Next]_matchingVars => [Atomic!Next]_(Atomic!tables)
  BY StepIsAtomic
<1> QED
  BY <1>1, <1>2, SerialInvariantHolds, PTL DEF Spec, DecidesAtomically, Atomic!Spec
=============================================================================
