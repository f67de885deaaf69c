---------------------------- MODULE CatalogProofs ----------------------------
(***************************************************************************)
(* Proofs about CatalogFlow, for any products, canonicals, GTINs and       *)
(* bounds: its types, that the search index follows the catalog, that the  *)
(* catalog follows matching as long as nothing is dead-lettered, and that  *)
(* no member is missing when products come before their links.  IInv is    *)
(* what the last three have in common; each adds a part of its own.        *)
(***************************************************************************)
EXTENDS CatalogFlow, TLAPS

-----------------------------------------------------------------------------
(* The parts of the inductive invariant.                                    *)

\* Matching, by itself: a link that waits has announced nothing, and the last
\* announcement of any other names its canonical.
AnnouncedInv ==
    \A p \in Products :
        /\ links[p].status \in {"none", "pending_review"} => emitted[p] = <<>>
        /\ links[p].status \in {"auto", "confirmed"} =>
              emitted[p] # <<>> /\ emitted[p][Len(emitted[p])] = links[p].canonical

\* Offsets and parked events are positions on the topic, and the event at hand is the
\* one the transaction was begun with.
PositionInv ==
    /\ \A p \in Products : linkOffset[p] <= Len(emitted[p])
    /\ \A e \in parked : e[2] <= Len(emitted[e[1]])
    /\ handling # NotHandling =>
          /\ taken \in Products \X (Nat \ {0})
          /\ taken[2] <= Len(emitted[taken[1]])
          /\ handling.product = taken[1]
          /\ handling.canonical = emitted[taken[1]][taken[2]]

IInv ==
    /\ FlowTypeOK
    /\ AnnouncedInv
    /\ PositionInv

\* The document is the last update that was indexed, the card the last announced.
IndexInv ==
    \A c \in CanonicalIds :
        /\ indexOffset[c] <= Len(updates[c])
        /\ canonicalDocs[c] = IF indexOffset[c] = 0 THEN NoCard ELSE updates[c][indexOffset[c]]
        /\ cards[c] = IF updates[c] = <<>> THEN NoCard ELSE updates[c][Len(updates[c])]

\* With fewer failures than attempts nothing is parked, and the mapping is the last
\* event the catalog is past.
FollowInv ==
    /\ parked = {}
    /\ faults < Attempts
    /\ \A p \in Products :
          productLinks[p] = IF linkOffset[p] = 0 THEN NoCanonicalId ELSE emitted[p][linkOffset[p]]
    /\ handling # NotHandling => taken[2] = linkOffset[taken[1]] + 1

\* A card that is being rebuilt has every ingested product that will be linked to its
\* canonical, the one at hand among them.
Building ==
    handling # NotHandling =>
       /\ handling.product \in products
       /\ \/ handling.product \in handling.built[handling.canonical]
          \/ handling.todo # <<>> /\ Head(handling.todo) = handling.canonical
       /\ \A d \in CanonicalIds : handling.built[d] # NoCard =>
             \A q \in Products :
                 (IF q = handling.product THEN handling.canonical ELSE productLinks[q]) = d
                     => q \in handling.built[d]

\* The products of handled and parked links are ingested.
MemberInv ==
    /\ \A p \in Products : productLinks[p] # NoCanonicalId =>
          p \in products /\ p \in cards[productLinks[p]]
    /\ \A e \in parked : e[1] \in products
    /\ Building

-----------------------------------------------------------------------------
(* What a decision of matching does to the events of a product.             *)

LEMMA Constants ==
    /\ CanonicalIds = Decisions!Canonicals
    /\ NoCanonicalId = Decisions!NoCanonical
    /\ NoCanonicalId \notin CanonicalIds
BY FlowAssumption, CatalogAssumption DEF Decisions!Canonicals, Decisions!NoCanonical

\* q's link and events after a decision: as they were; announced with the canonical
\* linked; waiting and quiet; or rejected.
Moves(q) ==
    \/ links'[q] = links[q] /\ emitted'[q] = emitted[q]
    \/ /\ links'[q].status \in {"auto", "confirmed"}
       /\ emitted'[q] = Append(emitted[q], links'[q].canonical)
    \/ links'[q].status = "pending_review" /\ emitted[q] = <<>> /\ emitted'[q] = <<>>
    \/ links'[q].status = "rejected" /\ emitted'[q] = emitted[q]

\* What every decision keeps.
Decided ==
    /\ Decisions!TablesTypeOK'
    /\ \A q \in Products : Moves(q)

LEMMA LinkedRow ==
    ASSUME Decisions!TablesTypeOK, NEW p \in Products, links[p].status # "none"
    PROVE  /\ links[p] \in Decisions!Link
           /\ links[p].canonical \in CanonicalIds
           /\ links[p].status \in {"auto", "pending_review", "confirmed", "rejected"}
BY Constants
DEF Decisions!TablesTypeOK, Decisions!Link, Decisions!NoLink, Decisions!LinkStatus

LEMMA RecordTyped ==
    ASSUME Decisions!TablesTypeOK, NEW p \in Products, NEW c \in CanonicalIds,
           NEW action \in {"confirm", "reject", "create_new"},
           Decisions!RecordDecision(action, p, c)
    PROVE  log' \in SUBSET Decisions!Decision
<1> DEFINE d == [action |-> action, product |-> p, canonical |-> c]
<1>1. d \in Decisions!Decision
  BY Constants DEF Decisions!Decision
<1>2. log' = log \cup {d}
  BY DEF Decisions!RecordDecision
<1> QED
  BY <1>1, <1>2 DEF Decisions!TablesTypeOK

LEMMA CreateTyped ==
    ASSUME Decisions!TablesTypeOK, NEW c \in CanonicalIds,
           NEW status \in {"draft", "confirmed"}, NEW gtin \in Gtins \cup {NoGtin},
           Decisions!CreateCanonical(c, status, gtin)
    PROVE  canon' \in [Decisions!Canonicals -> Decisions!CanonicalRow]
BY Constants
DEF Decisions!CreateCanonical, Decisions!TablesTypeOK, Decisions!CanonicalRow

LEMMA AnnounceTyped ==
    ASSUME Decisions!TablesTypeOK, NEW p \in Products, NEW c \in CanonicalIds,
           Decisions!Announce(p, c)
    PROVE  /\ emitted' \in [Products -> Seq(Decisions!Canonicals)]
           /\ emitted'[p] = Append(emitted[p], c)
           /\ \A q \in Products : q # p => emitted'[q] = emitted[q]
BY Constants DEF Decisions!Announce, Decisions!TablesTypeOK

LEMMA InsertDecided ==
    ASSUME Decisions!TablesTypeOK, AnnouncedInv, NEW p \in Products,
           NEW gtin \in Gtins \cup {NoGtin}, NEW candidate,
           Decisions!InsertLink(p, gtin, candidate)
    PROVE  Decided
<1>1. PICK c \in CanonicalIds :
          /\ IF candidate = Decisions!NoCanonical
             THEN Decisions!CreateCanonical(c, IF gtin = NoGtin THEN "draft" ELSE "confirmed", gtin)
             ELSE c = candidate /\ UNCHANGED canon
          /\ links' = [links EXCEPT ![p] =
                [canonical |-> c, status |-> IF gtin = NoGtin THEN "pending_review" ELSE "auto"]]
          /\ IF gtin = NoGtin THEN UNCHANGED emitted ELSE Decisions!Announce(p, c)
  BY Constants DEF Decisions!InsertLink
<1>2. log' = log /\ links[p].status = "none"
  BY DEF Decisions!InsertLink, Decisions!Linked
<1>3. canon' \in [Decisions!Canonicals -> Decisions!CanonicalRow]
  BY <1>1, CreateTyped DEF Decisions!TablesTypeOK
<1>4. /\ links' \in [Products -> Decisions!Link \cup {Decisions!NoLink}]
      /\ links'[p].canonical = c
      /\ links'[p].status = (IF gtin = NoGtin THEN "pending_review" ELSE "auto")
      /\ \A q \in Products : q # p => links'[q] = links[q]
  BY <1>1, Constants DEF Decisions!TablesTypeOK, Decisions!Link, Decisions!LinkStatus
<1>5. emitted' \in [Products -> Seq(Decisions!Canonicals)]
  BY <1>1, AnnounceTyped DEF Decisions!TablesTypeOK
<1>6. ASSUME NEW q \in Products PROVE Moves(q)
  <2>1. CASE gtin = NoGtin
    BY <1>1, <1>2, <1>4, <2>1 DEF Moves, AnnouncedInv
  <2>2. CASE gtin # NoGtin
    BY <1>1, <1>4, <2>2, AnnounceTyped DEF Moves
  <2> QED
    BY <2>1, <2>2
<1> QED
  BY <1>2, <1>3, <1>4, <1>5, <1>6 DEF Decided, Decisions!TablesTypeOK

LEMMA ConfirmDecided ==
    ASSUME Decisions!TablesTypeOK, NEW p \in Products, Decisions!Confirm(p)
    PROVE  Decided
<1> DEFINE c == links[p].canonical
<1>1. links[p] \in Decisions!Link /\ c \in CanonicalIds
  BY LinkedRow DEF Decisions!Confirm
<1>2. /\ links' = [links EXCEPT ![p].status = "confirmed"]
      /\ canon' = IF canon[c].status = "draft"
                  THEN [canon EXCEPT ![c].status = "confirmed"] ELSE canon
      /\ Decisions!RecordDecision("confirm", p, c)
      /\ Decisions!Announce(p, c)
  BY DEF Decisions!Confirm, Decisions!WriteConfirm
<1>3. /\ links' \in [Products -> Decisions!Link \cup {Decisions!NoLink}]
      /\ links'[p].canonical = c
      /\ links'[p].status = "confirmed"
      /\ \A q \in Products : q # p => links'[q] = links[q]
  BY <1>1, <1>2 DEF Decisions!TablesTypeOK, Decisions!Link, Decisions!LinkStatus
<1>4. canon' \in [Decisions!Canonicals -> Decisions!CanonicalRow]
  <2>1. canon[c] \in Decisions!CanonicalRow
    BY <1>1, Constants DEF Decisions!TablesTypeOK
  <2>2. [canon[c] EXCEPT !.status = "confirmed"] \in Decisions!CanonicalRow
    BY <2>1 DEF Decisions!CanonicalRow
  <2> QED
    BY <1>2, <2>2 DEF Decisions!TablesTypeOK
<1>5. log' \in SUBSET Decisions!Decision
  BY <1>1, <1>2, RecordTyped
<1>6. \A q \in Products : Moves(q)
  BY <1>1, <1>2, <1>3, AnnounceTyped DEF Moves
<1> QED
  BY <1>1, <1>2, <1>3, <1>4, <1>5, <1>6, AnnounceTyped DEF Decided, Decisions!TablesTypeOK

LEMMA RejectDecided ==
    ASSUME Decisions!TablesTypeOK, NEW p \in Products, Decisions!Reject(p)
    PROVE  Decided
<1> DEFINE c == links[p].canonical
<1>1. links[p] \in Decisions!Link /\ c \in CanonicalIds
  BY LinkedRow DEF Decisions!Reject
<1>2. /\ links' = [links EXCEPT ![p].status = "rejected"]
      /\ canon' = canon /\ emitted' = emitted
      /\ Decisions!RecordDecision("reject", p, c)
  BY DEF Decisions!Reject, Decisions!WriteReject
<1>3. /\ links' \in [Products -> Decisions!Link \cup {Decisions!NoLink}]
      /\ links'[p].status = "rejected"
      /\ \A q \in Products : q # p => links'[q] = links[q]
  BY <1>1, <1>2 DEF Decisions!TablesTypeOK, Decisions!Link, Decisions!LinkStatus
<1>4. log' \in SUBSET Decisions!Decision
  BY <1>1, <1>2, RecordTyped
<1> QED
  BY <1>2, <1>3, <1>4 DEF Decided, Moves, Decisions!TablesTypeOK

LEMMA CreateNewDecided ==
    ASSUME Decisions!TablesTypeOK, NEW p \in Products, NEW gtin \in Gtins \cup {NoGtin},
           Decisions!CreateNew(p, gtin)
    PROVE  Decided
<1>1. PICK c \in CanonicalIds :
          /\ Decisions!CreateCanonical(c, "confirmed", gtin)
          /\ links' = [links EXCEPT ![p] = [canonical |-> c, status |-> "confirmed"]]
          /\ Decisions!RecordDecision("create_new", p, c)
          /\ Decisions!Announce(p, c)
  BY Constants DEF Decisions!CreateNew, Decisions!WriteCreateNew
<1>2. /\ links' \in [Products -> Decisions!Link \cup {Decisions!NoLink}]
      /\ links'[p].canonical = c
      /\ links'[p].status = "confirmed"
      /\ \A q \in Products : q # p => links'[q] = links[q]
  BY <1>1, Constants DEF Decisions!TablesTypeOK, Decisions!Link, Decisions!LinkStatus
<1>3. canon' \in [Decisions!Canonicals -> Decisions!CanonicalRow]
  BY <1>1, CreateTyped
<1>4. log' \in SUBSET Decisions!Decision
  BY <1>1, RecordTyped
<1>5. \A q \in Products : Moves(q)
  BY <1>1, <1>2, AnnounceTyped DEF Moves
<1> QED
  BY <1>1, <1>2, <1>3, <1>4, <1>5, AnnounceTyped DEF Decided, Decisions!TablesTypeOK

LEMMA MergeDecided ==
    ASSUME Decisions!TablesTypeOK, AnnouncedInv,
           NEW target \in CanonicalIds, NEW source \in CanonicalIds,
           Decisions!Merge(target, source)
    PROVE  Decided
<1> DEFINE moved == Decisions!LinksOf(source)
<1>1. \A p \in moved : p \in Products /\ links[p] \in Decisions!Link
  BY LinkedRow DEF Decisions!LinksOf, Decisions!Linked
<1>2. /\ links' = [p \in Products |->
            IF p \in moved THEN [links[p] EXCEPT !.canonical = target] ELSE links[p]]
      /\ emitted' = [p \in Products |->
            IF p \in Decisions!Announced(moved) THEN Append(emitted[p], target) ELSE emitted[p]]
      /\ canon' = [canon EXCEPT ![source].status = "gone"]
      /\ log' = log \cup {[action |-> "merge", canonical |-> target]}
  BY DEF Decisions!Merge, Decisions!WriteMerge
<1>3. /\ links' \in [Products -> Decisions!Link \cup {Decisions!NoLink}]
      /\ \A p \in moved : links'[p].canonical = target /\ links'[p].status = links[p].status
      /\ \A p \in Products : p \notin moved => links'[p] = links[p]
  BY <1>1, <1>2, Constants DEF Decisions!TablesTypeOK, Decisions!Link
<1>4. canon' \in [Decisions!Canonicals -> Decisions!CanonicalRow]
  <2>1. canon[source] \in Decisions!CanonicalRow
    BY Constants DEF Decisions!TablesTypeOK
  <2>2. [canon[source] EXCEPT !.status = "gone"] \in Decisions!CanonicalRow
    BY <2>1 DEF Decisions!CanonicalRow
  <2> QED
    BY <1>2, <2>2 DEF Decisions!TablesTypeOK
<1>5. log' \in SUBSET Decisions!Decision
  <2>1. [action |-> "merge", canonical |-> target] \in Decisions!Decision
    BY Constants DEF Decisions!Decision
  <2> QED
    BY <1>2, <2>1 DEF Decisions!TablesTypeOK
<1>6. emitted' \in [Products -> Seq(Decisions!Canonicals)]
  BY <1>2, Constants DEF Decisions!TablesTypeOK
<1>7. ASSUME NEW p \in Products PROVE Moves(p)
  <2>1. CASE p \notin moved
    BY <1>2, <1>3, <2>1 DEF Moves, Decisions!Announced
  <2>2. CASE p \in moved /\ links[p].status \in {"auto", "confirmed"}
    BY <1>2, <1>3, <2>2 DEF Moves, Decisions!Announced
  <2>3. CASE p \in moved /\ links[p].status \notin {"auto", "confirmed"}
    <3>1. emitted'[p] = emitted[p] /\ links'[p].status = links[p].status
      BY <1>2, <1>3, <2>3 DEF Decisions!Announced
    <3>2. links[p].status \in {"pending_review", "rejected"}
      BY <2>3, LinkedRow DEF Decisions!LinksOf, Decisions!Linked
    <3> QED
      BY <3>1, <3>2 DEF Moves, AnnouncedInv
  <2> QED
    BY <2>1, <2>2, <2>3
<1> QED
  BY <1>3, <1>4, <1>5, <1>6, <1>7 DEF Decided, Decisions!TablesTypeOK

LEMMA DecideDecided ==
    ASSUME Decisions!TablesTypeOK, AnnouncedInv, Decide
    PROVE  Decided
<1>1. CASE \E p \in Products : Decisions!Confirm(p) \/ Decisions!Reject(p)
  BY <1>1, ConfirmDecided, RejectDecided
<1>2. CASE \E p \in Products, g \in Gtins \cup {NoGtin} : Decisions!Discover(p, g)
  BY <1>2, InsertDecided DEF Decisions!Discover
<1>3. CASE \E p \in Products, g \in Gtins \cup {NoGtin} : Decisions!CreateNew(p, g)
  BY <1>3, CreateNewDecided
<1>4. CASE \E c, d \in CanonicalIds : Decisions!Merge(c, d)
  BY <1>4, MergeDecided
<1> QED
  BY <1>1, <1>2, <1>3, <1>4 DEF Decide

\* Events are only ever appended, and what is announced stays right.
LEMMA DecidedKeeps ==
    ASSUME Decisions!TablesTypeOK, AnnouncedInv, Decided
    PROVE  /\ AnnouncedInv'
           /\ \A p \in Products :
                 /\ Len(emitted[p]) <= Len(emitted'[p])
                 /\ \A i \in 1..Len(emitted[p]) : emitted'[p][i] = emitted[p][i]
<1> SUFFICES ASSUME NEW p \in Products
             PROVE  /\ links'[p].status \in {"none", "pending_review"} => emitted'[p] = <<>>
                    /\ links'[p].status \in {"auto", "confirmed"} =>
                          emitted'[p] # <<>> /\ emitted'[p][Len(emitted'[p])] = links'[p].canonical
                    /\ Len(emitted[p]) <= Len(emitted'[p])
                    /\ \A i \in 1..Len(emitted[p]) : emitted'[p][i] = emitted[p][i]
  BY DEF AnnouncedInv
<1>1. emitted[p] \in Seq(CanonicalIds) /\ emitted'[p] \in Seq(CanonicalIds)
  BY Constants DEF Decided, Decisions!TablesTypeOK
<1>2. Moves(p)
  BY DEF Decided
<1>3. CASE links'[p] = links[p] /\ emitted'[p] = emitted[p]
  BY <1>1, <1>3 DEF AnnouncedInv
<1>4. CASE /\ links'[p].status \in {"auto", "confirmed"}
           /\ emitted'[p] = Append(emitted[p], links'[p].canonical)
  <2>1. Len(emitted'[p]) = Len(emitted[p]) + 1
    BY <1>1, <1>4
  <2> QED
    BY <1>1, <1>4, <2>1
<1>5. CASE links'[p].status = "pending_review" /\ emitted[p] = <<>> /\ emitted'[p] = <<>>
  BY <1>1, <1>5
<1>6. CASE links'[p].status = "rejected" /\ emitted'[p] = emitted[p]
  BY <1>1, <1>6
<1> QED
  BY <1>2, <1>3, <1>4, <1>5, <1>6 DEF Moves

-----------------------------------------------------------------------------
(* What the link handler's steps do to the transaction.                     *)

\* What a card is built from is one.
LEMMA MergedIsCard ==
    ASSUME CatalogTypeOK, NEW c, NEW l
    PROVE  Merged(c, l) \in Cards
BY DEF Merged, Cards, CatalogTypeOK

LEMMA NoCardIsCard == NoCard \in Cards
BY DEF NoCard, Cards

\* The canonical whose card is rebuilt next, and the mapping as the handler sees it.
Rebuilt == Head(handling.todo)

Flushed == [productLinks EXCEPT ![handling.product] = handling.canonical]

LEMMA RebuildEffect ==
    ASSUME CatalogTypeOK, RebuildCard
    PROVE  /\ handling' \in Handling
           /\ Rebuilt \in CanonicalIds
           /\ handling'.product = handling.product
           /\ handling'.canonical = handling.canonical
           /\ handling'.todo = Tail(handling.todo)
           /\ handling'.built[Rebuilt] = Merged(Rebuilt, Flushed)
           /\ \A d \in CanonicalIds : d # Rebuilt => handling'.built[d] = handling.built[d]
<1>1. handling \in Handling /\ handling.todo # <<>>
  BY DEF RebuildCard, CatalogTypeOK
<1>2. /\ handling.todo \in Seq(CanonicalIds)
      /\ handling.built \in [CanonicalIds -> Cards]
      /\ handling.product \in Products /\ handling.canonical \in CanonicalIds
  BY <1>1 DEF Handling
<1>3. Rebuilt \in CanonicalIds /\ Tail(handling.todo) \in Seq(CanonicalIds)
  BY <1>1, <1>2 DEF Rebuilt
<1>4. Merged(Rebuilt, Flushed) \in Cards
  BY MergedIsCard
<1> DEFINE built == [handling.built EXCEPT ![Rebuilt] = Merged(Rebuilt, Flushed)]
<1>5. /\ built \in [CanonicalIds -> Cards]
      /\ built[Rebuilt] = Merged(Rebuilt, Flushed)
      /\ \A d \in CanonicalIds : d # Rebuilt => built[d] = handling.built[d]
  BY <1>2, <1>3, <1>4
<1>6. handling' = [handling EXCEPT !.todo = Tail(handling.todo), !.built = built]
  BY DEF RebuildCard, Rebuilt, Flushed
<1> HIDE DEF built
<1>7. handling' = [product |-> handling.product, canonical |-> handling.canonical,
                   todo |-> Tail(handling.todo), built |-> built]
  BY <1>1, <1>6 DEF Handling
<1>8. handling' \in Handling
  BY <1>2, <1>3, <1>5, <1>7 DEF Handling
<1> QED
  BY <1>3, <1>5, <1>7, <1>8

LEMMA BeginEffect ==
    ASSUME CatalogTypeOK, NEW p \in Products, NEW c \in CanonicalIds,
           NEW previous \in CanonicalIds \cup {NoCanonicalId}, SetCanonicalLink(p, c, previous)
    PROVE  /\ handling' \in Handling
           /\ handling'.product = p
           /\ handling'.canonical = c
           /\ handling'.todo # <<>> /\ Head(handling'.todo) = c
           /\ \A d \in CanonicalIds : handling'.built[d] = NoCard
<1> DEFINE todo == <<c>> \o IF previous = NoCanonicalId THEN <<>> ELSE <<previous>>
           built == [d \in CanonicalIds |-> NoCard]
<1>1. todo \in Seq(CanonicalIds) /\ todo # <<>> /\ Head(todo) = c
  <2>1. CASE previous = NoCanonicalId
    <3>1. todo = <<c>> \o <<>>
      BY <2>1
    <3> HIDE DEF todo
    <3> QED
      BY <3>1
  <2>2. CASE previous # NoCanonicalId
    <3>1. todo = <<c>> \o <<previous>> /\ previous \in CanonicalIds
      BY <2>2
    <3> HIDE DEF todo
    <3> QED
      BY <3>1
  <2> QED
    BY <2>1, <2>2
<1>2. built \in [CanonicalIds -> Cards]
  BY NoCardIsCard
<1>3. handling' = [product |-> p, canonical |-> c, todo |-> todo, built |-> built]
  BY DEF SetCanonicalLink
<1> HIDE DEF todo
<1> QED
  BY <1>1, <1>2, <1>3 DEF Handling

\* The event a handled link event is about.
LEMMA HandleEffect ==
    ASSUME FlowTypeOK, NEW p \in Products, NEW i \in Nat \ {0}, i <= Len(emitted[p]), Handle(p, i)
    PROVE  /\ emitted[p][i] \in CanonicalIds
           /\ handling' \in Handling
           /\ handling'.product = p
           /\ handling'.canonical = emitted[p][i]
           /\ handling'.todo # <<>> /\ Head(handling'.todo) = emitted[p][i]
           /\ \A d \in CanonicalIds : handling'.built[d] = NoCard
<1>1. emitted[p] \in Seq(CanonicalIds)
  BY Constants DEF FlowTypeOK, Decisions!TablesTypeOK
<1>2. emitted[p][i] \in CanonicalIds
  BY <1>1
<1> QED
  BY <1>2, BeginEffect DEF Handle, FlowTypeOK

LEMMA CommitEffect ==
    ASSUME CatalogTypeOK, CommitLink
    PROVE  /\ handling \in Handling
           /\ productLinks' \in [Products -> CanonicalIds \cup {NoCanonicalId}]
           /\ cards' \in [CanonicalIds -> Cards]
           /\ updates' \in [CanonicalIds -> Seq(Cards \ {NoCard})]
           /\ productLinks'[handling.product] = handling.canonical
           /\ \A q \in Products : q # handling.product => productLinks'[q] = productLinks[q]
           /\ \A c \in CanonicalIds :
                 \/ /\ handling.built[c] # NoCard
                    /\ cards'[c] = handling.built[c]
                    /\ updates'[c] = Append(updates[c], handling.built[c])
                 \/ handling.built[c] = NoCard /\ cards'[c] = cards[c] /\ updates'[c] = updates[c]
<1>1. handling \in Handling
  BY DEF CommitLink, CatalogTypeOK
<1>2. /\ handling.built \in [CanonicalIds -> Cards]
      /\ handling.product \in Products /\ handling.canonical \in CanonicalIds
  BY <1>1 DEF Handling
<1>3. /\ productLinks' = [productLinks EXCEPT ![handling.product] = handling.canonical]
      /\ cards' = [c \in CanonicalIds |->
            IF handling.built[c] # NoCard THEN handling.built[c] ELSE cards[c]]
      /\ updates' = [c \in CanonicalIds |->
            IF handling.built[c] # NoCard THEN Append(updates[c], handling.built[c]) ELSE updates[c]]
  BY DEF CommitLink
<1>4. /\ productLinks' \in [Products -> CanonicalIds \cup {NoCanonicalId}]
      /\ productLinks'[handling.product] = handling.canonical
      /\ \A q \in Products : q # handling.product => productLinks'[q] = productLinks[q]
  BY <1>2, <1>3 DEF CatalogTypeOK
<1>5. cards' \in [CanonicalIds -> Cards]
  BY <1>2, <1>3 DEF CatalogTypeOK
<1>6. ASSUME NEW c \in CanonicalIds
      PROVE  updates'[c] \in Seq(Cards \ {NoCard})
  BY <1>2, <1>3 DEF CatalogTypeOK
<1>7. updates' \in [CanonicalIds -> Seq(Cards \ {NoCard})]
  BY <1>3, <1>6
<1> QED
  BY <1>1, <1>3, <1>4, <1>5, <1>7

-----------------------------------------------------------------------------
(* IInv is inductive.                                                       *)

LEMMA InitIInv == Init => IInv
<1> SUFFICES ASSUME Init PROVE IInv
  OBVIOUS
<1>1. Decisions!TablesTypeOK
  BY Constants, FlowAssumption
  DEF Init, Decisions!Init, Decisions!TablesInit, Decisions!TablesTypeOK,
      Decisions!Link, Decisions!NoLink, Decisions!CanonicalRow, Decisions!Decision
<1>2. CatalogTypeOK
  BY NoCardIsCard, CatalogAssumption DEF Init, CatalogInit, CatalogTypeOK
<1>3. FlowTypeOK
  BY <1>1, <1>2, NoCardIsCard, FlowAssumption
  DEF Init, Search!SearchInit, FlowTypeOK
<1>4. AnnouncedInv
  BY DEF Init, Decisions!Init, Decisions!TablesInit, Decisions!NoLink, AnnouncedInv
<1>5. PositionInv
  BY DEF Init, CatalogInit, Decisions!Init, Decisions!TablesInit, PositionInv
<1> QED
  BY <1>3, <1>4, <1>5 DEF IInv

\* An event that is taken, anew or again.
LEMMA HandleKeeps ==
    ASSUME IInv, NEW p \in Products, NEW i \in Nat \ {0}, i <= Len(emitted[p]), Handle(p, i)
    PROVE  IInv'
<1> USE DEF IInv
<1>1. /\ UNCHANGED <<matching, productDocs, canonicalDocs,
                     discovered, linkOffset, parked, indexOffset, faults>>
      /\ UNCHANGED <<products, productLinks, cards, updates>>
      /\ taken' = <<p, i>>
  BY DEF Handle, SetCanonicalLink
<1>2. /\ handling' \in Handling
      /\ handling'.product = p
      /\ handling'.canonical = emitted[p][i]
  BY HandleEffect
<1>3. CatalogTypeOK'
  BY <1>1, <1>2 DEF FlowTypeOK, CatalogTypeOK
<1>4. FlowTypeOK'
  BY <1>1, <1>3 DEF FlowTypeOK, matching, Decisions!TablesTypeOK
<1>5. AnnouncedInv'
  BY <1>1 DEF AnnouncedInv, matching
<1>6. PositionInv'
  BY <1>1, <1>2 DEF PositionInv, matching
<1> QED
  BY <1>4, <1>5, <1>6

LEMMA StepIInv ==
    ASSUME IInv, [Next]_flowVars
    PROVE  IInv'
<1> USE DEF IInv
<1>1. ASSUME NEW p \in Products, Discover(p) \/ IngestProduct(p) \/ IndexProduct(p)
      PROVE  IInv'
  <2>1. /\ UNCHANGED <<matching, productLinks, cards, updates, handling>>
        /\ UNCHANGED <<canonicalDocs, linkOffset, parked, taken, indexOffset, faults>>
    BY <1>1
    DEF Discover, IngestProduct, UpsertProduct, IndexProduct, Search!IndexDocument,
        catalogVars, delivery
  <2>2. /\ products' \in SUBSET Products
        /\ productDocs' \in SUBSET Products
        /\ discovered' \in SUBSET Products
    BY <1>1
    DEF FlowTypeOK, CatalogTypeOK, Discover, IngestProduct, UpsertProduct, IndexProduct,
        Search!IndexDocument, catalogVars, delivery
  <2>3. FlowTypeOK'
    BY <2>1, <2>2 DEF FlowTypeOK, CatalogTypeOK, matching, Decisions!TablesTypeOK
  <2> QED
    BY <2>1, <2>3 DEF AnnouncedInv, PositionInv, matching
<1>2. ASSUME NEW p \in Products, TakeLink(p)
      PROVE  IInv'
  <2>1. /\ linkOffset[p] + 1 \in Nat \ {0}
        /\ linkOffset[p] + 1 <= Len(emitted[p])
        /\ Handle(p, linkOffset[p] + 1)
    BY <1>2, Constants DEF TakeLink, FlowTypeOK, Decisions!TablesTypeOK
  <2> QED
    BY <2>1, HandleKeeps
<1>3. CASE ReplayLink
  <2>1. PICK e \in parked : Handle(e[1], e[2])
    BY <1>3 DEF ReplayLink
  <2>2. e[1] \in Products /\ e[2] \in Nat \ {0} /\ e[2] <= Len(emitted[e[1]])
    BY DEF FlowTypeOK, PositionInv
  <2> QED
    BY <2>1, <2>2, HandleKeeps
<1>4. ASSUME NEW c \in CanonicalIds, IndexCard(c)
      PROVE  IInv'
  <2>1. UNCHANGED <<matching, catalogVars, discovered, linkOffset, parked, taken, faults, productDocs>>
    BY <1>4 DEF IndexCard, Search!IndexCanonicalDocument
  <2>2. indexOffset' \in [CanonicalIds -> Nat]
    BY <1>4 DEF IndexCard, FlowTypeOK
  <2>3. updates[c][indexOffset[c] + 1] \in Cards
    <3>1. updates[c] \in Seq(Cards \ {NoCard}) /\ indexOffset[c] \in Nat
      BY DEF FlowTypeOK, CatalogTypeOK
    <3> QED
      BY <1>4, <3>1 DEF IndexCard
  <2>4. canonicalDocs' \in [CanonicalIds -> Cards]
    BY <1>4, <2>3 DEF IndexCard, Search!IndexCanonicalDocument, FlowTypeOK
  <2>5. FlowTypeOK'
    BY <2>1, <2>2, <2>4
    DEF FlowTypeOK, CatalogTypeOK, catalogVars, matching, Decisions!TablesTypeOK
  <2> QED
    BY <2>1, <2>5 DEF AnnouncedInv, PositionInv, matching, catalogVars
<1>5. CASE Decide
  <2>1. Decided /\ UNCHANGED <<catalogVars, productDocs, canonicalDocs, delivery>>
    BY <1>5, DecideDecided DEF Decide, FlowTypeOK
  <2>2. /\ AnnouncedInv'
        /\ \A p \in Products :
              /\ Len(emitted[p]) <= Len(emitted'[p])
              /\ \A i \in 1..Len(emitted[p]) : emitted'[p][i] = emitted[p][i]
    BY <2>1, DecidedKeeps DEF FlowTypeOK
  <2>3. FlowTypeOK'
    BY <2>1 DEF Decided, FlowTypeOK, CatalogTypeOK, catalogVars, delivery
  <2>4. \A p \in Products : Len(emitted[p]) \in Nat /\ Len(emitted'[p]) \in Nat
    BY <2>3 DEF FlowTypeOK, Decisions!TablesTypeOK
  <2>5. PositionInv'
    <3>1. \A p \in Products : linkOffset'[p] <= Len(emitted'[p])
      BY <2>1, <2>2, <2>4 DEF PositionInv, FlowTypeOK, delivery
    <3>2. \A e \in parked' : e[2] <= Len(emitted'[e[1]])
      BY <2>1, <2>2, <2>4 DEF PositionInv, FlowTypeOK, delivery
    <3>3. ASSUME handling' # NotHandling
          PROVE  /\ taken' \in Products \X (Nat \ {0})
                 /\ taken'[2] <= Len(emitted'[taken'[1]])
                 /\ handling'.product = taken'[1]
                 /\ handling'.canonical = emitted'[taken'[1]][taken'[2]]
      <4>1. /\ taken' = taken /\ handling' = handling
            /\ taken \in Products \X (Nat \ {0})
            /\ taken[2] <= Len(emitted[taken[1]])
            /\ handling.product = taken[1]
            /\ handling.canonical = emitted[taken[1]][taken[2]]
        BY <2>1, <3>3 DEF PositionInv, delivery, catalogVars
      <4>2. /\ taken[1] \in Products /\ taken[2] \in Nat \ {0}
            /\ taken[2] \in 1..Len(emitted[taken[1]])
        BY <2>4, <4>1
      <4> QED
        BY <2>2, <2>4, <4>1, <4>2
    <3> QED
      BY <3>1, <3>2, <3>3 DEF PositionInv
  <2> QED
    BY <2>2, <2>3, <2>5
<1>6. CASE Rebuild
  <2>1. /\ UNCHANGED <<matching, productDocs, canonicalDocs, delivery>>
        /\ UNCHANGED <<products, productLinks, cards, updates>>
        /\ handling # NotHandling
    BY <1>6 DEF Rebuild, RebuildCard
  <2>2. /\ handling' \in Handling
        /\ handling'.product = handling.product
        /\ handling'.canonical = handling.canonical
    BY <1>6, RebuildEffect DEF Rebuild, FlowTypeOK
  <2>3. FlowTypeOK'
    BY <2>1, <2>2 DEF FlowTypeOK, CatalogTypeOK, matching, delivery, Decisions!TablesTypeOK
  <2> QED
    BY <2>1, <2>2, <2>3 DEF AnnouncedInv, PositionInv, matching, delivery
<1>7. CASE FinishLink
  <2>1. /\ UNCHANGED <<matching, productDocs, canonicalDocs, discovered, indexOffset, faults, products>>
        /\ handling # NotHandling /\ handling' = NotHandling
        /\ taken' = NothingTaken
        /\ CommitLink /\ Past
    BY <1>7 DEF FinishLink, CommitLink
  <2>2. taken \in Products \X (Nat \ {0}) /\ taken[2] <= Len(emitted[taken[1]])
    BY <2>1 DEF PositionInv
  <2>3. CatalogTypeOK'
    BY <2>1, CommitEffect DEF FlowTypeOK, CatalogTypeOK
  <2>4. /\ linkOffset' \in [Products -> Nat]
        /\ parked' \subseteq parked
        /\ \A p \in Products : linkOffset'[p] = linkOffset[p]
                             \/ (p = taken[1] /\ linkOffset'[p] = taken[2])
    <3> DEFINE q == taken[1]
               i == taken[2]
    <3>1. q \in Products /\ i \in Nat /\ linkOffset \in [Products -> Nat]
      BY <2>2 DEF FlowTypeOK
    <3>2. \/ linkOffset' = [linkOffset EXCEPT ![q] = i] /\ parked' = parked
          \/ linkOffset' = linkOffset /\ parked' = parked \ {taken}
      BY <2>1 DEF Past
    <3> HIDE DEF q, i
    <3>3. linkOffset' \in [Products -> Nat] /\ parked' \subseteq parked
      BY <3>1, <3>2
    <3>4. \A p \in Products : linkOffset'[p] = linkOffset[p] \/ (p = q /\ linkOffset'[p] = i)
      BY <3>1, <3>2
    <3> QED
      BY <3>3, <3>4 DEF q, i
  <2>5. FlowTypeOK'
    BY <2>1, <2>3, <2>4 DEF FlowTypeOK, matching, Decisions!TablesTypeOK
  <2>6. PositionInv'
    BY <2>1, <2>2, <2>4 DEF PositionInv, matching
  <2> QED
    BY <2>1, <2>5, <2>6 DEF AnnouncedInv, matching
<1>8. CASE FailLink
  <2>1. /\ UNCHANGED <<matching, productDocs, canonicalDocs,
                       discovered, linkOffset, parked, indexOffset>>
        /\ UNCHANGED <<products, productLinks, cards, updates>>
        /\ handling' = NotHandling /\ taken' = NothingTaken
    BY <1>8 DEF FailLink, AbandonLink
  <2>2. faults' \in 0..MaxFaults
    BY <1>8, FlowAssumption DEF FailLink, FlowTypeOK
  <2>3. FlowTypeOK'
    BY <2>1, <2>2 DEF FlowTypeOK, CatalogTypeOK, matching, Decisions!TablesTypeOK
  <2> QED
    BY <2>1, <2>3 DEF AnnouncedInv, PositionInv, matching
<1>9. CASE ParkLink
  <2>1. /\ UNCHANGED <<matching, productDocs, canonicalDocs, discovered, indexOffset>>
        /\ UNCHANGED <<products, productLinks, cards, updates>>
        /\ handling # NotHandling /\ handling' = NotHandling
        /\ taken' = NothingTaken
        /\ parked' = parked \cup {taken}
        /\ linkOffset' = [linkOffset EXCEPT ![taken[1]] = IF taken[2] > @ THEN taken[2] ELSE @]
    BY <1>9 DEF ParkLink, AbandonLink
  <2>2. taken \in Products \X (Nat \ {0}) /\ taken[2] <= Len(emitted[taken[1]])
    BY <2>1 DEF PositionInv
  <2>3. faults' \in 0..MaxFaults
    BY <1>9, FlowAssumption DEF ParkLink, FlowTypeOK
  <2>4. /\ linkOffset' \in [Products -> Nat]
        /\ \A p \in Products : linkOffset'[p] = linkOffset[p]
                             \/ (p = taken[1] /\ linkOffset'[p] = taken[2])
    <3> DEFINE q == taken[1]
               i == taken[2]
    <3>1. q \in Products /\ i \in Nat /\ linkOffset \in [Products -> Nat]
      BY <2>2 DEF FlowTypeOK
    <3>2. \/ linkOffset' = [linkOffset EXCEPT ![q] = i]
          \/ linkOffset' = [linkOffset EXCEPT ![q] = linkOffset[q]]
      BY <2>1
    <3> HIDE DEF q, i
    <3>3. linkOffset' \in [Products -> Nat]
      BY <3>1, <3>2
    <3>4. \A p \in Products : linkOffset'[p] = linkOffset[p] \/ (p = q /\ linkOffset'[p] = i)
      BY <3>1, <3>2
    <3> QED
      BY <3>3, <3>4 DEF q, i
  <2>5. FlowTypeOK'
    BY <2>1, <2>2, <2>3, <2>4
    DEF FlowTypeOK, CatalogTypeOK, matching, Decisions!TablesTypeOK
  <2>6. PositionInv'
    BY <2>1, <2>2, <2>4 DEF PositionInv, matching
  <2> QED
    BY <2>1, <2>5, <2>6 DEF AnnouncedInv, matching
<1>10. CASE UNCHANGED flowVars
  BY <1>10
  DEF flowVars, matching, catalogVars, delivery, FlowTypeOK, CatalogTypeOK,
      Decisions!TablesTypeOK, AnnouncedInv, PositionInv
<1> QED
  BY <1>1, <1>2, <1>3, <1>4, <1>5, <1>6, <1>7, <1>8, <1>9, <1>10 DEF Next

\* IInv holds in every reachable state.
THEOREM InvariantHolds == Spec => []IInv
<1>1. IInv /\ [Next]_flowVars => IInv'
  BY StepIInv
<1> QED
  BY <1>1, InitIInv, PTL DEF Spec

\* Every state of matching, catalog and search is well typed.
THEOREM TypeCorrect == Spec => []FlowTypeOK
<1>1. IInv => FlowTypeOK
  BY DEF IInv
<1> QED
  BY <1>1, InvariantHolds, PTL

-----------------------------------------------------------------------------
(* The index follows the catalog.                                           *)

LEMMA InitIndex == Init => IndexInv
BY DEF Init, CatalogInit, Search!SearchInit, IndexInv

\* No step but a commit changes cards or updates; no step but IndexCard the index.
LEMMA StepIndex ==
    ASSUME IInv, IndexInv, [Next]_flowVars
    PROVE  IndexInv'
<1> USE DEF IInv
<1>1. ASSUME UNCHANGED <<cards, updates, canonicalDocs, indexOffset>>
      PROVE  IndexInv'
  BY <1>1 DEF IndexInv
<1>2. ASSUME NEW p \in Products, Discover(p) \/ IngestProduct(p) \/ IndexProduct(p) \/ TakeLink(p)
      PROVE  UNCHANGED <<cards, updates, canonicalDocs, indexOffset>>
  BY <1>2
  DEF Discover, IngestProduct, UpsertProduct, IndexProduct, Search!IndexDocument,
      TakeLink, Handle, SetCanonicalLink, catalogVars, delivery
<1>3. CASE ReplayLink \/ Rebuild \/ FailLink \/ ParkLink \/ Decide
  <2>1. UNCHANGED <<cards, updates, canonicalDocs, indexOffset>>
    BY <1>3
    DEF ReplayLink, Handle, SetCanonicalLink, Rebuild, RebuildCard, FailLink, ParkLink,
        AbandonLink, Decide, catalogVars, delivery
  <2> QED
    BY <1>1, <2>1
<1>4. ASSUME NEW c \in CanonicalIds, IndexCard(c)
      PROVE  IndexInv'
  <2>1. /\ UNCHANGED <<cards, updates>>
        /\ indexOffset' = [indexOffset EXCEPT ![c] = indexOffset[c] + 1]
        /\ canonicalDocs' = [canonicalDocs EXCEPT ![c] = updates[c][indexOffset[c] + 1]]
        /\ indexOffset[c] < Len(updates[c])
    BY <1>4 DEF IndexCard, Search!IndexCanonicalDocument, catalogVars
  <2>2. /\ indexOffset \in [CanonicalIds -> Nat]
        /\ canonicalDocs \in [CanonicalIds -> Cards]
        /\ updates[c] \in Seq(Cards \ {NoCard})
    BY DEF FlowTypeOK, CatalogTypeOK
  <2>3. ASSUME NEW d \in CanonicalIds
        PROVE  /\ indexOffset'[d] <= Len(updates'[d])
               /\ canonicalDocs'[d] =
                     IF indexOffset'[d] = 0 THEN NoCard ELSE updates'[d][indexOffset'[d]]
               /\ cards'[d] =
                     IF updates'[d] = <<>> THEN NoCard ELSE updates'[d][Len(updates'[d])]
    <3>1. CASE d = c
      BY <2>1, <2>2, <3>1 DEF IndexInv
    <3>2. CASE d # c
      BY <2>1, <2>2, <3>2 DEF IndexInv
    <3> QED
      BY <3>1, <3>2
  <2> QED
    BY <2>3 DEF IndexInv
<1>5. CASE FinishLink
  <2>1. CommitLink /\ UNCHANGED <<canonicalDocs, indexOffset>>
    BY <1>5 DEF FinishLink
  <2>2. ASSUME NEW c \in CanonicalIds
        PROVE  /\ indexOffset'[c] <= Len(updates'[c])
               /\ canonicalDocs'[c] =
                     IF indexOffset'[c] = 0 THEN NoCard ELSE updates'[c][indexOffset'[c]]
               /\ cards'[c] =
                     IF updates'[c] = <<>> THEN NoCard ELSE updates'[c][Len(updates'[c])]
    <3>1. updates[c] \in Seq(Cards \ {NoCard}) /\ indexOffset[c] \in Nat
      BY DEF FlowTypeOK, CatalogTypeOK
    <3>2. CASE cards'[c] = cards[c] /\ updates'[c] = updates[c]
      BY <2>1, <3>2 DEF IndexInv
    <3>3. CASE /\ handling.built[c] # NoCard
               /\ cards'[c] = handling.built[c]
               /\ updates'[c] = Append(updates[c], handling.built[c])
      <4>1. handling.built[c] \in Cards \ {NoCard}
        BY <2>1, <3>3, CommitEffect DEF Handling, FlowTypeOK
      <4>2. /\ Len(updates'[c]) = Len(updates[c]) + 1
            /\ updates'[c] # <<>>
            /\ updates'[c][Len(updates'[c])] = handling.built[c]
            /\ \A i \in 1..Len(updates[c]) : updates'[c][i] = updates[c][i]
        BY <3>1, <3>3, <4>1
      <4> QED
        BY <2>1, <3>1, <3>3, <4>2 DEF IndexInv
    <3> QED
      BY <2>1, <3>2, <3>3, CommitEffect DEF FlowTypeOK
  <2> QED
    BY <2>2 DEF IndexInv
<1>6. CASE UNCHANGED flowVars
  BY <1>1, <1>6 DEF flowVars, catalogVars, delivery
<1> QED
  BY <1>1, <1>2, <1>3, <1>4, <1>5, <1>6 DEF Next

\* Once the search service is past the updates of a canonical, what it has indexed is
\* the card.
THEOREM IndexFollows == Spec => []SearchFollowsCatalog
<1>1. IndexInv => SearchFollowsCatalog
  BY DEF IndexInv, SearchFollowsCatalog
<1>2. IInv /\ IndexInv /\ [Next]_flowVars => IndexInv'
  BY StepIndex
<1> QED
  BY <1>1, <1>2, InitIndex, InvariantHolds, PTL DEF Spec

-----------------------------------------------------------------------------
(* The mapping follows matching when nothing can be dead-lettered.          *)

LEMMA InitFollow == Init /\ MaxFaults < Attempts => FollowInv
BY DEF Init, CatalogInit, FollowInv

LEMMA StepFollow ==
    ASSUME IInv, FollowInv, [Next]_flowVars
    PROVE  FollowInv'
<1> USE DEF IInv
<1>1. ASSUME UNCHANGED <<emitted, productLinks, linkOffset, parked, taken, faults, handling>>
      PROVE  FollowInv'
  BY <1>1 DEF FollowInv
<1>2. ASSUME NEW p \in Products, Discover(p) \/ IngestProduct(p) \/ IndexProduct(p)
      PROVE  FollowInv'
  <2>1. UNCHANGED <<emitted, productLinks, linkOffset, parked, taken, faults, handling>>
    BY <1>2
    DEF Discover, IngestProduct, UpsertProduct, IndexProduct, Search!IndexDocument,
        matching, catalogVars, delivery
  <2> QED
    BY <1>1, <2>1
<1>3. ASSUME NEW c \in CanonicalIds, IndexCard(c)
      PROVE  FollowInv'
  BY <1>1, <1>3 DEF IndexCard, matching, catalogVars
<1>4. ASSUME NEW p \in Products, TakeLink(p)
      PROVE  FollowInv'
  <2>1. /\ UNCHANGED <<emitted, productLinks, linkOffset, parked, faults>>
        /\ taken' = <<p, linkOffset[p] + 1>>
    BY <1>4 DEF TakeLink, Handle, SetCanonicalLink, matching
  <2> QED
    BY <2>1 DEF FollowInv
<1>5. CASE ReplayLink
  BY <1>5 DEF ReplayLink, FollowInv
<1>6. CASE Rebuild
  <2>1. /\ UNCHANGED <<emitted, productLinks, linkOffset, parked, taken, faults>>
        /\ handling # NotHandling
    BY <1>6 DEF Rebuild, RebuildCard, matching, delivery
  <2> QED
    BY <2>1 DEF FollowInv
<1>7. CASE FailLink
  <2>1. /\ UNCHANGED <<emitted, productLinks, linkOffset, parked>>
        /\ faults' = faults - 1
        /\ handling' = NotHandling
    BY <1>7 DEF FailLink, AbandonLink, matching
  <2>2. faults' < Attempts
    BY <2>1, FlowAssumption DEF FollowInv, FlowTypeOK
  <2> QED
    BY <2>1, <2>2 DEF FollowInv
<1>8. CASE ParkLink
  BY <1>8, FlowAssumption DEF ParkLink, FollowInv, FlowTypeOK
<1>9. CASE Decide
  <2>1. Decided /\ UNCHANGED <<productLinks, linkOffset, parked, taken, faults, handling>>
    BY <1>9, DecideDecided DEF Decide, FlowTypeOK, catalogVars, delivery
  <2>2. \A p \in Products : \A i \in 1..Len(emitted[p]) : emitted'[p][i] = emitted[p][i]
    BY <2>1, DecidedKeeps DEF FlowTypeOK
  <2>3. \A p \in Products :
           linkOffset[p] # 0 => emitted'[p][linkOffset[p]] = emitted[p][linkOffset[p]]
    BY <2>2 DEF PositionInv, FlowTypeOK, Decisions!TablesTypeOK
  <2> QED
    BY <2>1, <2>3 DEF FollowInv
<1>10. CASE FinishLink
  <2> DEFINE p == taken[1]
             i == taken[2]
  <2>1. /\ UNCHANGED <<emitted, faults>>
        /\ handling # NotHandling /\ handling' = NotHandling
        /\ CommitLink /\ Past
    BY <1>10 DEF FinishLink, CommitLink, matching
  <2>2. /\ p \in Products /\ i = linkOffset[p] + 1 /\ linkOffset[p] \in Nat
        /\ handling.product = p /\ handling.canonical = emitted[p][i]
    BY <2>1 DEF FollowInv, PositionInv, FlowTypeOK
  <2>3. linkOffset' = [linkOffset EXCEPT ![p] = i] /\ parked' = parked
    BY <2>1, <2>2 DEF Past
  <2>4. /\ productLinks'[p] = emitted[p][i]
        /\ \A q \in Products : q # p => productLinks'[q] = productLinks[q]
    BY <2>1, <2>2, CommitEffect DEF FlowTypeOK
  <2> HIDE DEF p, i
  <2>5. ASSUME NEW q \in Products
        PROVE  productLinks'[q] =
                  IF linkOffset'[q] = 0 THEN NoCanonicalId ELSE emitted'[q][linkOffset'[q]]
    <3>1. linkOffset \in [Products -> Nat]
      BY DEF FlowTypeOK
    <3>2. CASE q = p
      BY <2>1, <2>2, <2>3, <2>4, <3>1, <3>2
    <3>3. CASE q # p
      BY <2>1, <2>3, <2>4, <3>1, <3>3 DEF FollowInv
    <3> QED
      BY <3>2, <3>3
  <2> QED
    BY <2>1, <2>3, <2>5 DEF FollowInv
<1>11. CASE UNCHANGED flowVars
  BY <1>1, <1>11 DEF flowVars, matching, catalogVars, delivery
<1> QED
  BY <1>2, <1>3, <1>4, <1>5, <1>6, <1>7, <1>8, <1>9, <1>10, <1>11 DEF Next

\* With fewer failures than attempts, the catalog's mapping becomes matching's.
THEOREM MappingFollows ==
    ASSUME MaxFaults < Attempts
    PROVE  Spec => []CatalogFollowsMatching
<1>1. IInv /\ FollowInv => CatalogFollowsMatching
  <2> SUFFICES ASSUME IInv, FollowInv, NEW p \in Products, LinksDone(p)
               PROVE  /\ links[p].status \in {"auto", "confirmed"} =>
                            productLinks[p] = links[p].canonical
                      /\ links[p].status \in {"none", "pending_review"} =>
                            productLinks[p] = NoCanonicalId
    BY DEF CatalogFollowsMatching
  <2>1. emitted[p] \in Seq(CanonicalIds) /\ linkOffset[p] = Len(emitted[p])
    BY Constants DEF IInv, FlowTypeOK, Decisions!TablesTypeOK, LinksDone
  <2>2. productLinks[p] = IF Len(emitted[p]) = 0
                          THEN NoCanonicalId ELSE emitted[p][Len(emitted[p])]
    BY <2>1 DEF FollowInv
  <2> QED
    BY <2>1, <2>2 DEF IInv, AnnouncedInv
<1>2. IInv /\ FollowInv /\ [Next]_flowVars => FollowInv'
  BY StepFollow
<1>3. Init => FollowInv
  BY InitFollow
<1> QED
  BY <1>1, <1>2, <1>3, InvariantHolds, PTL DEF Spec

-----------------------------------------------------------------------------
(* No member is missing when products come before their links.              *)

LEMMA InitMember == Init => MemberInv
BY DEF Init, CatalogInit, MemberInv, Building

\* A card that is read from the tables has all its members.
LEMMA RebuildMembers ==
    ASSUME IInv, MemberInv, RebuildCard
    PROVE  Building'
<1> DEFINE p == handling.product
           c == handling.canonical
           b == Rebuilt
<1>1. /\ handling \in Handling /\ handling # NotHandling
      /\ p \in Products /\ c \in CanonicalIds
      /\ productLinks \in [Products -> CanonicalIds \cup {NoCanonicalId}]
      /\ UNCHANGED <<products, productLinks>>
  BY DEF IInv, FlowTypeOK, CatalogTypeOK, Handling, RebuildCard
<1>2. /\ p \in products
      /\ p \in handling.built[c] \/ b = c
      /\ \A d \in CanonicalIds : handling.built[d] # NoCard =>
            \A q \in Products :
                (IF q = p THEN c ELSE productLinks[q]) = d => q \in handling.built[d]
  BY <1>1 DEF MemberInv, Building, Rebuilt
<1>3. /\ b \in CanonicalIds
      /\ handling'.product = p /\ handling'.canonical = c
      /\ handling'.built[b] = Merged(b, Flushed)
      /\ \A d \in CanonicalIds : d # b => handling'.built[d] = handling.built[d]
  BY RebuildEffect DEF IInv, FlowTypeOK
<1>4. \A q \in Products : Flushed[q] = IF q = p THEN c ELSE productLinks[q]
  BY <1>1 DEF Flushed
<1>5. \A q \in Products :
         (IF q = p THEN c ELSE productLinks[q]) = b => q \in handling'.built[b]
  <2> SUFFICES ASSUME NEW q \in Products, (IF q = p THEN c ELSE productLinks[q]) = b
               PROVE  q \in Merged(b, Flushed)
    BY <1>3
  <2>1. q \in products
    BY <1>1, <1>2, <1>3, Constants DEF MemberInv
  <2> QED
    BY <1>4, <2>1 DEF Merged
<1>6. p \in handling'.built[c]
  BY <1>1, <1>2, <1>3, <1>5
<1> HIDE DEF p, c, b
<1>7. \A d \in CanonicalIds : handling'.built[d] # NoCard =>
         \A q \in Products :
             (IF q = p THEN c ELSE productLinks[q]) = d => q \in handling'.built[d]
  BY <1>2, <1>3, <1>5
<1> QED
  BY <1>1, <1>2, <1>3, <1>6, <1>7 DEF Building

\* An event is only taken when its product is ingested.
LEMMA HandleMembers ==
    ASSUME IInv, MemberInv, NEW p \in Products, NEW i \in Nat \ {0}, i <= Len(emitted[p]),
           Handle(p, i), p \in products
    PROVE  MemberInv'
<1>1. UNCHANGED <<products, productLinks, cards, parked>>
  BY DEF Handle, SetCanonicalLink
<1>2. /\ handling'.product = p
      /\ handling'.todo # <<>> /\ Head(handling'.todo) = handling'.canonical
      /\ \A d \in CanonicalIds : handling'.built[d] = NoCard
  BY HandleEffect DEF IInv
<1>3. Building'
  BY <1>1, <1>2 DEF Building
<1> QED
  BY <1>1, <1>3 DEF MemberInv

LEMMA StepMember ==
    ASSUME ProductsFirst, IInv, MemberInv, [Next]_flowVars
    PROVE  MemberInv'
<1>1. ASSUME UNCHANGED <<products, productLinks, cards, parked, handling>>
      PROVE  MemberInv'
  BY <1>1 DEF MemberInv, Building
<1>2. ASSUME NEW p \in Products, Discover(p) \/ IndexProduct(p)
      PROVE  MemberInv'
  BY <1>1, <1>2 DEF Discover, IndexProduct, catalogVars, delivery
<1>3. ASSUME NEW p \in Products, IngestProduct(p)
      PROVE  MemberInv'
  <2>1. /\ UNCHANGED <<productLinks, cards, parked, handling>>
        /\ products' = products \cup {p}
    BY <1>3 DEF IngestProduct, UpsertProduct, delivery
  <2>2. (\A e \in parked : e[1] \in Products) /\ (handling # NotHandling => handling.product \in Products)
    BY DEF IInv, FlowTypeOK, CatalogTypeOK, Handling
  <2> QED
    BY <2>1, <2>2 DEF MemberInv, Building
<1>4. ASSUME NEW p \in Products, TakeLink(p)
      PROVE  MemberInv'
  <2>1. /\ linkOffset[p] + 1 \in Nat \ {0}
        /\ linkOffset[p] + 1 <= Len(emitted[p])
        /\ Handle(p, linkOffset[p] + 1)
        /\ p \in products
    BY <1>4, Constants DEF TakeLink, IInv, FlowTypeOK, Decisions!TablesTypeOK
  <2> QED
    BY <2>1, HandleMembers
<1>5. CASE ReplayLink
  <2>1. PICK e \in parked : Handle(e[1], e[2])
    BY <1>5 DEF ReplayLink
  <2>2. /\ e[1] \in Products /\ e[2] \in Nat \ {0} /\ e[2] <= Len(emitted[e[1]])
        /\ e[1] \in products
    BY DEF IInv, FlowTypeOK, PositionInv, MemberInv
  <2> QED
    BY <2>1, <2>2, HandleMembers
<1>6. ASSUME NEW c \in CanonicalIds, IndexCard(c)
      PROVE  MemberInv'
  BY <1>1, <1>6 DEF IndexCard, catalogVars
<1>7. CASE Decide
  BY <1>1, <1>7 DEF Decide, catalogVars, delivery
<1>8. CASE Rebuild
  <2>1. RebuildCard /\ UNCHANGED <<products, productLinks, cards, parked>>
    BY <1>8 DEF Rebuild, RebuildCard, delivery
  <2> QED
    BY <2>1, RebuildMembers DEF MemberInv
<1>9. CASE FailLink
  BY <1>9 DEF FailLink, AbandonLink, MemberInv, Building
<1>10. CASE ParkLink
  <2>1. /\ UNCHANGED <<products, productLinks, cards>>
        /\ handling # NotHandling /\ handling' = NotHandling
        /\ parked' = parked \cup {taken}
    BY <1>10 DEF ParkLink, AbandonLink
  <2>2. taken[1] \in products
    BY <2>1 DEF IInv, PositionInv, MemberInv, Building
  <2> QED
    BY <2>1, <2>2 DEF MemberInv, Building
<1>11. CASE FinishLink
  <2> DEFINE p == handling.product
             c == handling.canonical
  <2>1. /\ CommitLink /\ products' = products /\ handling' = NotHandling
        /\ handling # NotHandling /\ handling.todo = <<>>
        /\ parked' \subseteq parked
    BY <1>11 DEF FinishLink, CommitLink, Past
  <2>2. /\ productLinks' \in [Products -> CanonicalIds \cup {NoCanonicalId}]
        /\ p \in Products /\ c \in CanonicalIds
        /\ productLinks'[p] = c
        /\ \A q \in Products : q # p => productLinks'[q] = productLinks[q]
        /\ \A d \in CanonicalIds :
              \/ handling.built[d] # NoCard /\ cards'[d] = handling.built[d]
              \/ handling.built[d] = NoCard /\ cards'[d] = cards[d]
    BY <2>1, CommitEffect DEF IInv, FlowTypeOK, Handling
  <2>3. /\ p \in products
        /\ p \in handling.built[c]
        /\ \A d \in CanonicalIds : handling.built[d] # NoCard =>
              \A q \in Products :
                  (IF q = p THEN c ELSE productLinks[q]) = d => q \in handling.built[d]
    BY <2>1 DEF MemberInv, Building
  <2> HIDE DEF p, c
  <2>4. ASSUME NEW q \in Products, productLinks'[q] # NoCanonicalId
        PROVE  q \in products' /\ q \in cards'[productLinks'[q]]
    <3>1. productLinks'[q] \in CanonicalIds
      BY <2>2, <2>4
    <3>2. CASE q = p
      BY <2>1, <2>2, <2>3, <3>2, NoCardIsCard DEF NoCard
    <3>3. CASE q # p
      BY <2>1, <2>2, <2>3, <2>4, <3>1, <3>3 DEF MemberInv
    <3> QED
      BY <3>2, <3>3
  <2> QED
    BY <2>1, <2>4 DEF MemberInv, Building
<1>12. CASE UNCHANGED flowVars
  BY <1>1, <1>12 DEF flowVars, catalogVars, delivery
<1> QED
  BY <1>2, <1>3, <1>4, <1>5, <1>6, <1>7, <1>8, <1>9, <1>10, <1>11, <1>12 DEF Next

\* As long as products are ingested before their links, every linked product is on
\* the card of its canonical, whatever is dead-lettered and replayed.
THEOREM NoMemberMissing ==
    ASSUME ProductsFirst
    PROVE  Spec => []NoMemberIsMissing
<1>1. MemberInv => NoMemberIsMissing
  BY DEF MemberInv, NoMemberIsMissing
<1>2. IInv /\ MemberInv /\ [Next]_flowVars => MemberInv'
  BY StepMember
<1> QED
  BY <1>1, <1>2, InitMember, InvariantHolds, PTL DEF Spec
=============================================================================
