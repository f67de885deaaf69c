---------------------------- MODULE SyncFlowProofs ----------------------------
(***************************************************************************)
(* Proofs about SyncFlow, for any supplier, schedule, workers and bounds:  *)
(* identities and prices are minted once however syncs overlap, price      *)
(* events move forward while they take turns, what is older than the       *)
(* watermark has been fetched, and every entry of a schedule runs that     *)
(* asks for what the others of its account do.                             *)
(***************************************************************************)
EXTENDS SyncFlow, FiniteSetTheorems, WellFoundedInduction, TLAPS

-----------------------------------------------------------------------------
(* The invariants.  They speak of one sync s, of a catalogue c and of the  *)
(* identities id, so that one lemma covers every state a sync goes through.*)

\* The sync of a worker, whatever kind and mode the job asked for.
SyncRecords(kinds, modes) ==
    [phase : Phases, kind : kinds, mode : modes, at : Nat, since : Nat \cup {NoTime},
     offset : Nat, more : BOOLEAN, ids : SUBSET Items,
     products : Seq(SUBSET Rows), offers : Seq(SUBSET Rows),
     reading : Readings \cup {NotReading}]

IsSync(s) == s \in SyncRecords({s.kind}, {s.mode})

\* Rows that were fetched are versions the supplier has had; offers have a price.
Fetched(pages, c) ==
    \A n \in DOMAIN pages : \A r \in pages[n] : r.version <= Len(c[r.item])

Usable(pages, c) ==
    \A n \in DOMAIN pages : \A r \in pages[n] : c[r.item][r.version].price \in Prices

\* A row is read while it is the next to be staged; a product that was found, and the
\* product of an offer, have their identity.
ReadingOK(s, id) ==
    s.reading # NotReading =>
        \/ /\ s.phase = "stage products"
           /\ s.reading \in [row : Rows, read : BOOLEAN]
           /\ s.reading.row \in Head(s.products)
           /\ s.reading.read = FALSE \/ s.reading.row.item \in id
        \/ /\ s.phase = "stage offers"
           /\ s.reading \in [row : Rows, read : Prices \cup {NoPrice}]
           /\ s.reading.row \in Head(s.offers)
           /\ s.reading.row.item \in id

SyncOK(s, c, id) ==
    /\ IsSync(s)
    /\ Fetched(s.products, c) /\ Fetched(s.offers, c) /\ Usable(s.offers, c)
    /\ s.phase = "stage products" => s.products # <<>>
    /\ s.phase = "stage offers" => s.offers # <<>>
    /\ ReadingOK(s, id)

\* One step of a sync from s to t: the offers to be staged stay, are dropped, get a page of
\* what the supplier has now, or lose a row; an offer is read with the price lp it has now.
Follows(s, t, c, lp) ==
    /\ \/ t.offers \in {s.offers, <<>>}
       \/ \E rows \in SUBSET Rows :
             /\ t.offers = With(s.offers, rows)
             /\ \A r \in rows : r.version = Len(c[r.item])
       \/ s.offers # <<>> /\ \E r \in Rows : t.offers = Without(s.offers, r)
    /\ t.phase = "stage offers" /\ t.reading # NotReading =>
          t.reading.read = lp[t.reading.row.item]

DataInv ==
    /\ now \in Nat
    /\ catalogue \in [Items -> Seq(Versions)]
    /\ identity \in SUBSET Items
    /\ discovered \in [Items -> Nat]
    /\ lastPrice \in [Items -> Prices \cup {NoPrice}]
    /\ priceEvents \in [Items -> Seq(PriceEvents)]
    /\ watermark \in Nat \cup {NoTime}
    /\ sync = [w \in Workers |-> sync[w]]

WorkInv == \A w \in Workers : sync[w] # Idle => SyncOK(sync[w], catalogue, identity)

EventInv ==
    \A i \in Items : \A n \in 1..Len(priceEvents[i]) :
        priceEvents[i][n].version <= Len(catalogue[i])

IInv == DataInv /\ WorkInv /\ EventInv /\ MintedOnce

-----------------------------------------------------------------------------
(* The catalogue only grows.                                                *)

Grows(c, d) ==
    \A i \in Items :
        /\ Len(c[i]) <= Len(d[i])
        /\ \A v \in 1..Len(c[i]) : d[i][v] = c[i][v]

\* What holds of a sync still does when the catalogue and the identities have grown.
LEMMA SyncOKGrows ==
    ASSUME NEW s, NEW c, NEW d, NEW id, NEW je, SyncOK(s, c, id), Grows(c, d), id \subseteq je
    PROVE  SyncOK(s, d, je)
<1>1. ASSUME NEW pages \in Seq(SUBSET Rows), Fetched(pages, c)
      PROVE  Fetched(pages, d) /\ (Usable(pages, c) => Usable(pages, d))
  <2> SUFFICES ASSUME NEW n \in DOMAIN pages, NEW r \in pages[n]
               PROVE  /\ r.version <= Len(d[r.item])
                      /\ d[r.item][r.version] = c[r.item][r.version]
    BY DEF Fetched, Usable
  <2>1. r \in Rows
    OBVIOUS
  <2>2. r.item \in Items /\ r.version \in Nat \ {0} /\ r.version <= Len(c[r.item])
    BY <1>1, <2>1 DEF Fetched, Rows
  <2> QED BY <2>2 DEF Grows
<1>2. s.products \in Seq(SUBSET Rows) /\ s.offers \in Seq(SUBSET Rows)
  BY DEF SyncOK, IsSync, SyncRecords
<1>3. ReadingOK(s, je)
  BY DEF SyncOK, ReadingOK
<1> QED BY <1>1, <1>2, <1>3 DEF SyncOK

\* A new version of a product is added behind those it has had.
LEMMA ChangeGrows ==
    ASSUME DataInv, NEW i \in Items, NEW p \in Prices \cup {NoPrice, Delisted}, Change(i, p)
    PROVE  /\ catalogue' \in [Items -> Seq(Versions)]
           /\ Grows(catalogue, catalogue')
<1> DEFINE e == [price |-> p, at |-> now]
<1>1. e \in Versions
  BY DEF DataInv, Versions
<1>2. catalogue' = [catalogue EXCEPT ![i] = Append(@, e)]
  BY DEF Change
<1>3. ASSUME NEW j \in Items
      PROVE  /\ catalogue'[j] \in Seq(Versions)
             /\ Len(catalogue[j]) <= Len(catalogue'[j])
             /\ \A v \in 1..Len(catalogue[j]) : catalogue'[j][v] = catalogue[j][v]
  <2> HIDE DEF e
  <2>1. catalogue[j] \in Seq(Versions)
    BY DEF DataInv
  <2>2. catalogue'[j] = IF j = i THEN Append(catalogue[j], e) ELSE catalogue[j]
    BY <1>2 DEF DataInv
  <2> QED BY <1>1, <2>1, <2>2
<1> QED BY <1>2, <1>3 DEF DataInv, Grows

-----------------------------------------------------------------------------
(* What the phases of a sync do to its rows.                                *)

\* AfterStaging moves a sync on, and leaves its rows alone.
LEMMA AfterStagingKeeps ==
    ASSUME NEW s, IsSync(s)
    PROVE  LET t == AfterStaging(s)
           IN  /\ IsSync(t)
               /\ t.products = s.products /\ t.offers = s.offers /\ t.reading = s.reading
               /\ t.phase = "stage products" => t.products # <<>>
               /\ t.phase = "stage offers" => t.offers # <<>>
               /\ t # s => t.phase # "stage products"
<1> USE DEF IsSync, SyncRecords, Phases
<1> DEFINE offers == AfterProducts(s)
<1>1. /\ IsSync(offers)
      /\ offers.products = s.products /\ offers.offers = s.offers /\ offers.reading = s.reading
      /\ offers.phase \in {"offers", "watermark"}
  BY DEF AfterProducts
<1>2. CASE s.phase = "stage products" /\ s.products = <<>>
  <2>1. CASE s.since # NoTime
    BY <1>2, <2>1 DEF AfterStaging
  <2>2. CASE s.since = NoTime /\ s.more
    BY <1>2, <2>2 DEF AfterStaging
  <2>3. CASE s.since = NoTime /\ ~s.more
    <3> HIDE DEF IsSync
    <3>1. AfterStaging(s) = offers
      BY <1>2, <2>3 DEF AfterStaging
    <3> QED BY <1>1, <3>1
  <2> QED BY <2>1, <2>2, <2>3
<1>3. CASE s.phase = "stage offers" /\ s.offers = <<>>
  BY <1>3 DEF AfterStaging
<1>4. CASE ~(s.phase = "stage products" /\ s.products = <<>>) /\ ~(s.phase = "stage offers" /\ s.offers = <<>>)
  BY <1>4 DEF AfterStaging
<1> QED BY <1>2, <1>3, <1>4

\* StageDelta may drop the offers, all of them.
LEMMA StageDeltaKeeps ==
    ASSUME NEW s, IsSync(s)
    PROVE  LET t == StageDelta(s)
           IN  /\ IsSync(t)
               /\ t.products = s.products /\ t.offers \in {s.offers, <<>>} /\ t.reading = s.reading
               /\ t.phase = "stage products" => t.products # <<>>
               /\ t.phase = "stage offers" => t.offers # <<>>
<1> DEFINE u == [s EXCEPT !.phase = IF "products" \in s.kind THEN "stage products"
                                    ELSE "stage offers",
                          !.offers = IF "offers" \in s.kind THEN @ ELSE <<>>]
<1>1. /\ IsSync(u)
      /\ u.products = s.products /\ u.offers \in {s.offers, <<>>} /\ u.reading = s.reading
  <2>1. s.offers \in Seq(SUBSET Rows) /\ <<>> \in Seq(SUBSET Rows)
    BY DEF IsSync, SyncRecords
  <2>2. PICK p \in Phases, o \in {s.offers, <<>>} : u = [s EXCEPT !.phase = p, !.offers = o]
    BY DEF Phases
  <2>3. u \in SyncRecords({s.kind}, {s.mode})
    BY <2>1, <2>2 DEF IsSync, SyncRecords
  <2>4. u.kind = s.kind /\ u.mode = s.mode
    BY <2>2 DEF IsSync, SyncRecords
  <2> QED BY <2>2, <2>3, <2>4 DEF IsSync, SyncRecords
<1>2. StageDelta(s) = AfterStaging(u)
  BY DEF StageDelta
<1> HIDE DEF u
<1> QED BY <1>1, <1>2, AfterStagingKeeps

\* A page of what the supplier lists, as it is now.
LEMMA RowsAreFetched ==
    ASSUME DataInv, NEW items \in SUBSET Sold
    PROVE  /\ RowsOf(items) \in SUBSET Rows
           /\ \A r \in RowsOf(items) : r.version = Len(catalogue[r.item])
<1> SUFFICES ASSUME NEW i \in items
             PROVE  /\ [item |-> i, version |-> Latest(i)] \in Rows
                    /\ Latest(i) = Len(catalogue[i])
  BY DEF RowsOf
<1>1. i \in Items /\ Latest(i) > 0 /\ Latest(i) = Len(catalogue[i]) /\ catalogue[i] \in Seq(Versions)
  BY DEF Sold, Listed, Latest, DataInv
<1> QED BY <1>1 DEF Rows

\* With adds a page at the end.
LEMMA WithAdds ==
    ASSUME NEW pages \in Seq(SUBSET Rows), NEW rows \in SUBSET Rows
    PROVE  LET new == With(pages, rows)
           IN  /\ new \in Seq(SUBSET Rows)
               /\ \A n \in DOMAIN new :
                     \/ n \in DOMAIN pages /\ new[n] = pages[n]
                     \/ n = Len(pages) + 1 /\ new[n] = rows
BY DEF With

\* Without keeps the order of the rows it leaves.
LEMMA WithoutKeeps ==
    ASSUME NEW pages \in Seq(SUBSET Rows), pages # <<>>, NEW r
    PROVE  LET new == Without(pages, r)
               k == IF Head(pages) = {r} THEN 1 ELSE 0
           IN  /\ new \in Seq(SUBSET Rows)
               /\ \A n \in DOMAIN new : n + k \in DOMAIN pages /\ new[n] \subseteq pages[n + k]
<1>1. CASE Head(pages) = {r}
  BY <1>1 DEF Without
<1>2. CASE Head(pages) # {r}
  BY <1>2 DEF Without
<1> QED BY <1>1, <1>2

\* What a sync has fetched stays good to be staged whatever phase comes next.
LEMMA StagingIsOK ==
    ASSUME NEW s, NEW c, NEW id, IsSync(s), s.reading = NotReading,
           Fetched(s.products, c), Fetched(s.offers, c), Usable(s.offers, c)
    PROVE  /\ SyncOK(AfterStaging(s), c, id) /\ SyncOK(StageDelta(s), c, id)
           /\ AfterStaging(s).offers = s.offers /\ StageDelta(s).offers \in {s.offers, <<>>}
           /\ AfterStaging(s).reading = NotReading /\ StageDelta(s).reading = NotReading
<1>1. Fetched(<<>>, c) /\ Usable(<<>>, c)
  BY DEF Fetched, Usable
<1> QED BY <1>1, AfterStagingKeeps, StageDeltaKeeps DEF SyncOK, ReadingOK

LEMMA PagesAdd ==
    ASSUME NEW pages \in Seq(SUBSET Rows), NEW rows \in SUBSET Rows, NEW c, Fetched(pages, c),
           \A r \in rows : r.version <= Len(c[r.item])
    PROVE  LET new == With(pages, rows)
           IN  /\ Fetched(new, c)
               /\ /\ Usable(pages, c)
                  /\ \A r \in rows : c[r.item][r.version].price \in Prices
                  => Usable(new, c)
<1> DEFINE new == With(pages, rows)
<1>1. \A n \in DOMAIN new : \/ n \in DOMAIN pages /\ new[n] = pages[n]
                            \/ new[n] = rows
  BY WithAdds
<1> HIDE DEF new
<1>2. Fetched(new, c)
  BY <1>1 DEF Fetched
<1>3. Usable(pages, c) /\ (\A r \in rows : c[r.item][r.version].price \in Prices) => Usable(new, c)
  BY <1>1 DEF Usable
<1> QED BY <1>2, <1>3 DEF new

LEMMA PagesWithout ==
    ASSUME NEW pages \in Seq(SUBSET Rows), pages # <<>>, NEW r, NEW c
    PROVE  LET new == Without(pages, r)
           IN  /\ Fetched(pages, c) => Fetched(new, c)
               /\ Usable(pages, c) => Usable(new, c)
<1> DEFINE new == Without(pages, r)
           k == IF Head(pages) = {r} THEN 1 ELSE 0
<1>1. \A n \in DOMAIN new : n + k \in DOMAIN pages /\ new[n] \subseteq pages[n + k]
  BY WithoutKeeps
<1> HIDE DEF new, k
<1>2. Fetched(pages, c) => Fetched(new, c)
  BY <1>1 DEF Fetched
<1>3. Usable(pages, c) => Usable(new, c)
  BY <1>1 DEF Usable
<1> QED BY <1>2, <1>3 DEF new

LEMMA PagesAreSold ==
    ASSUME DataInv, NEW n
    PROVE  Page(Sold, n) \in SUBSET Sold /\ Sold \in SUBSET Items
BY DEF Page, Sold

-----------------------------------------------------------------------------
(* The steps of a sync that fetch: they write nothing.                      *)

\* Where a worker's sync ends up, and that it is the only one to move.
Moves(w) == sync' = [sync EXCEPT ![w] = sync'[w]]

LEMMA MovesTo ==
    ASSUME DataInv, NEW w \in Workers, NEW t, sync' = [sync EXCEPT ![w] = t]
    PROVE  Moves(w) /\ sync'[w] = t
BY DEF DataInv, Moves

LEMMA BusyIsOK ==
    ASSUME IInv, NEW w \in Workers, sync[w].phase \in Phases
    PROVE  /\ SyncOK(sync[w], catalogue, identity)
           /\ sync[w] # Idle
           /\ sync[w].phase \notin {"stage products", "stage offers"} => sync[w].reading = NotReading
<1>1. sync[w] # Idle
  <2>1. Idle.phase = "idle"
    BY DEF Idle
  <2>2. "idle" \notin Phases
    BY DEF Phases
  <2> QED BY <2>1, <2>2
<1> QED BY <1>1 DEF IInv, WorkInv, SyncOK, ReadingOK

LEMMA ReadWatermarkStep ==
    ASSUME IInv, NEW w \in Workers, ReadWatermark(w)
    PROVE  /\ Moves(w) /\ SyncOK(sync'[w], catalogue, identity)
           /\ Follows(sync[w], sync'[w], catalogue, lastPrice)
<1> DEFINE s == sync[w]
           since == IF s.mode = "delta" THEN watermark ELSE NoTime
           t == [s EXCEPT !.phase = "deltas", !.since = since]
           p == [s EXCEPT !.phase = "products"]
<1>1. SyncOK(s, catalogue, identity) /\ s.reading = NotReading
  BY BusyIsOK DEF ReadWatermark, Phases
<1>2. sync' = [sync EXCEPT ![w] = IF since # NoTime THEN t
                                  ELSE IF "products" \in s.kind THEN p ELSE AfterProducts(s)]
  BY DEF ReadWatermark
<1>3. since \in Nat \cup {NoTime}
  BY DEF IInv, DataInv
<1>4. /\ IsSync(t) /\ t.products = s.products /\ t.offers = s.offers /\ t.reading = s.reading
      /\ t.phase = "deltas"
  <2> HIDE DEF since
  <2> QED BY <1>1, <1>3 DEF SyncOK, IsSync, SyncRecords, Phases
<1>5. /\ IsSync(p) /\ p.products = s.products /\ p.offers = s.offers /\ p.reading = s.reading
      /\ p.phase = "products"
  BY <1>1 DEF SyncOK, IsSync, SyncRecords, Phases
<1>6. /\ IsSync(AfterProducts(s))
      /\ AfterProducts(s).products = s.products /\ AfterProducts(s).offers = s.offers
      /\ AfterProducts(s).reading = s.reading
      /\ AfterProducts(s).phase \in {"offers", "watermark"}
  BY <1>1 DEF SyncOK, IsSync, SyncRecords, Phases, AfterProducts
<1> HIDE DEF t, p, since, s
<1>7. SyncOK(t, catalogue, identity) /\ SyncOK(p, catalogue, identity)
      /\ SyncOK(AfterProducts(s), catalogue, identity)
  BY <1>1, <1>4, <1>5, <1>6 DEF SyncOK, ReadingOK
<1>8. /\ Follows(s, t, catalogue, lastPrice) /\ Follows(s, p, catalogue, lastPrice)
      /\ Follows(s, AfterProducts(s), catalogue, lastPrice)
  BY <1>1, <1>4, <1>5, <1>6 DEF Follows
<1> QED BY <1>2, <1>7, <1>8, MovesTo DEF IInv, s

\* The rows of a page of the supplier's list, and those of them with a price, can be kept.
LEMMA PageIsGood ==
    ASSUME DataInv, NEW items \in SUBSET Sold
    PROVE  /\ RowsOf(items) \in SUBSET Rows /\ Priced(RowsOf(items)) \in SUBSET Rows
           /\ \A r \in RowsOf(items) : r.version <= Len(catalogue[r.item])
           /\ \A r \in Priced(RowsOf(items)) :
                 /\ r.version <= Len(catalogue[r.item]) /\ r.version = Len(catalogue[r.item])
                 /\ catalogue[r.item][r.version].price \in Prices
<1>1. ASSUME NEW r \in RowsOf(items)
      PROVE  /\ r \in Rows /\ r.version <= Len(catalogue[r.item])
             /\ r.version = Len(catalogue[r.item])
  <2>1. r \in Rows /\ r.version = Len(catalogue[r.item])
    BY RowsAreFetched
  <2>2. r.version \in Nat
    BY <2>1 DEF Rows
  <2> QED BY <2>1, <2>2
<1> QED BY <1>1 DEF Priced, Price

LEMMA FetchProductsStep ==
    ASSUME IInv, NEW w \in Workers, FetchProducts(w)
    PROVE  /\ Moves(w) /\ SyncOK(sync'[w], catalogue, identity)
           /\ Follows(sync[w], sync'[w], catalogue, lastPrice)
<1> DEFINE s == sync[w]
           page == Page(Sold, s.offset)
           pages == With(<<>>, RowsOf(page))
           more == Cardinality(page) = PageSize
           t == [s EXCEPT !.phase = "stage products", !.products = pages,
                          !.offset = @ + PageSize, !.more = more]
<1>1. SyncOK(s, catalogue, identity) /\ s.reading = NotReading
  BY BusyIsOK DEF FetchProducts, Phases
<1>2. sync' = [sync EXCEPT ![w] = AfterStaging(t)]
  BY DEF FetchProducts
<1>3. page \in SUBSET Sold
  BY PagesAreSold DEF IInv
<1>4. /\ RowsOf(page) \in SUBSET Rows
      /\ \A r \in RowsOf(page) : r.version <= Len(catalogue[r.item])
  BY <1>3, PageIsGood DEF IInv
<1>5. Fetched(<<>>, catalogue) /\ <<>> \in Seq(SUBSET Rows)
  BY DEF Fetched
<1> HIDE DEF page
<1>6. pages \in Seq(SUBSET Rows) /\ Fetched(pages, catalogue)
  BY <1>4, <1>5, WithAdds, PagesAdd
<1> HIDE DEF pages, more
<1>7. more \in BOOLEAN
  BY DEF more
<1>8. IsSync(t) /\ t.products = pages /\ t.offers = s.offers /\ t.reading = s.reading
  <2>1. s.offset + PageSize \in Nat
    <3>1. PageSize \in Nat
      BY SupplierAssumption
    <3>2. s.offset \in Nat
      BY <1>1 DEF SyncOK, IsSync, SyncRecords
    <3> QED BY <3>1, <3>2
  <2> HIDE DEF s
  <2>2. t \in SyncRecords({s.kind}, {s.mode})
    BY <1>1, <1>6, <1>7, <2>1 DEF SyncOK, IsSync, SyncRecords, Phases
  <2>3. t.kind = s.kind /\ t.mode = s.mode /\ t.products = pages /\ t.offers = s.offers /\ t.reading = s.reading
    BY <1>1 DEF SyncOK, IsSync, SyncRecords
  <2> QED BY <2>2, <2>3 DEF IsSync
<1> HIDE DEF t
<1>9. SyncOK(AfterStaging(t), catalogue, identity) /\ Follows(s, AfterStaging(t), catalogue, lastPrice)
  BY <1>1, <1>6, <1>8, StagingIsOK DEF SyncOK, Follows
<1> QED BY <1>2, <1>9, MovesTo DEF IInv

LEMMA FetchOffersStep ==
    ASSUME IInv, NEW w \in Workers, FetchOffers(w)
    PROVE  /\ Moves(w) /\ SyncOK(sync'[w], catalogue, identity)
           /\ Follows(sync[w], sync'[w], catalogue, lastPrice)
<1> DEFINE s == sync[w]
           page == Page(Sold, s.offset)
           pages == With(s.offers, Priced(RowsOf(page)))
           f == [s EXCEPT !.offset = @ + PageSize, !.offers = pages]
           t == [f EXCEPT !.phase = "stage offers"]
<1>1. SyncOK(s, catalogue, identity) /\ s.reading = NotReading /\ s.phase = "offers"
  BY BusyIsOK DEF FetchOffers, Phases
<1>2. sync' = [sync EXCEPT ![w] = IF Cardinality(page) = PageSize THEN f ELSE AfterStaging(t)]
  BY DEF FetchOffers
<1>3. page \in SUBSET Sold
  BY PagesAreSold DEF IInv
<1>4. /\ Priced(RowsOf(page)) \in SUBSET Rows
      /\ \A r \in Priced(RowsOf(page)) :
            /\ r.version <= Len(catalogue[r.item]) /\ r.version = Len(catalogue[r.item])
            /\ catalogue[r.item][r.version].price \in Prices
  BY <1>3, PageIsGood DEF IInv
<1>5. s.offers \in Seq(SUBSET Rows) /\ Fetched(s.offers, catalogue) /\ Usable(s.offers, catalogue)
  BY <1>1 DEF SyncOK, IsSync, SyncRecords
<1> HIDE DEF page
<1>6. pages \in Seq(SUBSET Rows) /\ Fetched(pages, catalogue) /\ Usable(pages, catalogue)
  BY <1>4, <1>5, WithAdds, PagesAdd
<1>11. \E rows \in SUBSET Rows :
          pages = With(s.offers, rows) /\ \A r \in rows : r.version = Len(catalogue[r.item])
  BY <1>4
<1> HIDE DEF pages
<1>7. /\ IsSync(f) /\ f.products = s.products /\ f.offers = pages /\ f.reading = s.reading
      /\ f.phase = s.phase
  <2>1. s.offset + PageSize \in Nat
    <3>1. PageSize \in Nat
      BY SupplierAssumption
    <3>2. s.offset \in Nat
      BY <1>1 DEF SyncOK, IsSync, SyncRecords
    <3> QED BY <3>1, <3>2
  <2> QED BY <1>1, <1>6, <2>1 DEF SyncOK, IsSync, SyncRecords
<1> HIDE DEF f
<1>8. IsSync(t) /\ t.products = f.products /\ t.offers = f.offers /\ t.reading = f.reading
  BY <1>7 DEF IsSync, SyncRecords, Phases
<1> HIDE DEF t
<1>9. SyncOK(AfterStaging(t), catalogue, identity) /\ Follows(s, AfterStaging(t), catalogue, lastPrice)
  BY <1>1, <1>6, <1>7, <1>8, <1>11, StagingIsOK DEF SyncOK, Follows
<1>10. SyncOK(f, catalogue, identity) /\ Follows(s, f, catalogue, lastPrice)
  BY <1>1, <1>6, <1>7, <1>11 DEF SyncOK, ReadingOK, Follows
<1> QED BY <1>2, <1>9, <1>10, MovesTo DEF IInv

LEMMA FetchDeltasStep ==
    ASSUME IInv, NEW w \in Workers, FetchDeltas(w)
    PROVE  /\ Moves(w) /\ SyncOK(sync'[w], catalogue, identity)
           /\ Follows(sync[w], sync'[w], catalogue, lastPrice)
<1> DEFINE s == sync[w]
           page == Page(ModifiedSince(s.since), s.offset)
           more == Cardinality(page) = PageSize
           f == [s EXCEPT !.offset = @ + PageSize, !.ids = page, !.more = more]
           t == [f EXCEPT !.phase = "items"]
<1>1. SyncOK(s, catalogue, identity) /\ s.reading = NotReading
  BY BusyIsOK DEF FetchDeltas, Phases
<1>2. sync' = [sync EXCEPT ![w] = IF page = {} THEN StageDelta(f) ELSE t]
  BY DEF FetchDeltas
<1>3. page \in SUBSET Items
  BY DEF Page, ModifiedSince, Sold
<1>4. more \in BOOLEAN
  OBVIOUS
<1> HIDE DEF page, more
<1>5. IsSync(f) /\ f.products = s.products /\ f.offers = s.offers /\ f.reading = s.reading
  <2>1. s.offset + PageSize \in Nat
    <3>1. PageSize \in Nat
      BY SupplierAssumption
    <3>2. s.offset \in Nat
      BY <1>1 DEF SyncOK, IsSync, SyncRecords
    <3> QED BY <3>1, <3>2
  <2> HIDE DEF s
  <2>2. f \in SyncRecords({s.kind}, {s.mode})
    BY <1>1, <1>3, <1>4, <2>1 DEF SyncOK, IsSync, SyncRecords
  <2>3. f.kind = s.kind /\ f.mode = s.mode /\ f.products = s.products /\ f.offers = s.offers /\ f.reading = s.reading
    BY <1>1 DEF SyncOK, IsSync, SyncRecords
  <2> QED BY <2>2, <2>3 DEF IsSync
<1> HIDE DEF f
<1>6. SyncOK(StageDelta(f), catalogue, identity) /\ Follows(s, StageDelta(f), catalogue, lastPrice)
  BY <1>1, <1>5, StagingIsOK DEF SyncOK, Follows
<1>7. /\ IsSync(t) /\ t.products = f.products /\ t.offers = f.offers /\ t.reading = f.reading
      /\ t.phase = "items"
  BY <1>5 DEF IsSync, SyncRecords, Phases
<1> HIDE DEF t
<1>8. SyncOK(t, catalogue, identity) /\ Follows(s, t, catalogue, lastPrice)
  BY <1>1, <1>5, <1>7 DEF SyncOK, ReadingOK, Follows
<1> QED BY <1>2, <1>6, <1>8, MovesTo DEF IInv

LEMMA FetchDeltaItemStep ==
    ASSUME IInv, NEW w \in Workers, FetchDeltaItem(w)
    PROVE  /\ Moves(w) /\ SyncOK(sync'[w], catalogue, identity)
           /\ Follows(sync[w], sync'[w], catalogue, lastPrice)
<1> DEFINE s == sync[w]
<1>1. SyncOK(s, catalogue, identity) /\ s.reading = NotReading /\ s.phase = "items"
  BY BusyIsOK DEF FetchDeltaItem, Phases
<1>2. /\ s.products \in Seq(SUBSET Rows) /\ s.offers \in Seq(SUBSET Rows)
      /\ s.ids \in SUBSET Items
      /\ Fetched(s.products, catalogue) /\ Fetched(s.offers, catalogue) /\ Usable(s.offers, catalogue)
  BY <1>1 DEF SyncOK, IsSync, SyncRecords
<1>3. PICK i \in s.ids :
        LET row == [item |-> i, version |-> Latest(i)]
            f == [s EXCEPT !.ids = @ \ {i}, !.products = Append(@, {row}),
                           !.offers = With(@, Priced({row}))]
        IN  /\ Listed(i)
            /\ sync' = [sync EXCEPT ![w] =
                          CASE f.ids # {} -> f
                            [] f.ids = {} /\ s.more -> [f EXCEPT !.phase = "deltas"]
                            [] OTHER -> StageDelta(f)]
  BY DEF FetchDeltaItem
<1> DEFINE row == [item |-> i, version |-> Latest(i)]
           products == Append(s.products, {row})
           offers == With(s.offers, Priced({row}))
           f == [s EXCEPT !.ids = @ \ {i}, !.products = products, !.offers = offers]
           t == [f EXCEPT !.phase = "deltas"]
<1>4. {i} \in SUBSET Sold /\ RowsOf({i}) = {row}
  BY <1>2, <1>3 DEF Sold, RowsOf
<1>5. /\ {row} \in SUBSET Rows /\ Priced({row}) \in SUBSET Rows
      /\ \A r \in {row} : r.version <= Len(catalogue[r.item])
      /\ \A r \in Priced({row}) :
            /\ r.version <= Len(catalogue[r.item]) /\ r.version = Len(catalogue[r.item])
            /\ catalogue[r.item][r.version].price \in Prices
  BY <1>4, PageIsGood DEF IInv
<1>6. sync' = [sync EXCEPT ![w] =
                 CASE f.ids # {} -> f [] f.ids = {} /\ s.more -> t [] OTHER -> StageDelta(f)]
  BY <1>3
<1> HIDE DEF row
<1>7. products = With(s.products, {row})
  BY DEF With
<1>8. /\ products \in Seq(SUBSET Rows) /\ Fetched(products, catalogue)
      /\ offers \in Seq(SUBSET Rows) /\ Fetched(offers, catalogue) /\ Usable(offers, catalogue)
  <2> HIDE DEF products
  <2> QED BY <1>2, <1>5, <1>7, WithAdds, PagesAdd
<1>12. \E rows \in SUBSET Rows :
          offers = With(s.offers, rows) /\ \A r \in rows : r.version = Len(catalogue[r.item])
  BY <1>5
<1> HIDE DEF products, offers
<1>9. /\ IsSync(f) /\ f.products = products /\ f.offers = offers /\ f.reading = s.reading
      /\ f.phase = s.phase
  BY <1>1, <1>2, <1>8 DEF SyncOK, IsSync, SyncRecords
<1> HIDE DEF f
<1>10. /\ IsSync(t) /\ t.products = f.products /\ t.offers = f.offers /\ t.reading = f.reading
       /\ t.phase = "deltas"
  BY <1>9 DEF IsSync, SyncRecords, Phases
<1> HIDE DEF t
<1>11. /\ SyncOK(StageDelta(f), catalogue, identity) /\ SyncOK(f, catalogue, identity)
       /\ SyncOK(t, catalogue, identity)
  BY <1>1, <1>8, <1>9, <1>10, StagingIsOK DEF SyncOK, ReadingOK
<1>13. /\ Follows(s, StageDelta(f), catalogue, lastPrice) /\ Follows(s, f, catalogue, lastPrice)
       /\ Follows(s, t, catalogue, lastPrice)
  BY <1>1, <1>8, <1>9, <1>10, <1>12, StagingIsOK DEF Follows
<1> QED BY <1>6, <1>11, <1>13, MovesTo DEF IInv

-----------------------------------------------------------------------------
(* The steps of a sync that stage.                                          *)

\* A sync that has read the row r of the first page of what it stages.
LEMMA ReadingStarts ==
    ASSUME NEW s, NEW c, NEW id, SyncOK(s, c, id), NEW r \in Rows, NEW v,
           \/ /\ s.phase = "stage products" /\ r \in Head(s.products) /\ v \in BOOLEAN
              /\ v = FALSE \/ r.item \in id
           \/ /\ s.phase = "stage offers" /\ r \in Head(s.offers) /\ v \in Prices \cup {NoPrice}
              /\ r.item \in id
    PROVE  SyncOK([s EXCEPT !.reading = [row |-> r, read |-> v]], c, id)
<1> DEFINE x == [row |-> r, read |-> v]
           t == [s EXCEPT !.reading = x]
<1>1. x \in Readings /\ x.row = r /\ x.read = v
  BY DEF Readings
<1>2. \/ x \in [row : Rows, read : BOOLEAN] /\ v \in BOOLEAN
      \/ x \in [row : Rows, read : Prices \cup {NoPrice}] /\ v \in Prices \cup {NoPrice}
  OBVIOUS
<1>3. /\ s.phase = "stage products" => x \in [row : Rows, read : BOOLEAN]
      /\ s.phase = "stage offers" => x \in [row : Rows, read : Prices \cup {NoPrice}]
  OBVIOUS
<1> HIDE DEF x
<1>4. /\ t.kind = s.kind /\ t.mode = s.mode /\ t.phase = s.phase
      /\ t.products = s.products /\ t.offers = s.offers /\ t.reading = x
  BY DEF SyncOK, IsSync, SyncRecords
<1>5. t \in SyncRecords({s.kind}, {s.mode})
  BY <1>1 DEF SyncOK, IsSync, SyncRecords
<1> HIDE DEF t
<1>6. IsSync(t)
  BY <1>4, <1>5 DEF IsSync
<1>7. ReadingOK(t, id)
  BY <1>1, <1>3, <1>4 DEF ReadingOK
<1>8. SyncOK(t, c, id)
  BY <1>4, <1>6, <1>7 DEF SyncOK
<1> QED BY <1>8 DEF t, x

\* An offer taken off what is to be staged.
LEMMA OfferIsTaken ==
    ASSUME NEW s, NEW c, NEW id, SyncOK(s, c, id), s.phase = "stage offers", NEW r,
           NEW t, IsSync(t), t.products = s.products, t.offers = Without(s.offers, r),
           t.reading = NotReading
    PROVE  /\ SyncOK(AfterStaging(t), c, id)
           /\ AfterStaging(t).offers = Without(s.offers, r) /\ AfterStaging(t).reading = NotReading
<1>1. s.offers \in Seq(SUBSET Rows)
  BY DEF SyncOK, IsSync, SyncRecords
<1>2. Fetched(t.offers, c) /\ Usable(t.offers, c)
  BY <1>1, PagesWithout DEF SyncOK
<1> QED BY <1>2, StagingIsOK DEF SyncOK

\* The same, and a product, once its row has been staged.
LEMMA RowIsTaken ==
    ASSUME NEW s, NEW c, NEW id, SyncOK(s, c, id), NEW r
    PROVE  /\ s.phase = "stage products" =>
                 LET t == AfterStaging([s EXCEPT !.reading = NotReading,
                                                 !.products = Without(@, r)])
                 IN  SyncOK(t, c, id) /\ t.offers = s.offers /\ t.reading = NotReading
           /\ s.phase = "stage offers" =>
                 LET t == AfterStaging([s EXCEPT !.reading = NotReading,
                                                 !.offers = Without(@, r)])
                 IN  /\ SyncOK(t, c, id) /\ t.offers = Without(s.offers, r)
                     /\ t.reading = NotReading
<1>1. s.products \in Seq(SUBSET Rows) /\ s.offers \in Seq(SUBSET Rows)
  BY DEF SyncOK, IsSync, SyncRecords
<1>2. CASE s.phase = "stage products"
  <2> DEFINE left == Without(s.products, r)
             t == [s EXCEPT !.reading = NotReading, !.products = left]
  <2>1. left \in Seq(SUBSET Rows) /\ Fetched(left, c)
    BY <1>1, <1>2, WithoutKeeps, PagesWithout DEF SyncOK
  <2> HIDE DEF left
  <2>2. /\ t.kind = s.kind /\ t.mode = s.mode
        /\ t.products = left /\ t.offers = s.offers /\ t.reading = NotReading
    BY DEF SyncOK, IsSync, SyncRecords
  <2>3. t \in SyncRecords({s.kind}, {s.mode})
    BY <2>1 DEF SyncOK, IsSync, SyncRecords
  <2> HIDE DEF t
  <2>4. /\ SyncOK(AfterStaging(t), c, id)
        /\ AfterStaging(t).offers = s.offers /\ AfterStaging(t).reading = NotReading
    BY <2>1, <2>2, <2>3, StagingIsOK DEF SyncOK, IsSync
  <2> QED BY <1>2, <2>4 DEF t, left
<1>3. CASE s.phase = "stage offers"
  <2> DEFINE t == [s EXCEPT !.reading = NotReading, !.offers = Without(@, r)]
  <2>1. /\ t.kind = s.kind /\ t.mode = s.mode /\ t.phase = s.phase
        /\ t.products = s.products /\ t.offers = Without(s.offers, r) /\ t.reading = NotReading
    BY DEF SyncOK, IsSync, SyncRecords
  <2>2. Without(s.offers, r) \in Seq(SUBSET Rows)
    BY <1>1, <1>3, WithoutKeeps DEF SyncOK
  <2>3. t \in SyncRecords({s.kind}, {s.mode})
    BY <2>2 DEF SyncOK, IsSync, SyncRecords
  <2> HIDE DEF t
  <2>4. /\ SyncOK(AfterStaging(t), c, id)
        /\ AfterStaging(t).offers = Without(s.offers, r) /\ AfterStaging(t).reading = NotReading
    BY <1>3, <2>1, <2>3, OfferIsTaken DEF IsSync
  <2> QED BY <1>3, <2>4 DEF t
<1> QED BY <1>2, <1>3

LEMMA ResolveProductStep ==
    ASSUME IInv, NEW w \in Workers, ResolveProduct(w)
    PROVE  /\ Moves(w) /\ SyncOK(sync'[w], catalogue, identity)
           /\ Follows(sync[w], sync'[w], catalogue, lastPrice)
<1> DEFINE s == sync[w]
<1>1. SyncOK(s, catalogue, identity) /\ s.phase = "stage products"
  BY BusyIsOK DEF ResolveProduct, Phases
<1>2. PICK r \in Head(s.products) :
        sync' = [sync EXCEPT ![w].reading = [row |-> r, read |-> r.item \in identity]]
  BY DEF ResolveProduct
<1> DEFINE v == r.item \in identity
           t == [s EXCEPT !.reading = [row |-> r, read |-> v]]
<1>3. r \in Rows
  <2>1. s.products \in Seq(SUBSET Rows) /\ s.products # <<>>
    BY <1>1 DEF SyncOK, IsSync, SyncRecords
  <2> QED BY <1>2, <2>1
<1>4. v \in BOOLEAN
  <2>1. \A x, S : (x \in S) \in BOOLEAN
    OBVIOUS
  <2> QED BY <2>1
<1>5. v = FALSE \/ r.item \in identity
  <2>1. \A x, S : (x \in S) = FALSE \/ x \in S
    OBVIOUS
  <2> QED BY <2>1
<1>6. sync' = [sync EXCEPT ![w] = t]
  BY <1>2, Zenon
<1> HIDE DEF v
<1>7. SyncOK(t, catalogue, identity) /\ t.offers = s.offers /\ t.phase = s.phase
  <2>1. SyncOK(t, catalogue, identity)
    BY <1>1, <1>2, <1>3, <1>4, <1>5, ReadingStarts
  <2>2. t.offers = s.offers /\ t.phase = s.phase
    BY <1>1 DEF SyncOK, IsSync, SyncRecords
  <2> QED BY <2>1, <2>2
<1> HIDE DEF t
<1>8. Follows(s, t, catalogue, lastPrice)
  BY <1>1, <1>7 DEF Follows
<1> QED BY <1>6, <1>7, <1>8, MovesTo DEF IInv

LEMMA ResolveOfferStep ==
    ASSUME IInv, NEW w \in Workers, ResolveOffer(w)
    PROVE  /\ Moves(w) /\ SyncOK(sync'[w], catalogue, identity)
           /\ Follows(sync[w], sync'[w], catalogue, lastPrice)
<1> DEFINE s == sync[w]
<1>1. SyncOK(s, catalogue, identity) /\ s.phase = "stage offers" /\ s.reading = NotReading
  BY BusyIsOK DEF ResolveOffer, Phases
<1>2. PICK r \in Head(s.offers) :
        sync' = [sync EXCEPT ![w] =
                   IF r.item \in identity
                   THEN [s EXCEPT !.reading = [row |-> r, read |-> lastPrice[r.item]]]
                   ELSE AfterStaging([s EXCEPT !.offers = Without(@, r)])]
  BY DEF ResolveOffer
<1>3. r \in Rows /\ lastPrice[r.item] \in Prices \cup {NoPrice}
  <2>1. s.offers \in Seq(SUBSET Rows) /\ s.offers # <<>>
    BY <1>1 DEF SyncOK, IsSync, SyncRecords
  <2>2. r \in Rows
    BY <1>2, <2>1
  <2> QED BY <2>2 DEF Rows, IInv, DataInv
<1>4. CASE r.item \in identity
  <2> DEFINE t == [s EXCEPT !.reading = [row |-> r, read |-> lastPrice[r.item]]]
  <2>1. /\ SyncOK(t, catalogue, identity) /\ t.offers = s.offers
        /\ t.reading.row = r /\ t.reading.read = lastPrice[r.item]
    <3>1. SyncOK(t, catalogue, identity)
      BY <1>1, <1>2, <1>3, <1>4, ReadingStarts
    <3>2. t.offers = s.offers /\ t.reading = [row |-> r, read |-> lastPrice[r.item]]
      BY <1>1 DEF SyncOK, IsSync, SyncRecords
    <3> QED BY <3>1, <3>2
  <2>2. sync' = [sync EXCEPT ![w] = t]
    BY <1>2, <1>4
  <2> HIDE DEF t
  <2>3. Follows(s, t, catalogue, lastPrice)
    BY <2>1 DEF Follows
  <2> QED BY <2>1, <2>2, <2>3, MovesTo DEF IInv
<1>5. CASE r.item \notin identity
  <2> DEFINE t == [s EXCEPT !.offers = Without(@, r)]
  <2>1. /\ t.kind = s.kind /\ t.mode = s.mode /\ t.reading = NotReading
        /\ t.products = s.products /\ t.offers = Without(s.offers, r)
    BY <1>1 DEF SyncOK, IsSync, SyncRecords
  <2>2. Without(s.offers, r) \in Seq(SUBSET Rows)
    BY <1>1, WithoutKeeps DEF SyncOK, IsSync, SyncRecords
  <2>3. t \in SyncRecords({s.kind}, {s.mode})
    BY <1>1, <2>2 DEF SyncOK, IsSync, SyncRecords
  <2>4. sync' = [sync EXCEPT ![w] = AfterStaging(t)]
    BY <1>2, <1>5
  <2> HIDE DEF t
  <2>5. /\ SyncOK(AfterStaging(t), catalogue, identity)
        /\ AfterStaging(t).offers = Without(s.offers, r) /\ AfterStaging(t).reading = NotReading
    <3>1. IsSync(t)
      BY <2>1, <2>3 DEF IsSync
    <3> HIDE DEF s
    <3> QED BY <1>1, <2>1, <3>1, OfferIsTaken
  <2>6. Follows(s, AfterStaging(t), catalogue, lastPrice)
    BY <1>1, <1>3, <2>5 DEF Follows, SyncOK
  <2> QED BY <2>4, <2>5, <2>6, MovesTo DEF IInv
<1> QED BY <1>4, <1>5

-----------------------------------------------------------------------------
(* The invariant.                                                           *)

LEMMA OthersKeep ==
    ASSUME IInv, NEW w \in Workers, Moves(w), catalogue' = catalogue, identity \subseteq identity',
           sync'[w] = Idle \/ SyncOK(sync'[w], catalogue, identity')
    PROVE  sync' = [v \in Workers |-> sync'[v]] /\ WorkInv'
<1>1. sync' = [v \in Workers |-> sync'[v]] /\ \A v \in Workers \ {w} : sync'[v] = sync[v]
  BY DEF IInv, DataInv, Moves
<1>2. ASSUME NEW v \in Workers \ {w}, sync[v] # Idle
      PROVE  SyncOK(sync[v], catalogue, identity')
  <2>1. SyncOK(sync[v], catalogue, identity)
    BY <1>2 DEF IInv, WorkInv
  <2>2. Grows(catalogue, catalogue)
    BY DEF Grows, IInv, DataInv
  <2> QED BY <2>1, <2>2, SyncOKGrows
<1> QED BY <1>1, <1>2 DEF WorkInv

\* A step of one worker that writes nothing but its own sync.
LEMMA SyncMoves ==
    ASSUME IInv, NEW w \in Workers, Moves(w),
           sync'[w] = Idle \/ SyncOK(sync'[w], catalogue, identity),
           UNCHANGED <<now, catalogue, stagedVars>>, watermark' \in Nat \cup {NoTime}
    PROVE  IInv'
<1>1. sync' = [v \in Workers |-> sync'[v]] /\ WorkInv'
  BY OthersKeep DEF stagedVars
<1>2. DataInv' /\ EventInv' /\ MintedOnce'
  BY <1>1 DEF IInv, DataInv, EventInv, MintedOnce, Price, stagedVars
<1> QED BY <1>1, <1>2 DEF IInv

LEMMA StageProductStep ==
    ASSUME IInv, NEW w \in Workers, StageProduct(w), UNCHANGED <<now, catalogue>>
    PROVE  IInv'
<1> DEFINE s == sync[w]
           i == s.reading.row.item
           new == s.reading.read = FALSE
<1>1. SyncOK(s, catalogue, identity) /\ s.phase = "stage products" /\ s.reading # NotReading
  BY BusyIsOK DEF StageProduct, Phases
<1>2. /\ new => i \notin identity
      /\ identity' = identity \cup {i}
      /\ discovered' = [discovered EXCEPT ![i] = IF new THEN @ + 1 ELSE @]
      /\ sync' = [sync EXCEPT ![w] = AfterStaging([s EXCEPT !.reading = NotReading,
                                                  !.products = Without(@, s.reading.row)])]
      /\ UNCHANGED <<lastPrice, priceEvents, watermark>>
  BY DEF StageProduct
<1>3. i \in Items /\ (new \/ i \in identity)
  BY <1>1 DEF SyncOK, ReadingOK, Rows
<1>4. Moves(w) /\ SyncOK(sync'[w], catalogue, identity')
  <2> DEFINE t == AfterStaging([s EXCEPT !.reading = NotReading,
                                         !.products = Without(@, s.reading.row)])
  <2>1. SyncOK(t, catalogue, identity)
    BY <1>1, RowIsTaken
  <2>2. Grows(catalogue, catalogue) /\ identity \subseteq identity'
    BY <1>2 DEF Grows, IInv, DataInv
  <2>3. SyncOK(t, catalogue, identity')
    BY <2>1, <2>2, SyncOKGrows
  <2> QED BY <1>2, <2>3, MovesTo DEF IInv
<1>5. sync' = [v \in Workers |-> sync'[v]] /\ WorkInv'
  BY <1>2, <1>4, OthersKeep
<1> HIDE DEF i, new, s
<1>6. \A j \in Items : discovered'[j] = IF j \in identity' THEN 1 ELSE 0
  BY <1>2, <1>3 DEF IInv, DataInv, MintedOnce
<1>7. MintedOnce'
  BY <1>2, <1>6 DEF IInv, MintedOnce, Price
<1>8. DataInv' /\ EventInv'
  BY <1>2, <1>3, <1>5 DEF IInv, DataInv, EventInv
<1> QED BY <1>5, <1>7, <1>8 DEF IInv

\* What an offer that is read and its price event are made of.
LEMMA OfferIsRead ==
    ASSUME IInv, NEW w \in Workers, StageOffer(w)
    PROVE  LET s == sync[w]
               r == s.reading.row
               old == s.reading.read
           IN  /\ SyncOK(s, catalogue, identity) /\ s.phase = "stage offers"
               /\ r \in Rows /\ r.item \in identity /\ r.version <= Len(catalogue[r.item])
               /\ Price(r.item, r.version) \in Prices
               /\ old \in Prices \cup {NoPrice}
               /\ [old |-> old, version |-> r.version] \in PriceEvents
               /\ s.offers \in Seq(SUBSET Rows) /\ s.offers # <<>> /\ r \in s.offers[1]
<1> DEFINE s == sync[w]
           r == s.reading.row
<1>1. SyncOK(s, catalogue, identity) /\ s.phase = "stage offers" /\ s.reading # NotReading
  BY BusyIsOK DEF StageOffer, Phases
<1>2. /\ s.reading \in [row : Rows, read : Prices \cup {NoPrice}]
      /\ r \in Head(s.offers) /\ r.item \in identity
  BY <1>1 DEF SyncOK, ReadingOK
<1>3. s.offers \in Seq(SUBSET Rows) /\ s.offers # <<>>
  BY <1>1 DEF SyncOK, IsSync, SyncRecords
<1>4. 1 \in DOMAIN s.offers /\ Head(s.offers) = s.offers[1]
  BY <1>3
<1>5. r.version <= Len(catalogue[r.item]) /\ Price(r.item, r.version) \in Prices
  BY <1>1, <1>2, <1>4 DEF SyncOK, Fetched, Usable, Price
<1> QED BY <1>1, <1>2, <1>3, <1>4, <1>5 DEF Rows, PriceEvents

LEMMA LastOfAppend ==
    ASSUME NEW S, NEW q \in Seq(S), NEW e \in S
    PROVE  LET new == Append(q, e)
           IN  /\ new \in Seq(S) /\ new # <<>> /\ new[Len(new)] = e
               /\ \A n \in 1..Len(new) :
                     \/ n \in 1..Len(q) /\ new[n] = q[n]
                     \/ n = Len(q) + 1 /\ new[n] = e
OBVIOUS

\* The offer's row and its events, whichever of the two branches is taken.
LEMMA StageOfferStep ==
    ASSUME IInv, NEW w \in Workers, StageOffer(w), UNCHANGED <<now, catalogue>>
    PROVE  IInv'
<1> DEFINE s == sync[w]
           r == s.reading.row
           i == r.item
           old == s.reading.read
           price == Price(i, r.version)
           e == [old |-> old, version |-> r.version]
           t == AfterStaging([s EXCEPT !.reading = NotReading, !.offers = Without(@, r)])
<1>1. /\ SyncOK(s, catalogue, identity) /\ s.phase = "stage offers"
      /\ i \in identity /\ r.version <= Len(catalogue[i])
      /\ price \in Prices /\ e \in PriceEvents
  BY OfferIsRead
<1>2. /\ sync' = [sync EXCEPT ![w] = t]
      /\ UNCHANGED <<identity, discovered, watermark>>
      /\ \/ price = old /\ UNCHANGED <<lastPrice, priceEvents>>
         \/ /\ lastPrice' = [lastPrice EXCEPT ![i] = price]
            /\ priceEvents' = [priceEvents EXCEPT ![i] = Append(@, e)]
  BY DEF StageOffer
<1>3. Moves(w) /\ SyncOK(sync'[w], catalogue, identity')
  <2>1. SyncOK(t, catalogue, identity)
    BY <1>1, RowIsTaken
  <2> QED BY <1>2, <2>1, MovesTo DEF IInv
<1>4. sync' = [v \in Workers |-> sync'[v]] /\ WorkInv'
  BY <1>2, <1>3, OthersKeep
<1>5. i \in Items
  BY <1>1 DEF IInv, DataInv
<1>6. CASE price = old /\ UNCHANGED <<lastPrice, priceEvents>>
  <2>1. DataInv' /\ EventInv' /\ MintedOnce'
    BY <1>2, <1>4, <1>6 DEF IInv, DataInv, EventInv, MintedOnce, Price
  <2> QED BY <1>4, <2>1 DEF IInv
<1>7. CASE /\ lastPrice' = [lastPrice EXCEPT ![i] = price]
           /\ priceEvents' = [priceEvents EXCEPT ![i] = Append(@, e)]
  <2>1. e.version = r.version
    OBVIOUS
  <2> HIDE DEF e, price, i, old, r, s, t
  <2>7. e \in PriceEvents
    BY <1>1
  <2>8. \A q \in Seq(PriceEvents) :
          /\ Append(q, e) \in Seq(PriceEvents) /\ Append(q, e) # <<>>
          /\ Append(q, e)[Len(Append(q, e))] = e
          /\ \A n \in 1..Len(Append(q, e)) :
                \/ n \in 1..Len(q) /\ Append(q, e)[n] = q[n]
                \/ n = Len(q) + 1 /\ Append(q, e)[n] = e
    BY <2>7, LastOfAppend
  <2>2. ASSUME NEW j \in Items
        PROVE  /\ priceEvents'[j] = IF j = i THEN Append(priceEvents[i], e) ELSE priceEvents[j]
               /\ lastPrice'[j] = IF j = i THEN price ELSE lastPrice[j]
               /\ priceEvents[j] \in Seq(PriceEvents)
    BY <1>5, <1>7 DEF IInv, DataInv
  <2>3. /\ priceEvents' \in [Items -> Seq(PriceEvents)]
        /\ lastPrice' \in [Items -> Prices \cup {NoPrice}]
    <3>1. ASSUME NEW j \in Items
          PROVE  priceEvents'[j] \in Seq(PriceEvents) /\ lastPrice'[j] \in Prices \cup {NoPrice}
      <4>1. lastPrice[j] \in Prices \cup {NoPrice}
        BY DEF IInv, DataInv
      <4>2. j = i => priceEvents[i] \in Seq(PriceEvents)
        BY <2>2
      <4> QED BY <1>1, <2>2, <2>8, <4>1, <4>2
    <3> QED BY <1>7, <3>1 DEF IInv, DataInv
  <2>4. EventInv'
    <3> SUFFICES ASSUME NEW j \in Items, NEW n \in 1..Len(priceEvents'[j])
                 PROVE  priceEvents'[j][n].version <= Len(catalogue[j])
      BY <1>2 DEF EventInv
    <3>1. /\ priceEvents[j] \in Seq(PriceEvents)
          /\ priceEvents'[j] = IF j = i THEN Append(priceEvents[j], e) ELSE priceEvents[j]
      BY <2>2
    <3>2. \/ n \in 1..Len(priceEvents[j]) /\ priceEvents'[j][n] = priceEvents[j][n]
          \/ j = i /\ priceEvents'[j][n] = e
      BY <2>8, <3>1
    <3>3. n \in 1..Len(priceEvents[j]) => priceEvents[j][n].version <= Len(catalogue[j])
      BY DEF IInv, EventInv
    <3> QED BY <1>1, <2>1, <3>2, <3>3
  <2>5. MintedOnce'
    <3> SUFFICES ASSUME NEW j \in Items
                 PROVE  /\ discovered[j] = (IF j \in identity THEN 1 ELSE 0)
                        /\ priceEvents'[j] # <<>> => discovered[j] = 1
                        /\ lastPrice'[j] = IF priceEvents'[j] = <<>> THEN NoPrice
                              ELSE Price(j, priceEvents'[j][Len(priceEvents'[j])].version)
      BY <1>2 DEF MintedOnce, Price
    <3>1. CASE j = i
      <4>1. priceEvents[i] \in Seq(PriceEvents) /\ priceEvents'[i] = Append(priceEvents[i], e)
        BY <1>5, <2>2
      <4>2. priceEvents'[i] # <<>> /\ priceEvents'[i][Len(priceEvents'[i])] = e
        BY <2>8, <4>1
      <4>3. lastPrice'[i] = Price(i, e.version)
        BY <1>5, <2>1, <2>2 DEF price
      <4> QED BY <1>1, <3>1, <4>2, <4>3 DEF IInv, MintedOnce
    <3>2. CASE j # i
      BY <2>2, <3>2 DEF IInv, MintedOnce
    <3> QED BY <3>1, <3>2
  <2>6. DataInv'
    BY <1>2, <1>4, <2>3 DEF IInv, DataInv
  <2> QED BY <1>4, <2>4, <2>5, <2>6 DEF IInv
<1> QED BY <1>2, <1>6, <1>7

LEMMA ChangeStep ==
    ASSUME IInv, NEW i \in Items, NEW p \in Prices \cup {NoPrice, Delisted}, Change(i, p),
           UNCHANGED connectorVars
    PROVE  IInv'
<1>1. catalogue' \in [Items -> Seq(Versions)] /\ Grows(catalogue, catalogue')
  BY ChangeGrows DEF IInv
<1>2. now' = now
  BY DEF Change
<1>3. ASSUME NEW w \in Workers, sync[w] # Idle
      PROVE  SyncOK(sync[w], catalogue', identity)
  BY <1>1, <1>3, SyncOKGrows DEF IInv, WorkInv
<1>4. ASSUME NEW j \in Items, NEW n \in 1..Len(priceEvents[j])
      PROVE  /\ priceEvents[j][n].version <= Len(catalogue'[j])
             /\ catalogue'[j][priceEvents[j][n].version] = catalogue[j][priceEvents[j][n].version]
  <2>1. priceEvents[j][n].version \in 1..Len(catalogue[j])
    <3>1. priceEvents[j][n] \in PriceEvents
      BY DEF IInv, DataInv
    <3>2. priceEvents[j][n].version \in Nat \ {0}
      BY <3>1 DEF PriceEvents
    <3>3. priceEvents[j][n].version <= Len(catalogue[j])
      BY DEF IInv, EventInv
    <3>4. Len(catalogue[j]) \in Nat
      BY DEF IInv, DataInv
    <3> QED BY <3>2, <3>3, <3>4
  <2>2. Len(catalogue[j]) \in Nat /\ Len(catalogue'[j]) \in Nat
    BY <1>1 DEF IInv, DataInv
  <2> QED BY <1>1, <2>1, <2>2 DEF Grows
<1>5. DataInv' /\ WorkInv' /\ EventInv'
  BY <1>1, <1>2, <1>3, <1>4 DEF IInv, DataInv, WorkInv, EventInv, connectorVars
<1>6. ASSUME NEW j \in Items, priceEvents[j] # <<>>
      PROVE  catalogue'[j][priceEvents[j][Len(priceEvents[j])].version]
             = catalogue[j][priceEvents[j][Len(priceEvents[j])].version]
  <2>1. Len(priceEvents[j]) \in 1..Len(priceEvents[j])
    BY <1>6 DEF IInv, DataInv
  <2> QED BY <1>4, <2>1
<1>7. MintedOnce'
  BY <1>6 DEF IInv, MintedOnce, Price, connectorVars
<1> QED BY <1>5, <1>7 DEF IInv

LEMMA StartSyncStep ==
    ASSUME IInv, NEW w \in Workers, NEW kind, NEW mode, StartSync(w, kind, mode),
           UNCHANGED <<now, catalogue>>
    PROVE  IInv'
<1> DEFINE t == [phase |-> "started", kind |-> kind, mode |-> mode, at |-> now, since |-> NoTime,
                 offset |-> 0, more |-> TRUE, ids |-> {}, products |-> <<>>, offers |-> <<>>,
                 reading |-> NotReading]
<1>1. /\ sync' = [sync EXCEPT ![w] = t]
      /\ UNCHANGED <<stagedVars, watermark>>
  BY DEF StartSync
<1>2. /\ t.kind = kind /\ t.mode = mode /\ t.phase = "started"
      /\ t.products = <<>> /\ t.offers = <<>> /\ t.reading = NotReading
  OBVIOUS
<1>3. t \in SyncRecords({kind}, {mode})
  <2>1. now \in Nat
    BY DEF IInv, DataInv
  <2> QED BY <2>1 DEF SyncRecords, Phases
<1> HIDE DEF t
<1>4. SyncOK(t, catalogue, identity)
  BY <1>2, <1>3 DEF SyncOK, IsSync, Fetched, Usable, ReadingOK
<1>5. Moves(w) /\ SyncOK(sync'[w], catalogue, identity)
  BY <1>1, <1>4, MovesTo DEF IInv
<1> QED BY <1>1, <1>5, SyncMoves DEF IInv, DataInv

LEMMA SetWatermarkStep ==
    ASSUME IInv, NEW w \in Workers, SetWatermark(w), UNCHANGED <<now, catalogue>>
    PROVE  IInv'
<1> DEFINE s == sync[w]
           t == [s EXCEPT !.phase = "done"]
<1>1. SyncOK(s, catalogue, identity) /\ s.reading = NotReading
  BY BusyIsOK DEF SetWatermark, Phases
<1>2. sync' = [sync EXCEPT ![w] = t] /\ watermark' = s.at /\ UNCHANGED stagedVars
  BY DEF SetWatermark
<1>3. s.at \in Nat
  BY <1>1 DEF SyncOK, IsSync, SyncRecords
<1>4. /\ t.kind = s.kind /\ t.mode = s.mode /\ t.phase = "done"
      /\ t.products = s.products /\ t.offers = s.offers /\ t.reading = s.reading
  BY <1>1 DEF SyncOK, IsSync, SyncRecords
<1>5. t \in SyncRecords({s.kind}, {s.mode})
  BY <1>1 DEF SyncOK, IsSync, SyncRecords, Phases
<1> HIDE DEF t
<1>6. SyncOK(t, catalogue, identity)
  BY <1>1, <1>4, <1>5 DEF SyncOK, IsSync, ReadingOK
<1>7. Moves(w) /\ SyncOK(sync'[w], catalogue, identity)
  BY <1>2, <1>6, MovesTo DEF IInv
<1> QED BY <1>2, <1>3, <1>7, SyncMoves

LEMMA WorkStep ==
    ASSUME IInv, NEW w \in Workers, Work(w)
    PROVE  IInv'
<1> UNCHANGED <<now, catalogue>>
  BY DEF Work
<1>1. ASSUME \/ ReadWatermark(w) \/ FetchProducts(w) \/ FetchOffers(w) \/ FetchDeltas(w)
             \/ FetchDeltaItem(w) \/ ResolveProduct(w) \/ ResolveOffer(w)
      PROVE  IInv'
  <2>1. Moves(w) /\ SyncOK(sync'[w], catalogue, identity)
    BY <1>1, ReadWatermarkStep, FetchProductsStep, FetchOffersStep, FetchDeltasStep,
       FetchDeltaItemStep, ResolveProductStep, ResolveOfferStep
  <2>2. UNCHANGED <<stagedVars, watermark>>
    BY <1>1 DEF ReadWatermark, FetchProducts, FetchOffers, FetchDeltas, FetchDeltaItem,
                ResolveProduct, ResolveOffer
  <2> QED BY <2>1, <2>2, SyncMoves DEF IInv, DataInv
<1>2. CASE StageProduct(w)
  BY <1>2, StageProductStep
<1>3. CASE StageOffer(w)
  BY <1>3, StageOfferStep
<1>4. CASE SetWatermark(w)
  BY <1>4, SetWatermarkStep
<1> QED BY <1>1, <1>2, <1>3, <1>4 DEF Work, RunAccountSync

\* A worker's sync ends, well or not.
LEMMA EndStep ==
    ASSUME IInv, NEW w \in Workers, sync' = [sync EXCEPT ![w] = Idle],
           UNCHANGED <<now, catalogue, stagedVars, watermark>>
    PROVE  IInv'
<1>1. Moves(w) /\ sync'[w] = Idle
  BY MovesTo DEF IInv
<1> QED BY <1>1, SyncMoves DEF IInv, DataInv

LEMMA InitIInv == Init => IInv
<1> SUFFICES ASSUME Init PROVE IInv
  OBVIOUS
<1>1. ASSUME NEW i \in Items
      PROVE  catalogue[i] \in Seq(Versions)
  <2>1. catalogue[i] = <<>> \/ \E p \in Prices : catalogue[i] = <<[price |-> p, at |-> 0]>>
    BY DEF Init, SupplierInit
  <2>2. ASSUME NEW p \in Prices PROVE [price |-> p, at |-> 0] \in Versions
    BY DEF Versions
  <2>3. <<>> \in Seq(Versions) /\ \A e \in Versions : <<e>> \in Seq(Versions)
    OBVIOUS
  <2> QED BY <2>1, <2>2, <2>3
<1>2. catalogue = [i \in Items |-> catalogue[i]]
  BY DEF Init, SupplierInit
<1>3. DataInv
  BY <1>1, <1>2 DEF Init, SupplierInit, ConnectorInit, DataInv
<1>4. WorkInv /\ EventInv /\ MintedOnce
  BY DEF Init, ConnectorInit, WorkInv, EventInv, MintedOnce
<1> QED BY <1>3, <1>4 DEF IInv

LEMMA NextIInv == IInv /\ [Next]_vars => IInv'
<1> SUFFICES ASSUME IInv, [Next]_vars PROVE IInv'
  OBVIOUS
<1>1. ASSUME UNCHANGED <<catalogue, connectorVars>>, now' \in Nat
      PROVE  IInv'
  BY <1>1 DEF connectorVars, IInv, DataInv, WorkInv, EventInv, MintedOnce, Price
<1>2. CASE Clock
  BY <1>1, <1>2 DEF Clock, IInv, DataInv
<1>3. CASE SupplierChanges
  BY <1>3, ChangeStep DEF SupplierChanges
<1>4. CASE Tick \/ Trigger
  BY <1>1, <1>4 DEF Tick, Trigger, IInv, DataInv
<1>5. ASSUME NEW w \in Workers, Take(w)
      PROVE  IInv'
  BY <1>5, StartSyncStep DEF Take
<1>6. ASSUME NEW w \in Workers, Work(w)
      PROVE  IInv'
  BY <1>6, WorkStep
<1>7. ASSUME NEW w \in Workers, Finish(w) \/ Fail(w)
      PROVE  IInv'
  BY <1>7, EndStep DEF Finish, Fail, SyncFails
<1>8. ASSUME NEW w \in Workers, Rebalance(w)
      PROVE  IInv'
  BY <1>1, <1>8 DEF Rebalance, IInv, DataInv
<1>9. CASE UNCHANGED vars
  BY <1>1, <1>9 DEF vars, IInv, DataInv
<1> QED BY <1>2, <1>3, <1>4, <1>5, <1>6, <1>7, <1>8, <1>9 DEF Next

LEMMA Inductive == Spec => []IInv
BY InitIInv, NextIInv, PTL DEF Spec

\* However many workers sync the account at once, and whatever fails, a product has one identity
\* and is announced once (adapters/identity_repo.py: resolve_and_stage), an offer's row has the price
\* it announced last (adapters/offer_repo.py: resolve_offer_and_stage).
THEOREM IdentitiesAreMinted == Spec => []MintedOnce
BY Inductive, PTL DEF IInv

-----------------------------------------------------------------------------
(* While syncs take turns.                                                  *)

\* The rows to be staged of a product are in the order the supplier made them, and none is
\* older than what has been announced of it.
RowsOrdered(pages) ==
    \A m, n \in DOMAIN pages : m <= n =>
        \A q \in pages[m], r \in pages[n] : q.item = r.item => q.version <= r.version

RowsNew(pages, events) ==
    \A n \in DOMAIN pages : \A r \in pages[n] :
        \A k \in 1..Len(events[r.item]) : events[r.item][k].version <= r.version

\* And the price that was read is the one the row still has.
Ready(s, events, lp) ==
    /\ RowsOrdered(s.offers)
    /\ RowsNew(s.offers, events)
    /\ s.phase = "stage offers" /\ s.reading # NotReading =>
          s.reading.read = lp[s.reading.row.item]

TurnInv ==
    ~overlapped =>
        /\ \A v, w \in Workers : Busy(v) /\ Busy(w) => v = w
        /\ \A w \in Workers : Busy(w) => Ready(sync[w], priceEvents, lastPrice)
        /\ PricesMoveForward

\* Rows stay in order when a row is taken off, and when a page of the newest is added.
LEMMA WithoutOrdered ==
    ASSUME NEW pages \in Seq(SUBSET Rows), pages # <<>>, NEW r, NEW events,
           RowsOrdered(pages), RowsNew(pages, events)
    PROVE  RowsOrdered(Without(pages, r)) /\ RowsNew(Without(pages, r), events)
<1> DEFINE new == Without(pages, r)
           k == IF Head(pages) = {r} THEN 1 ELSE 0
<1>1. \A n \in DOMAIN new : n + k \in DOMAIN pages /\ new[n] \subseteq pages[n + k]
  BY WithoutKeeps
<1>2. k \in Nat /\ \A n \in DOMAIN new : n \in Nat
  BY WithoutKeeps
<1> HIDE DEF new, k
<1>3. RowsOrdered(new)
  <2> SUFFICES ASSUME NEW m \in DOMAIN new, NEW n \in DOMAIN new, m <= n,
                      NEW x \in new[m], NEW y \in new[n], x.item = y.item
               PROVE  x.version <= y.version
    BY DEF RowsOrdered
  <2>1. /\ m + k \in DOMAIN pages /\ n + k \in DOMAIN pages /\ m + k <= n + k
        /\ x \in pages[m + k] /\ y \in pages[n + k]
    BY <1>1, <1>2
  <2> QED BY <2>1 DEF RowsOrdered
<1>4. RowsNew(new, events)
  BY <1>1 DEF RowsNew
<1> QED BY <1>3, <1>4 DEF new

LEMMA WithOrdered ==
    ASSUME NEW pages \in Seq(SUBSET Rows), NEW rows \in SUBSET Rows, NEW c, NEW events,
           Fetched(pages, c), \A r \in rows : r.version = Len(c[r.item]),
           \A i \in Items : \A k \in 1..Len(events[i]) : events[i][k].version <= Len(c[i]),
           RowsOrdered(pages), RowsNew(pages, events)
    PROVE  RowsOrdered(With(pages, rows)) /\ RowsNew(With(pages, rows), events)
<1> DEFINE new == With(pages, rows)
<1>1. \A n \in DOMAIN new : \/ n \in DOMAIN pages /\ new[n] = pages[n]
                            \/ n = Len(pages) + 1 /\ new[n] = rows
  BY WithAdds
<1>2. \A n \in DOMAIN pages : n \in 1..Len(pages)
  OBVIOUS
<1>3. \A r \in rows : r.item \in Items /\ r.version \in Nat
  BY DEF Rows
<1> HIDE DEF new
<1>4. RowsOrdered(new)
  <2> SUFFICES ASSUME NEW m \in DOMAIN new, NEW n \in DOMAIN new, m <= n,
                      NEW x \in new[m], NEW y \in new[n], x.item = y.item
               PROVE  x.version <= y.version
    BY DEF RowsOrdered
  <2>1. CASE n = Len(pages) + 1 /\ new[n] = rows
    <3>1. y.version = Len(c[y.item]) /\ y.version \in Nat
      BY <1>3, <2>1
    <3>2. CASE m \in DOMAIN pages /\ new[m] = pages[m]
      BY <3>1, <3>2 DEF Fetched
    <3>3. CASE new[m] = rows
      BY <3>1, <3>3
    <3> QED BY <1>1, <3>2, <3>3
  <2>2. CASE n \in DOMAIN pages /\ new[n] = pages[n]
    <3>1. m \in DOMAIN pages /\ new[m] = pages[m]
      BY <1>1, <1>2, <2>2
    <3> QED BY <2>2, <3>1 DEF RowsOrdered
  <2> QED BY <1>1, <2>1, <2>2
<1>5. RowsNew(new, events)
  <2> SUFFICES ASSUME NEW n \in DOMAIN new, NEW r \in new[n], NEW k \in 1..Len(events[r.item])
               PROVE  events[r.item][k].version <= r.version
    BY DEF RowsNew
  <2>1. CASE new[n] = rows
    BY <1>3, <2>1
  <2>2. CASE n \in DOMAIN pages /\ new[n] = pages[n]
    BY <2>2 DEF RowsNew
  <2> QED BY <1>1, <2>1, <2>2
<1> QED BY <1>4, <1>5 DEF new

LEMMA FollowsReady ==
    ASSUME NEW s, NEW t, NEW c, NEW id, NEW events, NEW lp,
           SyncOK(s, c, id), Follows(s, t, c, lp), Ready(s, events, lp),
           \A i \in Items : \A k \in 1..Len(events[i]) : events[i][k].version <= Len(c[i])
    PROVE  Ready(t, events, lp)
<1>1. s.offers \in Seq(SUBSET Rows) /\ Fetched(s.offers, c)
  BY DEF SyncOK, IsSync, SyncRecords
<1>2. RowsOrdered(s.offers) /\ RowsNew(s.offers, events)
  BY DEF Ready
<1>3. RowsOrdered(<<>>) /\ RowsNew(<<>>, events)
  BY DEF RowsOrdered, RowsNew
<1>4. RowsOrdered(t.offers) /\ RowsNew(t.offers, events)
  <2>1. CASE t.offers \in {s.offers, <<>>}
    BY <1>2, <1>3, <2>1
  <2>2. ASSUME NEW rows \in SUBSET Rows, t.offers = With(s.offers, rows),
               \A r \in rows : r.version = Len(c[r.item])
        PROVE  RowsOrdered(t.offers) /\ RowsNew(t.offers, events)
    BY <1>1, <1>2, <2>2, WithOrdered
  <2>3. ASSUME s.offers # <<>>, NEW r \in Rows, t.offers = Without(s.offers, r)
        PROVE  RowsOrdered(t.offers) /\ RowsNew(t.offers, events)
    BY <1>1, <1>2, <2>3, WithoutOrdered
  <2> QED BY <2>1, <2>2, <2>3 DEF Follows
<1> QED BY <1>4 DEF Ready, Follows

-----------------------------------------------------------------------------
\* A step of the one sync there is, that announces nothing.
LEMMA QuietTurn ==
    ASSUME IInv, TurnInv, NEW w \in Workers, Busy(w), Moves(w),
           SyncOK(sync[w], catalogue, identity),
           sync'[w] = Idle \/ Follows(sync[w], sync'[w], catalogue, lastPrice),
           UNCHANGED <<catalogue, lastPrice, priceEvents, overlapped>>
    PROVE  TurnInv'
<1> SUFFICES ASSUME ~overlapped PROVE TurnInv'
  BY DEF TurnInv
<1>1. \A v \in Workers \ {w} : sync'[v] = sync[v] /\ ~Busy(v)
  BY DEF TurnInv, IInv, DataInv, Moves
<1>2. sync'[w] # Idle => Ready(sync'[w], priceEvents, lastPrice)
  <2> SUFFICES ASSUME sync'[w] # Idle PROVE Ready(sync'[w], priceEvents, lastPrice)
    OBVIOUS
  <2>1. Ready(sync[w], priceEvents, lastPrice)
    BY DEF TurnInv
  <2> QED BY <2>1, FollowsReady DEF IInv, EventInv
<1>3. PricesMoveForward'
  BY DEF TurnInv, PricesMoveForward, Price
<1> QED BY <1>1, <1>2, <1>3 DEF TurnInv, Busy

\* The price events q of one offer, whose versions are c, form a chain.
Chain(q, c) ==
    \A n \in 1..Len(q) :
        /\ q[n].old # c[q[n].version].price
        /\ IF n = 1 THEN q[n].old = NoPrice
           ELSE q[n].old = c[q[n - 1].version].price /\ q[n - 1].version < q[n].version

LEMMA FirstIsLeast ==
    ASSUME NEW S, NEW q \in Seq(S), q # <<>>
    PROVE  1 \in DOMAIN q /\ \A m \in DOMAIN q : m \in Nat /\ 1 <= m
OBVIOUS

LEMMA ChainGrows ==
    ASSUME NEW q \in Seq(PriceEvents), NEW c, NEW e \in PriceEvents, Chain(q, c),
           e.old # c[e.version].price,
           q = <<>> => e.old = NoPrice,
           q # <<>> => /\ e.old = c[q[Len(q)].version].price
                       /\ q[Len(q)].version < e.version
    PROVE  Chain(Append(q, e), c)
<1> DEFINE new == Append(q, e)
<1>1. /\ new \in Seq(PriceEvents) /\ Len(new) = Len(q) + 1 /\ new[Len(q) + 1] = e
      /\ \A n \in 1..Len(q) : new[n] = q[n]
      /\ Len(q) \in Nat /\ (Len(q) = 0 <=> q = <<>>)
  OBVIOUS
<1> HIDE DEF new
<1> SUFFICES ASSUME NEW n \in 1..Len(new)
             PROVE  /\ new[n].old # c[new[n].version].price
                    /\ IF n = 1 THEN new[n].old = NoPrice
                       ELSE /\ new[n].old = c[new[n - 1].version].price
                            /\ new[n - 1].version < new[n].version
  BY DEF Chain, new
<1>2. CASE n \in 1..Len(q)
  <2>1. n # 1 => n - 1 \in 1..Len(q)
    BY <1>1, <1>2
  <2> QED BY <1>1, <1>2, <2>1 DEF Chain
<1>3. CASE n = Len(q) + 1
  <2>1. n # 1 => n - 1 = Len(q) /\ Len(q) \in 1..Len(q) /\ q # <<>>
    BY <1>1, <1>3
  <2>2. n = 1 => q = <<>>
    BY <1>1, <1>3
  <2> QED BY <1>1, <1>3, <2>1, <2>2
<1> QED BY <1>1, <1>2, <1>3

\* The price event of the one sync there is: it starts from the price announced last, and the
\* rows left to be staged are not older than it.
LEMMA AnnounceTurn ==
    ASSUME IInv, TurnInv, ~overlapped, NEW w \in Workers, StageOffer(w),
           UNCHANGED <<catalogue, overlapped>>
    PROVE  TurnInv'
<1> DEFINE s == sync[w]
           r == s.reading.row
           i == r.item
           old == s.reading.read
           e == [old |-> old, version |-> r.version]
           t == AfterStaging([s EXCEPT !.reading = NotReading, !.offers = Without(@, r)])
<1>1. /\ SyncOK(s, catalogue, identity) /\ s.phase = "stage offers" /\ s.reading # NotReading
      /\ r \in Rows /\ i \in identity /\ r.version <= Len(catalogue[i])
      /\ s.offers \in Seq(SUBSET Rows) /\ s.offers # <<>> /\ r \in s.offers[1]
      /\ e \in PriceEvents
  BY OfferIsRead DEF StageOffer
<1>2. /\ sync' = [sync EXCEPT ![w] = t]
      /\ \/ Price(i, r.version) = old /\ UNCHANGED <<lastPrice, priceEvents>>
         \/ /\ Price(i, r.version) # old
            /\ lastPrice' = [lastPrice EXCEPT ![i] = Price(i, r.version)]
            /\ priceEvents' = [priceEvents EXCEPT ![i] = Append(@, e)]
  BY DEF StageOffer
<1>3. /\ t.offers = Without(s.offers, r) /\ t.reading = NotReading
      /\ Moves(w) /\ sync'[w] = t
  <2>1. t.offers = Without(s.offers, r) /\ t.reading = NotReading
    BY <1>1, RowIsTaken
  <2>2. Moves(w) /\ sync'[w] = t
    BY <1>2, MovesTo DEF IInv
  <2> QED BY <2>1, <2>2
<1>4. Follows(s, t, catalogue, lastPrice)
  BY <1>1, <1>3 DEF Follows
<1>8. 1 \in DOMAIN s.offers /\ \A m \in DOMAIN s.offers : m \in Nat /\ 1 <= m
  BY <1>1, FirstIsLeast
<1>5. Busy(w)
  BY BusyIsOK DEF StageOffer, Busy, Phases
<1>6. CASE UNCHANGED <<lastPrice, priceEvents>>
  BY <1>1, <1>3, <1>4, <1>5, <1>6, QuietTurn
<1>7. CASE /\ Price(i, r.version) # old
           /\ lastPrice' = [lastPrice EXCEPT ![i] = Price(i, r.version)]
           /\ priceEvents' = [priceEvents EXCEPT ![i] = Append(@, e)]
  <2>1. /\ RowsOrdered(s.offers) /\ RowsNew(s.offers, priceEvents) /\ old = lastPrice[i]
    BY <1>1, <1>5 DEF TurnInv, Ready
  <2>2. /\ RowsOrdered(t.offers) /\ RowsNew(t.offers, priceEvents)
    BY <1>1, <1>3, <2>1, WithoutOrdered
  <2>3. i \in Items /\ r.version \in Nat /\ e.version = r.version /\ e.old = old
    BY <1>1 DEF Rows
  <2>4. \A j \in Items : priceEvents[j] \in Seq(PriceEvents)
    BY DEF IInv, DataInv
  <2>5. \A j \in Items : priceEvents'[j] = IF j = i THEN Append(priceEvents[i], e) ELSE priceEvents[j]
    BY <1>7, <2>4 DEF IInv, DataInv
  <2>6. \A n \in DOMAIN t.offers : \A x \in t.offers[n] : x \in Rows /\ (x.item = i => r.version <= x.version)
    <3> DEFINE new == Without(s.offers, r)
               k == IF Head(s.offers) = {r} THEN 1 ELSE 0
    <3>1. /\ new \in Seq(SUBSET Rows) /\ k \in Nat
          /\ \A n \in DOMAIN new : n + k \in DOMAIN s.offers /\ new[n] \subseteq s.offers[n + k]
      BY <1>1, WithoutKeeps
    <3> HIDE DEF new, k
    <3>2. ASSUME NEW n \in DOMAIN new, NEW x \in new[n], x.item = i
          PROVE  r.version <= x.version
      <4> HIDE DEF s, r, i, t
      <4>1. n + k \in DOMAIN s.offers /\ x \in s.offers[n + k]
        BY <3>1
      <4>2. r.item = x.item
        BY <3>2 DEF i
      <4> QED BY <1>1, <1>8, <2>1, <4>1, <4>2 DEF RowsOrdered
    <3>3. t.offers = new
      BY <1>3 DEF new
    <3> QED BY <3>1, <3>2, <3>3
  <2> HIDE DEF e, t, old, i, r, s
  <2>7. e \in PriceEvents
    BY <1>1
  <2>8. \A q \in Seq(PriceEvents) :
          \A n \in 1..Len(Append(q, e)) :
              \/ n \in 1..Len(q) /\ Append(q, e)[n] = q[n]
              \/ n = Len(q) + 1 /\ Append(q, e)[n] = e
    BY <2>7, LastOfAppend
  <2>9. RowsNew(t.offers, priceEvents')
    <3> SUFFICES ASSUME NEW n \in DOMAIN t.offers, NEW x \in t.offers[n],
                        NEW k \in 1..Len(priceEvents'[x.item])
                 PROVE  priceEvents'[x.item][k].version <= x.version
      BY DEF RowsNew
    <3> DEFINE j == x.item
    <3>1. j \in Items /\ (j = i => r.version <= x.version)
      BY <2>6 DEF Rows
    <3> HIDE DEF j
    <3>2. \/ k \in 1..Len(priceEvents[j]) /\ priceEvents'[j][k] = priceEvents[j][k]
          \/ j = i /\ priceEvents'[j][k] = e
      <4>1. k \in 1..Len(priceEvents'[j])
        BY DEF j
      <4> QED BY <2>3, <2>4, <2>5, <2>8, <3>1, <4>1
    <3>3. k \in 1..Len(priceEvents[j]) => priceEvents[j][k].version <= x.version
      BY <2>2 DEF RowsNew, j
    <3> QED BY <2>3, <3>1, <3>2, <3>3 DEF j
  <2>10. PricesMoveForward'
    <3>1. \A j \in Items : Chain(priceEvents[j], catalogue[j])
      BY DEF TurnInv, PricesMoveForward, Chain, Price
    <3>2. priceEvents[i] = <<>> => e.old = NoPrice
      BY <2>1, <2>3 DEF IInv, MintedOnce
    <3>3. ASSUME priceEvents[i] # <<>>
          PROVE  LET last == priceEvents[i][Len(priceEvents[i])]
                 IN  /\ e.old = catalogue[i][last.version].price
                     /\ last.version < e.version
      <4> DEFINE n == Len(priceEvents[i])
                 last == priceEvents[i][n]
      <4>1. n \in 1..Len(priceEvents[i]) /\ last \in PriceEvents
        BY <2>3, <2>4, <3>3
      <4>2. old = catalogue[i][last.version].price
        BY <2>1, <2>3, <3>3 DEF IInv, MintedOnce, Price
      <4>3. last.version <= r.version
        <5> HIDE DEF n, last
        <5>1. \A k \in 1..Len(priceEvents[i]) : priceEvents[i][k].version <= r.version
          BY <1>1, <1>8, <2>1 DEF RowsNew, i
        <5> QED BY <4>1, <5>1 DEF last
      <4>4. last.version # r.version
        BY <1>7, <4>2 DEF Price
      <4>5. last.version \in Nat
        BY <4>1 DEF PriceEvents
      <4> QED BY <2>3, <4>2, <4>3, <4>4, <4>5
    <3>4. e.old # catalogue[i][e.version].price
      BY <1>7, <2>3 DEF Price
    <3>5. Chain(Append(priceEvents[i], e), catalogue[i])
      BY <2>3, <2>4, <2>7, <3>1, <3>2, <3>3, <3>4, ChainGrows
    <3>6. \A j \in Items : Chain(priceEvents'[j], catalogue[j])
      BY <2>3, <2>5, <3>1, <3>5
    <3> QED BY <3>6 DEF Chain, PricesMoveForward, Price
  <2>11. \A v \in Workers \ {w} : sync'[v] = sync[v] /\ ~Busy(v)
    BY <1>3, <1>5 DEF TurnInv, IInv, DataInv, Moves
  <2>12. Ready(sync'[w], priceEvents', lastPrice')
    BY <1>3, <2>2, <2>9 DEF Ready
  <2> QED BY <2>10, <2>11, <2>12 DEF TurnInv, Busy
<1> QED BY <1>2, <1>6, <1>7

LEMMA WorkTurn ==
    ASSUME IInv, TurnInv, ~overlapped, NEW w \in Workers, Work(w)
    PROVE  TurnInv'
<1>1. UNCHANGED <<catalogue, overlapped>>
  BY DEF Work, flowVars
<1>2. ASSUME sync[w].phase \in Phases
      PROVE  Busy(w) /\ SyncOK(sync[w], catalogue, identity)
  BY <1>2, BusyIsOK DEF Busy
<1>3. ASSUME \/ ReadWatermark(w) \/ FetchProducts(w) \/ FetchOffers(w) \/ FetchDeltas(w)
             \/ FetchDeltaItem(w) \/ ResolveProduct(w) \/ ResolveOffer(w)
      PROVE  TurnInv'
  <2>1. Moves(w) /\ Follows(sync[w], sync'[w], catalogue, lastPrice)
    BY <1>3, ReadWatermarkStep, FetchProductsStep, FetchOffersStep, FetchDeltasStep,
       FetchDeltaItemStep, ResolveProductStep, ResolveOfferStep
  <2>2. UNCHANGED stagedVars /\ sync[w].phase \in Phases
    BY <1>3 DEF ReadWatermark, FetchProducts, FetchOffers, FetchDeltas, FetchDeltaItem,
                ResolveProduct, ResolveOffer, Phases
  <2> QED BY <1>1, <1>2, <2>1, <2>2, QuietTurn DEF stagedVars
<1>4. CASE StageProduct(w)
  <2> DEFINE s == sync[w]
             t == AfterStaging([s EXCEPT !.reading = NotReading,
                                         !.products = Without(@, s.reading.row)])
  <2>1. s.phase = "stage products" /\ s.phase \in Phases
    BY <1>4 DEF StageProduct, Phases
  <2>2. sync' = [sync EXCEPT ![w] = t] /\ UNCHANGED <<lastPrice, priceEvents>>
    BY <1>4 DEF StageProduct
  <2>3. t.offers = s.offers /\ t.reading = NotReading
    BY <1>2, <2>1, RowIsTaken
  <2>4. Follows(s, t, catalogue, lastPrice)
    BY <2>3 DEF Follows
  <2>5. Moves(w) /\ sync'[w] = t
    BY <2>2, MovesTo DEF IInv
  <2> QED BY <1>1, <1>2, <2>1, <2>2, <2>4, <2>5, QuietTurn
<1>5. CASE StageOffer(w)
  BY <1>1, <1>5, AnnounceTurn
<1>6. CASE SetWatermark(w)
  <2> DEFINE s == sync[w]
             t == [s EXCEPT !.phase = "done"]
  <2>1. s.phase \in Phases
    BY <1>6 DEF SetWatermark, Phases
  <2>2. sync' = [sync EXCEPT ![w] = t] /\ UNCHANGED <<lastPrice, priceEvents>>
    BY <1>6 DEF SetWatermark, stagedVars
  <2>3. t.offers = s.offers /\ t.phase = "done"
    BY <1>2, <2>1 DEF SyncOK, IsSync, SyncRecords
  <2>4. Moves(w) /\ sync'[w] = t
    BY <2>2, MovesTo DEF IInv
  <2> HIDE DEF t
  <2>5. Follows(s, t, catalogue, lastPrice)
    BY <2>3 DEF Follows
  <2> QED BY <1>1, <1>2, <2>1, <2>2, <2>4, <2>5, QuietTurn
<1> QED BY <1>3, <1>4, <1>5, <1>6 DEF Work, RunAccountSync

\* A job is taken: alone, or the syncs overlap from now on.
LEMMA TakeTurn ==
    ASSUME IInv, TurnInv, ~overlapped, NEW w \in Workers, Take(w)
    PROVE  TurnInv'
<1>1. /\ UNCHANGED <<catalogue, lastPrice, priceEvents>>
      /\ overlapped' = \E v \in Workers : Busy(v)
  BY DEF Take, StartSync, stagedVars
<1>2. CASE \E v \in Workers : Busy(v)
  BY <1>1, <1>2 DEF TurnInv
<1>3. CASE ~\E v \in Workers : Busy(v)
  <2> DEFINE kind == jobs[offset + 1].kind
             mode == jobs[offset + 1].mode
             t == [phase |-> "started", kind |-> kind, mode |-> mode, at |-> now, since |-> NoTime,
                   offset |-> 0, more |-> TRUE, ids |-> {}, products |-> <<>>, offers |-> <<>>,
                   reading |-> NotReading]
  <2>1. sync' = [sync EXCEPT ![w] = t]
    BY DEF Take, StartSync
  <2>2. t.offers = <<>> /\ t.reading = NotReading
    OBVIOUS
  <2> HIDE DEF t
  <2>3. Ready(t, priceEvents, lastPrice)
    BY <2>2 DEF Ready, RowsOrdered, RowsNew
  <2>4. Moves(w) /\ sync'[w] = t
    BY <2>1, MovesTo DEF IInv
  <2>5. \A v \in Workers \ {w} : sync'[v] = Idle
    BY <1>3, <2>1 DEF Busy, IInv, DataInv
  <2>6. PricesMoveForward'
    BY <1>1 DEF TurnInv, PricesMoveForward, Price
  <2> QED BY <1>1, <2>3, <2>4, <2>5, <2>6 DEF TurnInv, Busy
<1> QED BY <1>2, <1>3

\* The versions a chain speaks of are still there when the catalogue has grown.
LEMMA ChangeTurn ==
    ASSUME IInv, TurnInv, NEW i \in Items, NEW p \in Prices \cup {NoPrice, Delisted},
           Change(i, p), UNCHANGED <<connectorVars, overlapped>>
    PROVE  TurnInv'
<1> SUFFICES ASSUME ~overlapped PROVE TurnInv'
  BY DEF TurnInv
<1>1. Grows(catalogue, catalogue') /\ catalogue' \in [Items -> Seq(Versions)]
  BY ChangeGrows DEF IInv
<1>2. ASSUME NEW j \in Items, NEW n \in 1..Len(priceEvents[j])
      PROVE  catalogue'[j][priceEvents[j][n].version] = catalogue[j][priceEvents[j][n].version]
  <2>1. priceEvents[j][n] \in PriceEvents
    BY DEF IInv, DataInv
  <2>2. priceEvents[j][n].version \in Nat \ {0}
    BY <2>1 DEF PriceEvents
  <2>3. priceEvents[j][n].version <= Len(catalogue[j])
    BY DEF IInv, EventInv
  <2>4. Len(catalogue[j]) \in Nat
    BY DEF IInv, DataInv
  <2> QED BY <1>1, <2>2, <2>3, <2>4 DEF Grows
<1>3. \A j \in Items : Chain(priceEvents[j], catalogue[j])
  BY DEF TurnInv, PricesMoveForward, Chain, Price
<1>4. ASSUME NEW j \in Items
      PROVE  Chain(priceEvents[j], catalogue'[j])
  <2> SUFFICES ASSUME NEW n \in 1..Len(priceEvents[j])
               PROVE  LET q == priceEvents[j]
                          c == catalogue'[j]
                      IN  /\ q[n].old # c[q[n].version].price
                          /\ IF n = 1 THEN q[n].old = NoPrice
                             ELSE /\ q[n].old = c[q[n - 1].version].price
                                  /\ q[n - 1].version < q[n].version
    BY DEF Chain
  <2>1. n # 1 => n - 1 \in 1..Len(priceEvents[j])
    <3>1. Len(priceEvents[j]) \in Nat
      BY DEF IInv, DataInv
    <3> QED BY <3>1
  <2>2. /\ priceEvents[j][n].old # catalogue[j][priceEvents[j][n].version].price
        /\ n = 1 => priceEvents[j][n].old = NoPrice
        /\ n # 1 => /\ priceEvents[j][n].old = catalogue[j][priceEvents[j][n - 1].version].price
                    /\ priceEvents[j][n - 1].version < priceEvents[j][n].version
    BY <1>3 DEF Chain
  <2>3. catalogue'[j][priceEvents[j][n].version] = catalogue[j][priceEvents[j][n].version]
    BY <1>2
  <2>4. n # 1 => catalogue'[j][priceEvents[j][n - 1].version]
                    = catalogue[j][priceEvents[j][n - 1].version]
    BY <1>2, <2>1
  <2> QED BY <2>2, <2>3, <2>4
<1>5. PricesMoveForward'
  BY <1>4 DEF PricesMoveForward, Chain, Price, connectorVars
<1> QED BY <1>5 DEF TurnInv, Busy, connectorVars

LEMMA NextTurn == IInv /\ TurnInv /\ [Next]_vars => TurnInv'
<1> SUFFICES ASSUME IInv, TurnInv, [Next]_vars PROVE TurnInv'
  OBVIOUS
<1>1. ASSUME UNCHANGED <<catalogue, connectorVars, overlapped>>
      PROVE  TurnInv'
  BY <1>1 DEF TurnInv, Busy, PricesMoveForward, Price, connectorVars
<1>2. CASE overlapped
  BY <1>2 DEF TurnInv, Next, vars, flowVars, Clock, SupplierChanges, Tick, Trigger, Take, Work,
              Finish, Fail, Rebalance
<1>3. CASE ~overlapped
  <2>1. CASE Clock \/ Tick \/ Trigger \/ UNCHANGED vars
    BY <1>1, <2>1 DEF Clock, Tick, Trigger, vars, flowVars
  <2>2. CASE SupplierChanges
    BY <2>2, ChangeTurn DEF SupplierChanges
  <2>3. ASSUME NEW w \in Workers, Take(w)
        PROVE  TurnInv'
    BY <1>3, <2>3, TakeTurn
  <2>4. ASSUME NEW w \in Workers, Work(w)
        PROVE  TurnInv'
    BY <1>3, <2>4, WorkTurn
  <2>5. ASSUME NEW w \in Workers, Finish(w) \/ Fail(w)
        PROVE  TurnInv'
    <3>1. /\ sync' = [sync EXCEPT ![w] = Idle] /\ sync[w] # Idle
          /\ UNCHANGED <<catalogue, stagedVars, overlapped>>
      BY <2>5 DEF Finish, Fail, SyncFails, Busy
    <3>2. Moves(w) /\ sync'[w] = Idle /\ Busy(w) /\ SyncOK(sync[w], catalogue, identity)
      BY <3>1, MovesTo DEF IInv, WorkInv, Busy
    <3> QED BY <3>1, <3>2, QuietTurn DEF stagedVars
  <2>6. ASSUME NEW w \in Workers, Rebalance(w)
        PROVE  TurnInv'
    BY <1>1, <2>6 DEF Rebalance
  <2> QED BY <2>1, <2>2, <2>3, <2>4, <2>5, <2>6 DEF Next
<1> QED BY <1>2, <1>3

LEMMA InitTurn == Init => TurnInv
BY DEF Init, ConnectorInit, TurnInv, Busy, PricesMoveForward

\* While the syncs of an account take turns, the price events of an offer form a chain and none
\* brings an older price back (sync.py: sync_offers): whatever pages a changing supplier gave.
THEOREM PricesOnlyMoveForward == Spec => []PricesMoveForward
<1>1. TurnInv => PricesMoveForward
  BY DEF TurnInv, PricesMoveForward
<1> QED BY <1>1, Inductive, InitTurn, NextTurn, PTL DEF Spec

-----------------------------------------------------------------------------
(* The pages of a list.                                                     *)

\* The place of a product in a list.
Rank(list, i) == Cardinality({j \in list : j < i})

LEMMA RankIs ==
    ASSUME NEW list \in SUBSET Items
    PROVE  /\ IsFiniteSet(list)
           /\ \A i \in Items : IsFiniteSet({j \in list : j < i}) /\ Rank(list, i) \in Nat
           /\ \A j \in list, i \in Items : j < i => Rank(list, j) < Rank(list, i)
<1>1. IsFiniteSet(list)
  BY SupplierAssumption, FS_Subset
<1>2. ASSUME NEW i \in Items
      PROVE  IsFiniteSet({j \in list : j < i}) /\ Rank(list, i) \in Nat
  <2>1. IsFiniteSet({j \in list : j < i})
    BY <1>1, FS_Subset
  <2> QED BY <2>1, FS_CardinalityType DEF Rank
<1>3. ASSUME NEW j \in list, NEW i \in Items, j < i
      PROVE  Rank(list, j) < Rank(list, i)
  <2> DEFINE before == {k \in list : k < j}
             all == {k \in list : k < i}
  <2>1. i \in Nat /\ j \in Nat /\ list \subseteq Nat
    BY SupplierAssumption
  <2>2. before \subseteq all /\ j \in all /\ j \notin before
    <3>1. ASSUME NEW k \in before PROVE k \in all
      <4>1. k \in Nat /\ k < j /\ k \in list
        BY <2>1
      <4>2. k < i
        BY <1>3, <2>1, <4>1
      <4> QED BY <4>1, <4>2
    <3>2. j \in all /\ ~(j < j)
      BY <1>3, <2>1
    <3> QED BY <3>1, <3>2
  <2>3. IsFiniteSet(all) /\ Cardinality(all) \in Nat /\ Cardinality(before) \in Nat
    BY <1>2 DEF Rank
  <2> HIDE DEF before, all
  <2>4. Cardinality(before) <= Cardinality(all) /\ Cardinality(before) # Cardinality(all)
    BY <2>2, <2>3, FS_Subset
  <2>5. Rank(list, j) = Cardinality(before) /\ Rank(list, i) = Cardinality(all)
    BY DEF Rank, before, all
  <2> QED BY <2>3, <2>4, <2>5
<1> QED BY <1>1, <1>2, <1>3

\* Two products of a list have different places.
LEMMA RankTells ==
    ASSUME NEW list \in SUBSET Items, NEW j \in list, NEW k \in list, Rank(list, j) = Rank(list, k)
    PROVE  j = k
<1>1. j \in Nat /\ k \in Nat /\ Rank(list, j) \in Nat /\ Rank(list, k) \in Nat
  BY SupplierAssumption, RankIs
<1> QED BY <1>1, RankIs

\* Every place before an occupied one is occupied.
LEMMA RankFills ==
    ASSUME NEW list \in SUBSET Items, NEW i \in Items, NEW r \in Nat, i \in list, r <= Rank(list, i)
    PROVE  \E j \in list : Rank(list, j) = r
<1> DEFINE T == {j \in list : r <= Rank(list, j)}
<1>1. PICK m \in T : \A k \in T : ~ (<<k, m>> \in OpToRel(<, Nat))
  <2>1. T \subseteq Nat /\ T # {}
    BY SupplierAssumption
  <2> HIDE DEF T
  <2> QED BY <2>1, NatLessThanWellFounded, WFMin
<1> DEFINE B == {k \in list : k < m}
<1>2. m \in Nat /\ list \subseteq Nat /\ Rank(list, m) \in Nat
  BY SupplierAssumption, RankIs
<1>3. ASSUME NEW k \in B
      PROVE  Rank(list, k) \in 0..(r - 1)
  <2>1. k \in Nat /\ k < m /\ Rank(list, k) \in Nat
    BY <1>2, RankIs
  <2>2. k \notin T
    <3> SUFFICES ASSUME k \in T PROVE FALSE
      OBVIOUS
    <3> HIDE DEF T, B
    <3> QED BY <1>1, <1>2, <2>1 DEF OpToRel
  <2> QED BY <2>1, <2>2
<1> DEFINE f == [k \in B |-> Rank(list, k)]
<1>4. f \in Injection(B, 0..(r - 1))
  <2>1. f \in [B -> 0..(r - 1)]
    BY <1>3
  <2>2. \A j, k \in B : f[j] = f[k] => j = k
    BY RankTells
  <2> HIDE DEF f, B
  <2> QED BY <2>1, <2>2 DEF Injection, IsInjective
<1>5. Cardinality(B) <= Cardinality(0..(r - 1))
  <2>1. IsFiniteSet(0..(r - 1))
    BY FS_Interval
  <2> HIDE DEF B, f
  <2> QED BY <1>4, <2>1, FS_Injection
<1>6. Cardinality(0..(r - 1)) = r
  BY FS_Interval
<1>7. Rank(list, m) = r
  <2>1. Rank(list, m) = Cardinality(B)
    BY DEF Rank
  <2>2. r <= Rank(list, m)
    OBVIOUS
  <2> HIDE DEF B
  <2> QED BY <1>2, <1>5, <1>6, <2>1, <2>2
<1> QED BY <1>7

\* A product at or behind the offset is on the page, or the page is full and the product behind it.
LEMMA PageCovers ==
    ASSUME NEW list \in SUBSET Items, NEW i \in list, NEW n \in Nat, n <= Rank(list, i)
    PROVE  \/ i \in Page(list, n)
           \/ n + PageSize <= Rank(list, i) /\ Cardinality(Page(list, n)) = PageSize
<1> DEFINE page == Page(list, n)
           places == n..(n + PageSize - 1)
           f == [j \in page |-> Rank(list, j)]
<1>1. page = {j \in list : Rank(list, j) \in places}
  BY DEF Page, Rank
<1>2. PageSize \in Nat /\ i \in Items /\ Rank(list, i) \in Nat /\ PageSize # 0
  BY SupplierAssumption, RankIs
<1> SUFFICES ASSUME i \notin page PROVE n + PageSize <= Rank(list, i) /\ Cardinality(page) = PageSize
  OBVIOUS
<1>3. n + PageSize <= Rank(list, i)
  BY <1>1, <1>2
<1>4. f \in [page -> places] /\ \A j, k \in page : f[j] = f[k] => j = k
  BY <1>1, RankTells
<1>5. \A r \in places : \E j \in page : f[j] = r
  <2> SUFFICES ASSUME NEW r \in places PROVE \E j \in page : f[j] = r
    OBVIOUS
  <2>1. r \in Nat /\ r <= Rank(list, i)
    BY <1>2, <1>3
  <2>2. PICK j \in list : Rank(list, j) = r
    BY <1>2, <2>1, RankFills
  <2> QED BY <1>1, <2>2
<1>6. IsFiniteSet(places) /\ Cardinality(places) = PageSize
  <2> DEFINE last == n + PageSize - 1
  <2>1. n \in Int /\ last \in Int /\ ~(n > last) /\ last - n + 1 = PageSize
    BY <1>2
  <2> HIDE DEF last
  <2>2. IsFiniteSet(n..last) /\ Cardinality(n..last) = last - n + 1
    BY <2>1, FS_Interval
  <2> QED BY <2>1, <2>2 DEF last
<1>7. IsFiniteSet(page)
  BY <1>1, RankIs, FS_Subset
<1> HIDE DEF f, places, page
<1>8. f \in Injection(page, places) /\ f \in Surjection(page, places)
  BY <1>4, <1>5 DEF Injection, Surjection, IsInjective
<1>9. ExistsBijection(page, places)
  BY <1>8 DEF ExistsBijection, Bijection
<1> QED BY <1>3, <1>6, <1>7, <1>9, FS_Bijection

\* In a list that has grown, a product is where it was or further back.
LEMMA RankGrows ==
    ASSUME NEW list \in SUBSET Items, NEW longer \in SUBSET Items, list \subseteq longer, NEW i \in Items
    PROVE  Rank(list, i) <= Rank(longer, i)
<1>1. IsFiniteSet({j \in longer : j < i}) /\ {j \in list : j < i} \subseteq {j \in longer : j < i}
  BY RankIs
<1> QED BY <1>1, FS_Subset DEF Rank

-----------------------------------------------------------------------------
(* What the watermark covers.                                               *)

InPages(pages, row) == \E n \in DOMAIN pages : row \in pages[n]

\* The row of a product as it is now.
Row(i) == [item |-> i, version |-> Latest(i)]

\* A product that has not changed since t, and one that a sync is there to fetch.
Unchanged(i, t) == Listed(i) /\ catalogue[i][Latest(i)].at < t

Wanted(s, i) ==
    /\ Unchanged(i, s.at)
    /\ s.since # NoTime => s.since <= catalogue[i][Latest(i)].at

\* The list a sync pages through.
Source(s) == IF s.since = NoTime THEN Sold ELSE ModifiedSince(s.since)

\* The pages to come, or the rest of this page, have the product.
Ahead(s, i) ==
    \/ /\ s.phase \in {"products", "stage products", "offers", "deltas", "items"}
       /\ s.more /\ s.offset <= Rank(Source(s), i)
    \/ s.phase = "items" /\ i \in s.ids

WithProducts == "products" \in SyncedKinds
WithOffers == SyncedKinds = {"products", "offers"}

\* Where in the sync s the product and its price have been, or will be, staged.
ProductMet(s, i, id) ==
    \/ i \in id
    \/ s.phase # "offers" /\ Ahead(s, i)
    \/ s.phase \in {"deltas", "items", "stage products"} /\ InPages(s.products, Row(i))

OfferMet(s, i, lp) ==
    \/ lp[i] = Price(i, Latest(i))
    \/ s.since = NoTime /\ s.phase \in {"products", "stage products"}
    \/ Ahead(s, i)
    \/ /\ s.phase \in {"deltas", "items", "stage products", "offers", "stage offers"}
       /\ InPages(s.offers, Row(i))

Met(s, id, lp) ==
    \A i \in Items : Wanted(s, i) =>
        /\ WithProducts => ProductMet(s, i, id)
        /\ WithOffers /\ Price(i, Latest(i)) \in Prices => OfferMet(s, i, lp)

\* What the phases of a full and of a delta sync have in common with their lists.
PhaseOK(s) ==
    /\ s.phase \in {"started", "products", "offers"} => s.since = NoTime /\ s.more
    /\ s.phase \in {"deltas", "items"} => s.since # NoTime
    /\ s.phase = "deltas" => s.more
    /\ s.phase = "stage products" /\ s.since # NoTime => ~s.more
    /\ s.phase = "started" => s.offset = 0
    /\ SyncedKinds \subseteq s.kind

\* An offer to be staged of a product that has not changed since the sync began is its last.
Fresh(s) ==
    \A n \in DOMAIN s.offers : \A r \in s.offers[n] :
        Unchanged(r.item, s.at) => r.version = Latest(r.item)

\* The sync began after what the watermark says, and a delta sync goes back to there.
TimesOK(s, wm) ==
    /\ wm # NoTime => wm <= s.at
    /\ s.phase # "done" /\ s.since # NoTime => s.since = wm

SyncCovers(s, id, lp) ==
    /\ PhaseOK(s) /\ Fresh(s)
    /\ s.phase \notin {"started", "done"} => Met(s, id, lp)

\* The jobs ask for what their entries do, and the one a worker has taken is still uncommitted.
SyncJobs == {j \in Jobs : j.kind \in Kinds /\ SyncedKinds \subseteq j.kind}

FlowInv ==
    /\ jobs \in Seq(SyncJobs)
    /\ tick \in Ticks \cup {NotTicking}
    /\ lastRequested \in Nat \cup {NeverRequested}
    /\ offset \in 0..Len(jobs) /\ owner \in Workers
    /\ Busy(owner) => offset < Len(jobs)

CoverInv ==
    (~overlapped /\ ~shrunk) =>
        /\ watermark # NoTime => watermark <= now
        /\ \A w \in Workers : Busy(w) =>
              /\ SyncCovers(sync[w], identity, lastPrice)
              /\ sync[w].at <= now /\ TimesOK(sync[w], watermark)
        /\ \A i \in Items : Covered(i)

LEMMA SourceIs ==
    ASSUME NEW s
    PROVE  /\ Source(s) \in SUBSET Items
           /\ \A i \in Items : Wanted(s, i) => i \in Source(s)
BY DEF Source, ModifiedSince, Sold, Wanted, Unchanged

\* AfterStaging changes the phase and, for the offers of a full sync, starts at the first page.
LEMMA AfterStagingIs ==
    ASSUME NEW s, IsSync(s), NEW t, t = AfterStaging(s)
    PROVE  /\ t.kind = s.kind /\ t.at = s.at /\ t.since = s.since /\ t.ids = s.ids
           /\ t.products = s.products /\ t.offers = s.offers
           /\ \/ /\ s.phase = "stage products" /\ s.products = <<>> /\ s.since # NoTime
                 /\ t.phase = IF s.offers = <<>> THEN "watermark" ELSE "stage offers"
              \/ /\ s.phase = "stage products" /\ s.products = <<>> /\ s.since = NoTime /\ s.more
                 /\ t.phase = "products" /\ t.more = s.more /\ t.offset = s.offset
              \/ /\ s.phase = "stage products" /\ s.products = <<>> /\ s.since = NoTime /\ ~s.more
                 /\ "offers" \in s.kind
                 /\ t.phase = "offers" /\ t.more = TRUE /\ t.offset = 0
              \/ /\ s.phase = "stage products" /\ s.products = <<>> /\ s.since = NoTime /\ ~s.more
                 /\ "offers" \notin s.kind
                 /\ t.phase = "watermark"
              \/ s.phase = "stage offers" /\ s.offers = <<>> /\ t.phase = "watermark"
              \/ t = s
<1> USE DEF IsSync, SyncRecords
<1>1. CASE s.phase = "stage products" /\ s.products = <<>> /\ s.since # NoTime
  BY <1>1 DEF AfterStaging
<1>2. CASE s.phase = "stage products" /\ s.products = <<>> /\ s.since = NoTime /\ s.more
  BY <1>2 DEF AfterStaging
<1>3. CASE s.phase = "stage products" /\ s.products = <<>> /\ s.since = NoTime /\ ~s.more
  <2>1. t = AfterProducts(s)
    BY <1>3 DEF AfterStaging
  <2>2. CASE "offers" \in s.kind
    BY <1>3, <2>1, <2>2 DEF AfterProducts
  <2>3. CASE "offers" \notin s.kind
    BY <1>3, <2>1, <2>3 DEF AfterProducts
  <2> QED BY <2>2, <2>3
<1>4. CASE s.phase = "stage offers" /\ s.offers = <<>>
  BY <1>4 DEF AfterStaging
<1>5. CASE ~(s.phase = "stage products" /\ s.products = <<>>) /\ ~(s.phase = "stage offers" /\ s.offers = <<>>)
  BY <1>5 DEF AfterStaging
<1> QED BY <1>1, <1>2, <1>3, <1>4, <1>5

\* What is met stays met when a sync goes on to its next phase.
LEMMA AfterStagingCovers ==
    ASSUME NEW s, IsSync(s), NEW id, NEW lp, SyncCovers(s, id, lp)
    PROVE  SyncCovers(AfterStaging(s), id, lp)
<1> DEFINE t == AfterStaging(s)
<1>1. /\ t.kind = s.kind /\ t.at = s.at /\ t.since = s.since /\ t.ids = s.ids
      /\ t.products = s.products /\ t.offers = s.offers
  BY AfterStagingIs
<1>2. \/ /\ s.phase = "stage products" /\ s.products = <<>> /\ s.since # NoTime
         /\ t.phase = IF s.offers = <<>> THEN "watermark" ELSE "stage offers"
      \/ /\ s.phase = "stage products" /\ s.products = <<>> /\ s.since = NoTime /\ s.more
         /\ t.phase = "products" /\ t.more = s.more /\ t.offset = s.offset
      \/ /\ s.phase = "stage products" /\ s.products = <<>> /\ s.since = NoTime /\ ~s.more
         /\ "offers" \in s.kind
         /\ t.phase = "offers" /\ t.more = TRUE /\ t.offset = 0
      \/ /\ s.phase = "stage products" /\ s.products = <<>> /\ s.since = NoTime /\ ~s.more
         /\ "offers" \notin s.kind
         /\ t.phase = "watermark"
      \/ s.phase = "stage offers" /\ s.offers = <<>> /\ t.phase = "watermark"
      \/ t = s
  BY AfterStagingIs
<1> HIDE DEF t
<1>3. CASE t = s
  BY <1>3 DEF t
<1>4. CASE t # s
  <2>1. PhaseOK(t)
    BY <1>1, <1>2, <1>4 DEF SyncCovers, PhaseOK
  <2>2. Fresh(t)
    BY <1>1 DEF SyncCovers, Fresh
  <2>3. \A i : ~InPages(<<>>, Row(i))
    BY DEF InPages
  <2>4. ASSUME NEW i \in Items, Wanted(t, i)
        PROVE  /\ WithProducts => ProductMet(t, i, id)
               /\ WithOffers /\ Price(i, Latest(i)) \in Prices => OfferMet(t, i, lp)
    <3>1. /\ WithProducts => ProductMet(s, i, id)
          /\ WithOffers /\ Price(i, Latest(i)) \in Prices => OfferMet(s, i, lp)
      BY <1>1, <1>2, <1>4, <2>4 DEF SyncCovers, Met, Wanted
    <3>2. Rank(Source(t), i) \in Nat /\ Source(t) = Source(s)
      BY <1>1, SourceIs, RankIs DEF Source
    <3>3. WithProducts => ProductMet(t, i, id)
      BY <1>1, <1>2, <1>4, <2>3, <3>1, <3>2 DEF ProductMet, Ahead, SyncCovers, PhaseOK
    <3>4. WithOffers /\ Price(i, Latest(i)) \in Prices => OfferMet(t, i, lp)
      <4>1. WithOffers => "offers" \in s.kind
        BY DEF WithOffers, SyncCovers, PhaseOK
      <4> SUFFICES ASSUME WithOffers, Price(i, Latest(i)) \in Prices
                   PROVE  OfferMet(t, i, lp)
        OBVIOUS
      <4>2. OfferMet(s, i, lp) /\ PhaseOK(s) /\ t.offers = s.offers /\ t.since = s.since
        BY <1>1, <3>1 DEF SyncCovers
      <4>3. CASE s.phase = "stage products" /\ s.since # NoTime
                 /\ t.phase = IF s.offers = <<>> THEN "watermark" ELSE "stage offers"
        <5>1. ~s.more
          BY <4>2, <4>3 DEF PhaseOK
        <5>2. lp[i] = Price(i, Latest(i)) \/ InPages(s.offers, Row(i))
          BY <4>2, <4>3, <5>1 DEF OfferMet, Ahead
        <5>3. s.offers = <<>> => ~InPages(s.offers, Row(i))
          BY <2>3
        <5> QED BY <4>2, <4>3, <5>2, <5>3 DEF OfferMet
      <4>4. CASE t.since = NoTime /\ t.phase = "products"
        BY <4>4 DEF OfferMet
      <4>5. CASE t.phase = "offers" /\ t.more = TRUE /\ t.offset = 0
        BY <3>2, <4>5 DEF OfferMet, Ahead
      <4>6. CASE s.phase = "stage offers" /\ s.offers = <<>>
        <5>1. ~InPages(s.offers, Row(i))
          BY <2>3, <4>6
        <5>2. lp[i] = Price(i, Latest(i))
          BY <4>2, <4>6, <5>1 DEF OfferMet, Ahead
        <5> QED BY <5>2 DEF OfferMet
      <4> QED BY <1>1, <1>2, <1>4, <4>1, <4>3, <4>4, <4>5, <4>6
    <3> QED BY <3>3, <3>4
  <2>5. SyncCovers(t, id, lp)
    BY <2>1, <2>2, <2>4 DEF SyncCovers, Met
  <2> QED BY <2>5 DEF t
<1> QED BY <1>3, <1>4 DEF t

\* A row is in the pages it is added to, and one that is taken off takes no other with it.
LEMMA InPagesAdded ==
    ASSUME NEW pages \in Seq(SUBSET Rows), NEW rows \in SUBSET Rows, NEW x
    PROVE  /\ InPages(pages, x) => InPages(With(pages, rows), x)
           /\ x \in rows => InPages(With(pages, rows), x)
<1>1. CASE rows = {}
  BY <1>1 DEF With
<1>2. CASE rows # {}
  <2> DEFINE new == Append(pages, rows)
  <2>1. /\ DOMAIN pages \subseteq DOMAIN new /\ \A n \in DOMAIN pages : new[n] = pages[n]
        /\ Len(pages) + 1 \in DOMAIN new /\ new[Len(pages) + 1] = rows
    OBVIOUS
  <2>2. With(pages, rows) = new
    BY <1>2 DEF With
  <2> HIDE DEF new
  <2> QED BY <2>1, <2>2 DEF InPages
<1> QED BY <1>1, <1>2

LEMMA InPagesLeft ==
    ASSUME NEW pages \in Seq(SUBSET Rows), pages # <<>>, NEW r, NEW x, x # r, InPages(pages, x)
    PROVE  InPages(Without(pages, r), x)
<1>1. PICK n \in DOMAIN pages : x \in pages[n]
  BY DEF InPages
<1>2. CASE Head(pages) = {r}
  <2> DEFINE new == Tail(pages)
  <2>1. n # 1
    BY <1>1, <1>2
  <2>2. n - 1 \in DOMAIN new /\ new[n - 1] = pages[n]
    BY <2>1
  <2>3. Without(pages, r) = new
    BY <1>2 DEF Without
  <2> HIDE DEF new
  <2> QED BY <1>1, <2>2, <2>3 DEF InPages
<1>3. CASE Head(pages) # {r}
  <2> DEFINE new == [pages EXCEPT ![1] = @ \ {r}]
  <2>1. n \in DOMAIN new /\ x \in new[n]
    BY <1>1
  <2>2. Without(pages, r) = new
    BY <1>3 DEF Without
  <2> HIDE DEF new
  <2> QED BY <2>1, <2>2 DEF InPages
<1> QED BY <1>2, <1>3

LEMMA FreshAdded ==
    ASSUME NEW s, Fresh(s), s.offers \in Seq(SUBSET Rows), NEW rows \in SUBSET Rows,
           \A r \in rows : r.version = Latest(r.item),
           NEW t, t.at = s.at, t.offers = With(s.offers, rows)
    PROVE  Fresh(t)
<1>1. \A n \in DOMAIN t.offers : \/ n \in DOMAIN s.offers /\ t.offers[n] = s.offers[n]
                                 \/ t.offers[n] = rows
  BY WithAdds
<1> QED BY <1>1 DEF Fresh

LEMMA FreshLeft ==
    ASSUME NEW s, Fresh(s), s.offers \in Seq(SUBSET Rows), s.offers # <<>>, NEW r,
           NEW t, t.at = s.at, t.offers = Without(s.offers, r)
    PROVE  Fresh(t)
<1> DEFINE k == IF Head(s.offers) = {r} THEN 1 ELSE 0
<1>1. \A n \in DOMAIN t.offers : n + k \in DOMAIN s.offers /\ t.offers[n] \subseteq s.offers[n + k]
  BY WithoutKeeps
<1> HIDE DEF k
<1> QED BY <1>1 DEF Fresh

\* The times of a sync do not change under way.
Kept(s, t) == t.at = s.at /\ t.since = s.since

LEMMA AfterStagingKeepsTimes ==
    ASSUME NEW s, IsSync(s)
    PROVE  Kept(s, AfterStaging(s))
BY AfterStagingIs DEF Kept

\* A page of products: what is on it is to be staged, what is behind it is still to come.
LEMMA FetchProductsCovers ==
    ASSUME IInv, NEW w \in Workers, FetchProducts(w), SyncCovers(sync[w], identity, lastPrice)
    PROVE  SyncCovers(sync'[w], identity, lastPrice) /\ Kept(sync[w], sync'[w])
<1> DEFINE s == sync[w]
           page == Page(Sold, s.offset)
           pages == With(<<>>, RowsOf(page))
           more == Cardinality(page) = PageSize
           next == s.offset + PageSize
           t == [s EXCEPT !.phase = "stage products", !.products = pages,
                          !.offset = next, !.more = more]
<1>1. IsSync(s) /\ s.phase = "products" /\ s.offset \in Nat /\ next \in Nat
  <2>1. IsSync(s) /\ s.phase = "products" /\ s.offset \in Nat
    BY BusyIsOK DEF FetchProducts, Phases, SyncOK, IsSync, SyncRecords
  <2>2. PageSize \in Nat
    BY SupplierAssumption
  <2> QED BY <2>1, <2>2
<1>2. sync'[w] = AfterStaging(t)
  BY MovesTo DEF FetchProducts, IInv
<1>3. page \in SUBSET Sold /\ Sold \in SUBSET Items
  BY PagesAreSold DEF IInv
<1>4. RowsOf(page) \in SUBSET Rows
  BY <1>3, PageIsGood DEF IInv
<1>5. pages \in Seq(SUBSET Rows) /\ \A i \in page : InPages(pages, Row(i))
  <2>1. <<>> \in Seq(SUBSET Rows)
    OBVIOUS
  <2>2. \A i \in page : Row(i) \in RowsOf(page)
    BY DEF RowsOf, Row
  <2> QED BY <1>4, <2>1, <2>2, WithAdds, InPagesAdded
<1>6. \A i \in Sold : s.offset <= Rank(Sold, i) => i \in page \/ (next <= Rank(Sold, i) /\ more)
  BY <1>1, <1>3, PageCovers
<1>7. more \in BOOLEAN
  OBVIOUS
<1> HIDE DEF page, pages, more, next
<1>8. /\ IsSync(t) /\ t.phase = "stage products" /\ t.products = pages /\ t.offset = next
      /\ t.more = more /\ t.kind = s.kind /\ t.at = s.at /\ t.since = s.since /\ t.offers = s.offers
  <2> HIDE DEF s
  <2>1. t \in SyncRecords({s.kind}, {s.mode})
    BY <1>1, <1>5, <1>7 DEF IsSync, SyncRecords, Phases
  <2>2. /\ t.mode = s.mode /\ t.phase = "stage products" /\ t.products = pages /\ t.offset = next
        /\ t.more = more /\ t.kind = s.kind /\ t.at = s.at /\ t.since = s.since /\ t.offers = s.offers
    BY <1>1 DEF IsSync, SyncRecords
  <2> QED BY <2>1, <2>2 DEF IsSync
<1> HIDE DEF t, s
<1>9. s.since = NoTime /\ PhaseOK(t) /\ Fresh(t)
  BY <1>1, <1>8 DEF SyncCovers, PhaseOK, Fresh, s
<1>10. ASSUME NEW i \in Items, Wanted(t, i)
       PROVE  /\ WithProducts => ProductMet(t, i, identity)
              /\ WithOffers /\ Price(i, Latest(i)) \in Prices => OfferMet(t, i, lastPrice)
  <2>1. WithProducts => ProductMet(s, i, identity)
    BY <1>1, <1>8, <1>10 DEF SyncCovers, Met, Wanted, s
  <2>2. Source(s) = Sold /\ Source(t) = Sold /\ i \in Sold
    BY <1>8, <1>9, <1>10, SourceIs DEF Source
  <2>3. WithProducts => ProductMet(t, i, identity)
    BY <1>1, <1>5, <1>6, <1>8, <2>1, <2>2 DEF ProductMet, Ahead
  <2>4. OfferMet(t, i, lastPrice)
    BY <1>8, <1>9 DEF OfferMet
  <2> QED BY <2>3, <2>4
<1>11. SyncCovers(t, identity, lastPrice)
  BY <1>9, <1>10 DEF SyncCovers, Met
<1> QED BY <1>2, <1>8, <1>11, AfterStagingCovers, AfterStagingKeepsTimes DEF Kept, s

\* A sync whose kind has no products owes the watermark nothing.
LEMMA NothingOwed ==
    ASSUME NEW s, PhaseOK(s), "products" \notin s.kind, NEW id, NEW lp
    PROVE  Met(s, id, lp)
<1>1. ~WithProducts /\ ~WithOffers
  BY DEF PhaseOK, WithProducts, WithOffers
<1> QED BY <1>1 DEF Met

\* A sync begins: everything it is to fetch is still to come.
LEMMA ReadWatermarkCovers ==
    ASSUME IInv, NEW w \in Workers, ReadWatermark(w), SyncCovers(sync[w], identity, lastPrice)
    PROVE  /\ SyncCovers(sync'[w], identity, lastPrice)
           /\ sync'[w].at = sync[w].at
           /\ sync'[w].since # NoTime => sync'[w].since = watermark
<1> DEFINE s == sync[w]
           since == IF s.mode = "delta" THEN watermark ELSE NoTime
           t == [s EXCEPT !.phase = "deltas", !.since = since]
           p == [s EXCEPT !.phase = "products"]
           o == AfterProducts(s)
<1>1. IsSync(s) /\ s.phase = "started" /\ s.offset = 0 /\ s.more /\ s.since = NoTime
      /\ PhaseOK(s) /\ Fresh(s)
  BY BusyIsOK DEF ReadWatermark, Phases, SyncOK, SyncCovers, PhaseOK
<1>2. sync'[w] = IF since # NoTime THEN t ELSE IF "products" \in s.kind THEN p ELSE o
  BY MovesTo DEF ReadWatermark, IInv
<1> HIDE DEF since
<1>3. /\ t.phase = "deltas" /\ t.since = since /\ t.offset = 0 /\ t.more
      /\ t.kind = s.kind /\ t.at = s.at /\ t.offers = s.offers
  BY <1>1 DEF IsSync, SyncRecords
<1>4. /\ p.phase = "products" /\ p.since = NoTime /\ p.offset = 0 /\ p.more
      /\ p.kind = s.kind /\ p.at = s.at /\ p.offers = s.offers
  BY <1>1 DEF IsSync, SyncRecords
<1>5. /\ o.phase \in {"offers", "watermark"} /\ o.since = NoTime
      /\ o.phase = "offers" => o.more
      /\ o.kind = s.kind /\ o.at = s.at /\ o.offers = s.offers
  BY <1>1 DEF IsSync, SyncRecords, AfterProducts
<1> HIDE DEF t, p, o, s
<1>6. ASSUME NEW q, q.phase \in {"products", "deltas"}, q.more, q.offset = 0
      PROVE  Met(q, identity, lastPrice)
  <2> SUFFICES ASSUME NEW i \in Items, Wanted(q, i)
               PROVE  ProductMet(q, i, identity) /\ OfferMet(q, i, lastPrice)
    BY DEF Met
  <2>1. 0 <= Rank(Source(q), i)
    <3>1. Source(q) \in SUBSET Items
      BY SourceIs
    <3>2. Rank(Source(q), i) \in Nat
      BY <3>1, RankIs
    <3> QED BY <3>2
  <2>2. Ahead(q, i)
    BY <1>6, <2>1 DEF Ahead
  <2> QED BY <1>6, <2>2 DEF ProductMet, OfferMet
<1>7. CASE since # NoTime
  <2>1. PhaseOK(t) /\ Fresh(t)
    BY <1>1, <1>3, <1>7 DEF PhaseOK, Fresh
  <2>2. since = watermark
    BY <1>7 DEF since
  <2> QED BY <1>2, <1>3, <1>6, <1>7, <2>1, <2>2 DEF SyncCovers, s
<1>8. CASE since = NoTime /\ "products" \in s.kind
  <2>1. PhaseOK(p) /\ Fresh(p)
    BY <1>1, <1>4 DEF PhaseOK, Fresh
  <2> QED BY <1>2, <1>4, <1>6, <1>8, <2>1 DEF SyncCovers, s
<1>9. CASE since = NoTime /\ "products" \notin s.kind
  <2>1. PhaseOK(o) /\ Fresh(o)
    BY <1>1, <1>5 DEF PhaseOK, Fresh
  <2>2. Met(o, identity, lastPrice)
    BY <1>5, <1>9, <2>1, NothingOwed
  <2> QED BY <1>2, <1>5, <1>9, <2>1, <2>2 DEF SyncCovers, s
<1> QED BY <1>7, <1>8, <1>9

\* A page of offers: those with a price are kept, until the last page.
LEMMA FetchOffersCovers ==
    ASSUME IInv, NEW w \in Workers, FetchOffers(w), SyncCovers(sync[w], identity, lastPrice)
    PROVE  SyncCovers(sync'[w], identity, lastPrice) /\ Kept(sync[w], sync'[w])
<1> DEFINE s == sync[w]
           page == Page(Sold, s.offset)
           rows == Priced(RowsOf(page))
           pages == With(s.offers, rows)
           next == s.offset + PageSize
           full == Cardinality(page) = PageSize
           f == [s EXCEPT !.offset = next, !.offers = pages]
           t == [f EXCEPT !.phase = "stage offers"]
<1>1. /\ IsSync(s) /\ s.phase = "offers" /\ s.offset \in Nat /\ next \in Nat
      /\ s.offers \in Seq(SUBSET Rows)
  <2>1. IsSync(s) /\ s.phase = "offers" /\ s.offset \in Nat /\ s.offers \in Seq(SUBSET Rows)
    BY BusyIsOK DEF FetchOffers, Phases, SyncOK, IsSync, SyncRecords
  <2>2. PageSize \in Nat
    BY SupplierAssumption
  <2> QED BY <2>1, <2>2
<1>2. sync'[w] = IF full THEN f ELSE AfterStaging(t)
  BY MovesTo DEF FetchOffers, IInv
<1>3. page \in SUBSET Sold /\ Sold \in SUBSET Items
  BY PagesAreSold DEF IInv
<1>4. /\ rows \in SUBSET Rows
      /\ \A r \in rows : r.version = Latest(r.item)
      /\ \A i \in page : Price(i, Latest(i)) \in Prices => Row(i) \in rows
  <2>1. /\ rows \in SUBSET Rows
        /\ \A r \in rows : r.version = Latest(r.item)
    BY <1>3, PageIsGood DEF IInv, Latest
  <2>2. ASSUME NEW i \in page, Price(i, Latest(i)) \in Prices PROVE Row(i) \in rows
    BY <2>2 DEF RowsOf, Priced, Row
  <2> QED BY <2>1, <2>2
<1>5. \A i \in Sold : s.offset <= Rank(Sold, i) => i \in page \/ (next <= Rank(Sold, i) /\ full)
  BY <1>1, <1>3, PageCovers
<1> HIDE DEF page, rows
<1>6. pages \in Seq(SUBSET Rows)
  BY <1>1, <1>4, WithAdds
<1>7. \A i : /\ InPages(s.offers, Row(i)) => InPages(pages, Row(i))
             /\ Row(i) \in rows => InPages(pages, Row(i))
  BY <1>1, <1>4, InPagesAdded
<1>8. pages = With(s.offers, rows)
  OBVIOUS
<1> HIDE DEF pages, next, full
<1>9. /\ f \in SyncRecords({s.kind}, {s.mode}) /\ f.mode = s.mode
      /\ f.phase = s.phase /\ f.offers = pages /\ f.offset = next
      /\ f.more = s.more /\ f.kind = s.kind /\ f.at = s.at /\ f.since = s.since
  <2> HIDE DEF s
  <2> QED BY <1>1, <1>6 DEF IsSync, SyncRecords
<1> HIDE DEF f, s
<1>10. /\ IsSync(t) /\ t.phase = "stage offers" /\ t.offers = pages
       /\ t.kind = s.kind /\ t.at = s.at /\ t.since = s.since
  <2>1. t \in SyncRecords({s.kind}, {s.mode})
    BY <1>9 DEF SyncRecords, Phases
  <2>2. /\ t.phase = "stage offers" /\ t.offers = pages /\ t.mode = s.mode
        /\ t.kind = s.kind /\ t.at = s.at /\ t.since = s.since
    BY <1>9 DEF SyncRecords
  <2> QED BY <2>1, <2>2 DEF IsSync
<1> HIDE DEF t
<1>11. /\ s.since = NoTime /\ s.more /\ PhaseOK(f) /\ PhaseOK(t)
  BY <1>1, <1>9, <1>10 DEF SyncCovers, PhaseOK, s
<1>12. Fresh(f) /\ Fresh(t)
  <2>1. Fresh(s)
    BY DEF SyncCovers, s
  <2> QED BY <1>1, <1>4, <1>8, <1>9, <1>10, <2>1, FreshAdded
<1>13. ASSUME NEW i \in Items, Wanted(s, i)
       PROVE  /\ WithProducts => i \in identity
              /\ WithOffers /\ Price(i, Latest(i)) \in Prices =>
                    \/ lastPrice[i] = Price(i, Latest(i))
                    \/ InPages(pages, Row(i))
                    \/ full /\ next <= Rank(Sold, i)
  <2>1. /\ WithProducts => ProductMet(s, i, identity)
        /\ WithOffers /\ Price(i, Latest(i)) \in Prices => OfferMet(s, i, lastPrice)
    BY <1>1, <1>13 DEF SyncCovers, Met, s
  <2>2. Source(s) = Sold /\ i \in Sold
    BY <1>11, <1>13, SourceIs DEF Source
  <2> QED BY <1>1, <1>4, <1>5, <1>7, <2>1, <2>2 DEF ProductMet, OfferMet, Ahead
<1>14. ASSUME full PROVE SyncCovers(f, identity, lastPrice)
  <2>1. ASSUME NEW i \in Items, Wanted(f, i)
        PROVE  /\ WithProducts => ProductMet(f, i, identity)
               /\ WithOffers /\ Price(i, Latest(i)) \in Prices => OfferMet(f, i, lastPrice)
    <3>1. Wanted(s, i) /\ Source(f) = Sold
      BY <1>9, <1>11, <2>1 DEF Wanted, Source
    <3> QED BY <1>1, <1>9, <1>11, <1>13, <3>1 DEF ProductMet, OfferMet, Ahead
  <2> QED BY <1>11, <1>12, <2>1 DEF SyncCovers, Met
<1>15. ASSUME ~full PROVE SyncCovers(t, identity, lastPrice)
  <2>1. ASSUME NEW i \in Items, Wanted(t, i)
        PROVE  /\ WithProducts => ProductMet(t, i, identity)
               /\ WithOffers /\ Price(i, Latest(i)) \in Prices => OfferMet(t, i, lastPrice)
    <3>1. Wanted(s, i)
      BY <1>10, <2>1 DEF Wanted
    <3> QED BY <1>10, <1>13, <1>15, <3>1 DEF ProductMet, OfferMet
  <2> QED BY <1>11, <1>12, <2>1 DEF SyncCovers, Met
<1>16. CASE full
  BY <1>2, <1>9, <1>14, <1>16 DEF Kept, s
<1>17. CASE ~full
  BY <1>2, <1>10, <1>15, <1>17, AfterStagingCovers, AfterStagingKeepsTimes DEF Kept, s
<1> QED BY <1>16, <1>17

\* A delta sync has fetched all it is to stage.
LEMMA StageDeltaCovers ==
    ASSUME NEW s, IsSync(s), s.since # NoTime, ~s.more, Fresh(s), SyncedKinds \subseteq s.kind,
           NEW id, NEW lp,
           \A i \in Items : Wanted(s, i) =>
              /\ WithProducts => i \in id \/ InPages(s.products, Row(i))
              /\ WithOffers /\ Price(i, Latest(i)) \in Prices =>
                    lp[i] = Price(i, Latest(i)) \/ InPages(s.offers, Row(i))
    PROVE  SyncCovers(StageDelta(s), id, lp) /\ Kept(s, StageDelta(s))
<1> DEFINE phase == IF "products" \in s.kind THEN "stage products" ELSE "stage offers"
           offers == IF "offers" \in s.kind THEN s.offers ELSE <<>>
           u == [s EXCEPT !.phase = phase, !.offers = offers]
<1>1. phase \in Phases /\ offers \in Seq(SUBSET Rows)
  <2>1. s.offers \in Seq(SUBSET Rows) /\ <<>> \in Seq(SUBSET Rows)
    BY DEF IsSync, SyncRecords
  <2> QED BY <2>1 DEF Phases
<1>2. StageDelta(s) = AfterStaging(u)
  BY DEF StageDelta, IsSync, SyncRecords
<1>3. /\ phase = "stage products" => "products" \in s.kind
      /\ phase = "stage offers" => "products" \notin s.kind
      /\ phase \in {"stage products", "stage offers"}
      /\ offers \in {s.offers, <<>>} /\ ("offers" \in s.kind => offers = s.offers)
  OBVIOUS
<1> HIDE DEF phase, offers
<1>4. /\ IsSync(u) /\ u.phase = phase /\ u.offers = offers /\ u.products = s.products
      /\ u.more = s.more /\ u.kind = s.kind /\ u.at = s.at /\ u.since = s.since
  <2>1. /\ u.phase = phase /\ u.offers = offers /\ u.products = s.products /\ u.mode = s.mode
        /\ u.more = s.more /\ u.kind = s.kind /\ u.at = s.at /\ u.since = s.since
    BY DEF IsSync, SyncRecords
  <2>2. u \in SyncRecords({s.kind}, {s.mode})
    BY <1>1 DEF IsSync, SyncRecords
  <2> QED BY <2>1, <2>2 DEF IsSync
<1> HIDE DEF u
<1>5. PhaseOK(u)
  BY <1>3, <1>4 DEF PhaseOK
<1>6. Fresh(u)
  <2>1. CASE offers = s.offers
    BY <1>4, <2>1 DEF Fresh
  <2>2. CASE offers = <<>>
    <3>1. DOMAIN u.offers = {}
      BY <1>4, <2>2
    <3> QED BY <3>1 DEF Fresh
  <2> QED BY <1>3, <2>1, <2>2
<1>7. Met(u, id, lp)
  <2>1. CASE phase = "stage offers"
    BY <1>3, <1>4, <1>5, <2>1, NothingOwed
  <2>2. CASE phase = "stage products"
    <3> SUFFICES ASSUME NEW i \in Items, Wanted(u, i)
                 PROVE  /\ WithProducts => ProductMet(u, i, id)
                        /\ WithOffers /\ Price(i, Latest(i)) \in Prices => OfferMet(u, i, lp)
      BY DEF Met
    <3>1. Wanted(s, i)
      BY <1>4 DEF Wanted
    <3>2. WithOffers => offers = s.offers
      BY <1>3 DEF WithOffers
    <3> QED BY <1>4, <2>2, <3>1, <3>2 DEF ProductMet, OfferMet
  <2> QED BY <1>3, <2>1, <2>2
<1>8. SyncCovers(AfterStaging(u), id, lp) /\ Kept(u, AfterStaging(u))
  BY <1>4, <1>5, <1>6, <1>7, AfterStagingCovers, AfterStagingKeepsTimes DEF SyncCovers
<1> QED BY <1>2, <1>4, <1>8 DEF Kept

\* A page of modified products: to be fetched one by one, or, if there is none, the end.
LEMMA FetchDeltasCovers ==
    ASSUME IInv, NEW w \in Workers, FetchDeltas(w), SyncCovers(sync[w], identity, lastPrice)
    PROVE  SyncCovers(sync'[w], identity, lastPrice) /\ Kept(sync[w], sync'[w])
<1> DEFINE s == sync[w]
           list == ModifiedSince(s.since)
           page == Page(list, s.offset)
           next == s.offset + PageSize
           full == Cardinality(page) = PageSize
           f == [s EXCEPT !.offset = next, !.ids = page, !.more = full]
           t == [f EXCEPT !.phase = "items"]
<1>1. /\ IsSync(s) /\ s.phase = "deltas" /\ s.offset \in Nat /\ next \in Nat
      /\ s.since # NoTime /\ s.more /\ Fresh(s) /\ PhaseOK(s)
  <2>1. IsSync(s) /\ s.phase = "deltas" /\ s.offset \in Nat
    BY BusyIsOK DEF FetchDeltas, Phases, SyncOK, IsSync, SyncRecords
  <2>2. s.since # NoTime /\ s.more /\ Fresh(s) /\ PhaseOK(s)
    BY <2>1 DEF SyncCovers, PhaseOK
  <2>3. PageSize \in Nat
    BY SupplierAssumption
  <2> QED BY <2>1, <2>2, <2>3
<1>2. sync'[w] = IF page = {} THEN StageDelta(f) ELSE t
  BY MovesTo DEF FetchDeltas, IInv
<1>3. page \in SUBSET Items /\ list \in SUBSET Items
  BY DEF Page, ModifiedSince, Sold
<1>4. \A i \in list : s.offset <= Rank(list, i) => i \in page \/ (next <= Rank(list, i) /\ full)
  BY <1>1, <1>3, PageCovers
<1>5. page = {} => ~full
  BY SupplierAssumption, FS_EmptySet
<1>6. full \in BOOLEAN
  OBVIOUS
<1> HIDE DEF page, next, full, list
<1>7. /\ f \in SyncRecords({s.kind}, {s.mode}) /\ f.mode = s.mode
      /\ f.phase = s.phase /\ f.offers = s.offers /\ f.products = s.products
      /\ f.offset = next /\ f.more = full /\ f.ids = page
      /\ f.kind = s.kind /\ f.at = s.at /\ f.since = s.since
  <2> HIDE DEF s
  <2> QED BY <1>1, <1>3, <1>6 DEF IsSync, SyncRecords
<1> HIDE DEF f, s
<1>8. /\ t.phase = "items" /\ t.offers = s.offers /\ t.products = s.products
      /\ t.offset = next /\ t.more = full /\ t.ids = page
      /\ t.kind = s.kind /\ t.at = s.at /\ t.since = s.since
  BY <1>7 DEF SyncRecords
<1> HIDE DEF t
<1>9. ASSUME NEW i \in Items, Wanted(s, i)
      PROVE  LET coming == i \in page \/ (full /\ next <= Rank(list, i))
             IN  /\ WithProducts =>
                       i \in identity \/ coming \/ InPages(s.products, Row(i))
                 /\ WithOffers /\ Price(i, Latest(i)) \in Prices =>
                       lastPrice[i] = Price(i, Latest(i)) \/ coming \/ InPages(s.offers, Row(i))
  <2>1. /\ WithProducts => ProductMet(s, i, identity)
        /\ WithOffers /\ Price(i, Latest(i)) \in Prices => OfferMet(s, i, lastPrice)
    BY <1>1, <1>9 DEF SyncCovers, Met, s
  <2>2. Source(s) = list /\ i \in list
    BY <1>1, <1>9, SourceIs DEF Source, list
  <2> QED BY <1>1, <1>4, <2>1, <2>2 DEF ProductMet, OfferMet, Ahead
<1>10. CASE page = {}
  <2>1. Fresh(f)
    BY <1>1, <1>7 DEF Fresh
  <2>2. IsSync(f) /\ SyncedKinds \subseteq f.kind
    BY <1>1, <1>7 DEF IsSync, PhaseOK
  <2>3. \A i \in Items : Wanted(f, i) => Wanted(s, i)
    BY <1>7 DEF Wanted
  <2>4. SyncCovers(StageDelta(f), identity, lastPrice) /\ Kept(f, StageDelta(f))
    BY <1>1, <1>5, <1>7, <1>9, <1>10, <2>1, <2>2, <2>3, StageDeltaCovers
  <2> QED BY <1>2, <1>7, <1>10, <2>4 DEF Kept, s
<1>11. CASE page # {}
  <2>1. PhaseOK(t) /\ Fresh(t)
    BY <1>1, <1>8 DEF PhaseOK, Fresh
  <2>2. ASSUME NEW i \in Items, Wanted(t, i)
        PROVE  /\ WithProducts => ProductMet(t, i, identity)
               /\ WithOffers /\ Price(i, Latest(i)) \in Prices => OfferMet(t, i, lastPrice)
    <3>1. Wanted(s, i)
      BY <1>8, <2>2 DEF Wanted
    <3>2. Source(t) = list
      BY <1>1, <1>8 DEF Source, list
    <3> QED BY <1>8, <1>9, <3>1, <3>2 DEF ProductMet, OfferMet, Ahead
  <2>3. SyncCovers(t, identity, lastPrice)
    BY <2>1, <2>2 DEF SyncCovers, Met
  <2> QED BY <1>2, <1>8, <1>11, <2>3 DEF Kept, s
<1> QED BY <1>10, <1>11

\* A modified product, as it is now: its row and its offer are to be staged.
LEMMA FetchDeltaItemCovers ==
    ASSUME IInv, NEW w \in Workers, FetchDeltaItem(w), SyncCovers(sync[w], identity, lastPrice)
    PROVE  SyncCovers(sync'[w], identity, lastPrice) /\ Kept(sync[w], sync'[w])
<1> DEFINE s == sync[w]
<1>1. /\ IsSync(s) /\ s.phase = "items" /\ s.since # NoTime /\ Fresh(s) /\ PhaseOK(s)
      /\ s.products \in Seq(SUBSET Rows) /\ s.offers \in Seq(SUBSET Rows)
      /\ s.ids \in SUBSET Items
  BY BusyIsOK DEF FetchDeltaItem, Phases, SyncOK, IsSync, SyncRecords, SyncCovers, PhaseOK
<1>2. PICK i \in s.ids :
        LET row == [item |-> i, version |-> Latest(i)]
            f == [s EXCEPT !.ids = @ \ {i}, !.products = Append(@, {row}),
                           !.offers = With(@, Priced({row}))]
        IN  /\ Listed(i)
            /\ sync' = [sync EXCEPT ![w] =
                          CASE f.ids # {} -> f
                            [] f.ids = {} /\ s.more -> [f EXCEPT !.phase = "deltas"]
                            [] OTHER -> StageDelta(f)]
  BY DEF FetchDeltaItem
<1> DEFINE row == [item |-> i, version |-> Latest(i)]
           rest == s.ids \ {i}
           products == Append(s.products, {row})
           offers == With(s.offers, Priced({row}))
           f == [s EXCEPT !.ids = rest, !.products = products, !.offers = offers]
           t == [f EXCEPT !.phase = "deltas"]
<1>3. {i} \in SUBSET Sold /\ RowsOf({i}) = {row}
  BY <1>1, <1>2 DEF Sold, RowsOf
<1>4. /\ {row} \in SUBSET Rows /\ Priced({row}) \in SUBSET Rows
      /\ \A r \in Priced({row}) : r.version = Latest(r.item)
  BY <1>3, PageIsGood DEF IInv, Latest
<1>5. row = Row(i) /\ (Price(i, Latest(i)) \in Prices => Row(i) \in Priced({row}))
  BY DEF Row, Priced
<1>6. sync'[w] = CASE f.ids # {} -> f [] f.ids = {} /\ s.more -> t [] OTHER -> StageDelta(f)
  BY <1>1, <1>2, MovesTo DEF IInv, IsSync, SyncRecords
<1> HIDE DEF row
<1>7. products = With(s.products, {row}) /\ offers = With(s.offers, Priced({row}))
  BY DEF With
<1> HIDE DEF products, offers
<1>8. products \in Seq(SUBSET Rows) /\ offers \in Seq(SUBSET Rows)
  BY <1>1, <1>4, <1>7, WithAdds
<1>9. \A j : /\ InPages(s.products, Row(j)) => InPages(products, Row(j))
             /\ InPages(s.offers, Row(j)) => InPages(offers, Row(j))
             /\ j = i => InPages(products, Row(j))
             /\ j = i /\ Price(i, Latest(i)) \in Prices => InPages(offers, Row(j))
  BY <1>1, <1>4, <1>5, <1>7, InPagesAdded
<1>10. rest \in SUBSET Items
  BY <1>1
<1> HIDE DEF rest
<1>11. /\ f \in SyncRecords({s.kind}, {s.mode}) /\ f.mode = s.mode
       /\ f.phase = s.phase /\ f.offers = offers /\ f.products = products
       /\ f.offset = s.offset /\ f.more = s.more /\ f.ids = rest
       /\ f.kind = s.kind /\ f.at = s.at /\ f.since = s.since
  <2> HIDE DEF s
  <2> QED BY <1>1, <1>8, <1>10 DEF IsSync, SyncRecords
<1> HIDE DEF f, s
<1>12. /\ t.phase = "deltas" /\ t.offers = offers /\ t.products = products
       /\ t.offset = s.offset /\ t.more = s.more /\ t.ids = rest
       /\ t.kind = s.kind /\ t.at = s.at /\ t.since = s.since
  BY <1>11 DEF SyncRecords
<1> HIDE DEF t
<1>13. ASSUME NEW j \in Items, Wanted(s, j)
       PROVE  LET coming == j \in rest \/ (s.more /\ s.offset <= Rank(Source(s), j))
              IN  /\ WithProducts =>
                        j \in identity \/ coming \/ InPages(products, Row(j))
                  /\ WithOffers /\ Price(j, Latest(j)) \in Prices =>
                        lastPrice[j] = Price(j, Latest(j)) \/ coming \/ InPages(offers, Row(j))
  <2>1. /\ WithProducts => ProductMet(s, j, identity)
        /\ WithOffers /\ Price(j, Latest(j)) \in Prices => OfferMet(s, j, lastPrice)
    BY <1>1, <1>13 DEF SyncCovers, Met, s
  <2>2. j \in s.ids => j \in rest \/ j = i
    BY DEF rest
  <2> QED BY <1>1, <1>9, <2>1, <2>2 DEF ProductMet, OfferMet, Ahead
<1>14. Fresh(f) /\ Fresh(t)
  BY <1>1, <1>4, <1>7, <1>11, <1>12, FreshAdded
<1>15. ASSUME f.ids # {} PROVE SyncCovers(f, identity, lastPrice)
  <2>1. PhaseOK(f)
    BY <1>1, <1>11 DEF PhaseOK
  <2>2. ASSUME NEW j \in Items, Wanted(f, j)
        PROVE  /\ WithProducts => ProductMet(f, j, identity)
               /\ WithOffers /\ Price(j, Latest(j)) \in Prices => OfferMet(f, j, lastPrice)
    <3>1. Wanted(s, j) /\ Source(f) = Source(s)
      BY <1>11, <2>2 DEF Wanted, Source
    <3> QED BY <1>1, <1>11, <1>13, <3>1 DEF ProductMet, OfferMet, Ahead
  <2> QED BY <1>14, <2>1, <2>2 DEF SyncCovers, Met
<1>16. ASSUME f.ids = {}, s.more PROVE SyncCovers(t, identity, lastPrice)
  <2>1. PhaseOK(t)
    BY <1>1, <1>12, <1>16 DEF PhaseOK
  <2>2. ASSUME NEW j \in Items, Wanted(t, j)
        PROVE  /\ WithProducts => ProductMet(t, j, identity)
               /\ WithOffers /\ Price(j, Latest(j)) \in Prices => OfferMet(t, j, lastPrice)
    <3>1. Wanted(s, j) /\ Source(t) = Source(s)
      BY <1>12, <2>2 DEF Wanted, Source
    <3>2. j \notin rest
      BY <1>11, <1>16
    <3> QED BY <1>12, <1>13, <3>1, <3>2 DEF ProductMet, OfferMet, Ahead
  <2> QED BY <1>14, <2>1, <2>2 DEF SyncCovers, Met
<1>17. ASSUME f.ids = {}, ~s.more
       PROVE  SyncCovers(StageDelta(f), identity, lastPrice) /\ Kept(f, StageDelta(f))
  <2>1. \A j \in Items : Wanted(f, j) => Wanted(s, j)
    BY <1>11 DEF Wanted
  <2>2. IsSync(f) /\ SyncedKinds \subseteq f.kind
    BY <1>1, <1>11 DEF IsSync, PhaseOK
  <2> QED BY <1>1, <1>11, <1>13, <1>14, <1>17, <2>1, <2>2, StageDeltaCovers
<1>18. CASE f.ids # {}
  BY <1>6, <1>11, <1>15, <1>18 DEF Kept, s
<1>19. CASE f.ids = {} /\ s.more
  BY <1>6, <1>12, <1>16, <1>19 DEF Kept, s
<1>20. CASE f.ids = {} /\ ~s.more
  BY <1>6, <1>11, <1>17, <1>20 DEF Kept, s
<1> QED BY <1>18, <1>19, <1>20

\* What a transaction has read makes no difference to what is covered.
LEMMA ReadingCovers ==
    ASSUME NEW s, NEW id, NEW lp, SyncCovers(s, id, lp), NEW t,
           t.phase = s.phase, t.kind = s.kind, t.at = s.at, t.since = s.since,
           t.offset = s.offset, t.more = s.more, t.ids = s.ids,
           t.products = s.products, t.offers = s.offers
    PROVE  SyncCovers(t, id, lp)
<1>1. PhaseOK(t) /\ Fresh(t)
  BY DEF SyncCovers, PhaseOK, Fresh
<1>2. ASSUME Met(s, id, lp) PROVE Met(t, id, lp)
  <2> SUFFICES ASSUME NEW i \in Items, Wanted(t, i)
               PROVE  /\ WithProducts => ProductMet(t, i, id)
                      /\ WithOffers /\ Price(i, Latest(i)) \in Prices => OfferMet(t, i, lp)
    BY DEF Met
  <2>1. Wanted(s, i) /\ Source(t) = Source(s)
    BY DEF Wanted, Source
  <2>2. /\ WithProducts => ProductMet(s, i, id)
        /\ WithOffers /\ Price(i, Latest(i)) \in Prices => OfferMet(s, i, lp)
    BY <1>2, <2>1 DEF Met
  <2> QED BY <2>1, <2>2 DEF ProductMet, OfferMet, Ahead
<1> QED BY <1>1, <1>2 DEF SyncCovers

LEMMA ResolveProductCovers ==
    ASSUME IInv, NEW w \in Workers, ResolveProduct(w), SyncCovers(sync[w], identity, lastPrice)
    PROVE  SyncCovers(sync'[w], identity, lastPrice) /\ Kept(sync[w], sync'[w])
<1> DEFINE s == sync[w]
<1>1. IsSync(s)
  BY BusyIsOK DEF ResolveProduct, Phases, SyncOK
<1>2. PICK x : sync' = [sync EXCEPT ![w].reading = x]
  BY DEF ResolveProduct
<1> DEFINE t == [s EXCEPT !.reading = x]
<1>3. sync' = [sync EXCEPT ![w] = t]
  BY <1>2, Zenon
<1>4. sync'[w] = t
  <2> HIDE DEF t
  <2> QED BY <1>3, MovesTo DEF IInv
<1>5. /\ t.phase = s.phase /\ t.kind = s.kind /\ t.at = s.at /\ t.since = s.since
      /\ t.offset = s.offset /\ t.more = s.more /\ t.ids = s.ids
      /\ t.products = s.products /\ t.offers = s.offers
  BY <1>1 DEF IsSync, SyncRecords
<1> HIDE DEF t
<1> QED BY <1>4, <1>5, ReadingCovers DEF Kept

\* A product's row is taken off what is to be staged and is in the table.
LEMMA StageProductCovers ==
    ASSUME IInv, NEW w \in Workers, StageProduct(w), SyncCovers(sync[w], identity, lastPrice)
    PROVE  SyncCovers(sync'[w], identity', lastPrice) /\ Kept(sync[w], sync'[w])
<1> DEFINE s == sync[w]
           r == s.reading.row
           left == Without(s.products, r)
           t == [s EXCEPT !.reading = NotReading, !.products = left]
<1>1. /\ IsSync(s) /\ s.phase = "stage products" /\ s.products \in Seq(SUBSET Rows)
      /\ s.products # <<>>
  BY BusyIsOK DEF StageProduct, Phases, SyncOK, IsSync, SyncRecords
<1>2. sync'[w] = AfterStaging(t)
  BY MovesTo DEF StageProduct, IInv
<1>3. identity' = identity \cup {r.item}
  BY DEF StageProduct
<1>4. left \in Seq(SUBSET Rows)
      /\ \A i : Row(i) # r /\ InPages(s.products, Row(i)) => InPages(left, Row(i))
  BY <1>1, WithoutKeeps, InPagesLeft
<1>5. \A i : Row(i) = r => i \in identity'
  BY <1>3 DEF Row
<1> HIDE DEF left, r
<1>6. /\ IsSync(t) /\ t.phase = "stage products" /\ t.products = left /\ t.offers = s.offers
      /\ t.offset = s.offset /\ t.more = s.more /\ t.kind = s.kind /\ t.at = s.at
      /\ t.since = s.since
  <2> HIDE DEF s
  <2>1. t \in SyncRecords({s.kind}, {s.mode})
    BY <1>1, <1>4 DEF IsSync, SyncRecords
  <2>2. /\ t.phase = "stage products" /\ t.products = left /\ t.offers = s.offers
        /\ t.offset = s.offset /\ t.more = s.more /\ t.kind = s.kind /\ t.at = s.at
        /\ t.since = s.since /\ t.mode = s.mode
    BY <1>1 DEF IsSync, SyncRecords
  <2> QED BY <2>1, <2>2 DEF IsSync
<1> HIDE DEF t, s
<1>7. PhaseOK(t) /\ Fresh(t)
  BY <1>1, <1>6 DEF SyncCovers, PhaseOK, Fresh, s
<1>8. ASSUME NEW i \in Items, Wanted(t, i)
      PROVE  /\ WithProducts => ProductMet(t, i, identity')
             /\ WithOffers /\ Price(i, Latest(i)) \in Prices => OfferMet(t, i, lastPrice)
  <2>1. Wanted(s, i) /\ Source(t) = Source(s)
    BY <1>6, <1>8 DEF Wanted, Source
  <2>2. /\ WithProducts => ProductMet(s, i, identity)
        /\ WithOffers /\ Price(i, Latest(i)) \in Prices => OfferMet(s, i, lastPrice)
    BY <1>1, <2>1 DEF SyncCovers, Met, s
  <2>3. WithProducts => ProductMet(t, i, identity')
    BY <1>1, <1>3, <1>4, <1>5, <1>6, <2>1, <2>2 DEF ProductMet, Ahead
  <2>4. WithOffers /\ Price(i, Latest(i)) \in Prices => OfferMet(t, i, lastPrice)
    BY <1>1, <1>6, <2>1, <2>2 DEF OfferMet, Ahead
  <2> QED BY <2>3, <2>4
<1>9. SyncCovers(t, identity', lastPrice)
  BY <1>7, <1>8 DEF SyncCovers, Met
<1> QED BY <1>2, <1>6, <1>9, AfterStagingCovers, AfterStagingKeepsTimes DEF Kept, s

\* The sync t is s with the offer's row r taken off what is to be staged ...
IsWithout(t, s, r) ==
    /\ IsSync(s) /\ s.phase = "stage offers" /\ s.offers # <<>>
    /\ IsSync(t) /\ t.phase = "stage offers" /\ t.products = s.products
    /\ t.offers = Without(s.offers, r)
    /\ t.offset = s.offset /\ t.more = s.more /\ t.kind = s.kind /\ t.at = s.at
    /\ t.since = s.since

LEMMA TakenOff ==
    ASSUME NEW s, IsSync(s), s.phase = "stage offers", s.offers # <<>>, NEW r
    PROVE  IsWithout([s EXCEPT !.reading = NotReading, !.offers = Without(@, r)], s, r)
<1> DEFINE left == Without(s.offers, r)
           t == [s EXCEPT !.reading = NotReading, !.offers = left]
<1>1. left \in Seq(SUBSET Rows)
  BY WithoutKeeps DEF IsSync, SyncRecords
<1> HIDE DEF left
<1>2. t \in SyncRecords({s.kind}, {s.mode})
  BY <1>1 DEF IsSync, SyncRecords
<1>3. /\ t.phase = "stage offers" /\ t.products = s.products /\ t.offers = left
      /\ t.offset = s.offset /\ t.more = s.more /\ t.kind = s.kind /\ t.at = s.at
      /\ t.since = s.since /\ t.mode = s.mode
  BY DEF IsSync, SyncRecords
<1>4. t = [s EXCEPT !.reading = NotReading, !.offers = Without(@, r)]
  BY DEF left, IsSync, SyncRecords
<1> HIDE DEF t
<1>5. IsWithout(t, s, r)
  BY <1>2, <1>3 DEF IsWithout, IsSync, left
<1> QED BY <1>4, <1>5

\* ... once it is no longer owed: the product is not known and need not be, or its price is
\* in the table.
IsPaid(s, r, lp, lq) ==
    \A i \in Items : Wanted(s, i) /\ WithOffers =>
        IF Row(i) = r THEN lq[i] = Price(i, Latest(i)) ELSE lq[i] = lp[i]

LEMMA OfferLeaves ==
    ASSUME NEW s, NEW t, NEW r, NEW id, NEW lp, NEW lq,
           IsWithout(t, s, r), SyncCovers(s, id, lp), IsPaid(s, r, lp, lq)
    PROVE  SyncCovers(AfterStaging(t), id, lq) /\ Kept(s, AfterStaging(t))
<1>1. s.offers \in Seq(SUBSET Rows) /\ s.offers # <<>>
  BY DEF IsWithout, IsSync, SyncRecords
<1>2. \A i : Row(i) # r /\ InPages(s.offers, Row(i)) => InPages(t.offers, Row(i))
  BY <1>1, InPagesLeft DEF IsWithout
<1>3. PhaseOK(t)
  BY DEF IsWithout, SyncCovers, PhaseOK
<1>4. Fresh(t)
  <2>1. Fresh(s) /\ t.at = s.at /\ t.offers = Without(s.offers, r)
    BY DEF IsWithout, SyncCovers
  <2> QED BY <1>1, <2>1, FreshLeft
<1>5. ASSUME NEW i \in Items, Wanted(t, i)
      PROVE  /\ WithProducts => ProductMet(t, i, id)
             /\ WithOffers /\ Price(i, Latest(i)) \in Prices => OfferMet(t, i, lq)
  <2>1. Wanted(s, i)
    BY <1>5 DEF Wanted, IsWithout
  <2>2. /\ WithProducts => ProductMet(s, i, id)
        /\ WithOffers /\ Price(i, Latest(i)) \in Prices => OfferMet(s, i, lp)
    BY <2>1 DEF SyncCovers, Met, IsWithout
  <2>3. WithProducts => ProductMet(t, i, id)
    BY <2>2 DEF ProductMet, Ahead, IsWithout
  <2>4. WithOffers /\ Price(i, Latest(i)) \in Prices =>
           lp[i] = Price(i, Latest(i)) \/ InPages(s.offers, Row(i))
    BY <2>2 DEF OfferMet, Ahead, IsWithout
  <2>5. WithOffers /\ Price(i, Latest(i)) \in Prices => OfferMet(t, i, lq)
    BY <1>2, <2>1, <2>4 DEF OfferMet, IsPaid, IsWithout
  <2> QED BY <2>3, <2>5
<1>6. SyncCovers(t, id, lq)
  BY <1>3, <1>4, <1>5 DEF SyncCovers, Met
<1> QED BY <1>6, AfterStagingCovers, AfterStagingKeepsTimes DEF Kept, IsWithout

LEMMA ResolveOfferCovers ==
    ASSUME IInv, NEW w \in Workers, ResolveOffer(w), SyncCovers(sync[w], identity, lastPrice)
    PROVE  SyncCovers(sync'[w], identity, lastPrice) /\ Kept(sync[w], sync'[w])
<1> DEFINE s == sync[w]
<1>1. /\ IsSync(s) /\ s.phase = "stage offers" /\ s.offers # <<>> /\ s.reading = NotReading
  BY BusyIsOK DEF ResolveOffer, Phases, SyncOK
<1>2. PICK r \in Head(s.offers) :
        sync' = [sync EXCEPT ![w] =
                   IF r.item \in identity
                   THEN [s EXCEPT !.reading = [row |-> r, read |-> lastPrice[r.item]]]
                   ELSE AfterStaging([s EXCEPT !.offers = Without(@, r)])]
  BY DEF ResolveOffer
<1>3. CASE r.item \in identity
  <2> DEFINE x == [row |-> r, read |-> lastPrice[r.item]]
             t == [s EXCEPT !.reading = x]
  <2>1. sync'[w] = t
    BY <1>2, <1>3, MovesTo DEF IInv
  <2> HIDE DEF x
  <2>2. /\ t.phase = s.phase /\ t.kind = s.kind /\ t.at = s.at /\ t.since = s.since
        /\ t.offset = s.offset /\ t.more = s.more /\ t.ids = s.ids
        /\ t.products = s.products /\ t.offers = s.offers
    BY <1>1 DEF IsSync, SyncRecords
  <2> HIDE DEF t
  <2> QED BY <2>1, <2>2, ReadingCovers DEF Kept
<1>4. CASE r.item \notin identity
  <2> DEFINE t == [s EXCEPT !.reading = NotReading, !.offers = Without(@, r)]
  <2>1. sync'[w] = AfterStaging(t)
    <3>1. sync'[w] = AfterStaging([s EXCEPT !.offers = Without(@, r)])
      BY <1>2, <1>4, MovesTo DEF IInv
    <3>2. t = [s EXCEPT !.offers = Without(@, r)]
      BY <1>1 DEF IsSync, SyncRecords
    <3> QED BY <3>1, <3>2
  <2>2. IsWithout(t, s, r)
    BY <1>1, TakenOff
  <2>3. ASSUME NEW i \in Items, Wanted(s, i), Row(i) = r, WithOffers
        PROVE  FALSE
    <3>1. WithProducts
      BY <2>3 DEF WithOffers, WithProducts
    <3>2. ProductMet(s, i, identity)
      BY <1>1, <2>3, <3>1 DEF SyncCovers, Met
    <3>3. i \in identity
      BY <1>1, <3>2 DEF ProductMet, Ahead
    <3> QED BY <1>4, <2>3, <3>3 DEF Row
  <2> HIDE DEF t, s
  <2>4. SyncCovers(s, identity, lastPrice) /\ IsPaid(s, r, lastPrice, lastPrice)
    BY <2>3 DEF IsPaid, s
  <2>5. SyncCovers(AfterStaging(t), identity, lastPrice) /\ Kept(s, AfterStaging(t))
    BY <2>2, <2>4, OfferLeaves
  <2> QED BY <2>1, <2>5 DEF s
<1> QED BY <1>3, <1>4

\* An offer is staged: if it has not changed since the sync began, the row has its last price.
LEMMA StageOfferCovers ==
    ASSUME IInv, NEW w \in Workers, StageOffer(w), SyncCovers(sync[w], identity, lastPrice),
           sync[w].reading.read = lastPrice[sync[w].reading.row.item]
    PROVE  /\ SyncCovers(sync'[w], identity, lastPrice') /\ Kept(sync[w], sync'[w])
           /\ \A i \in Items : lastPrice[i] = Price(i, Latest(i)) /\ Unchanged(i, sync[w].at) =>
                                  lastPrice'[i] = Price(i, Latest(i))
<1> DEFINE s == sync[w]
           r == s.reading.row
           old == s.reading.read
           price == Price(r.item, r.version)
           t == [s EXCEPT !.reading = NotReading, !.offers = Without(@, r)]
<1>1. /\ IsSync(s) /\ s.phase = "stage offers" /\ s.offers # <<>> /\ r \in Rows
      /\ s.offers \in Seq(SUBSET Rows) /\ r \in s.offers[1]
  BY OfferIsRead DEF SyncOK
<1>2. sync'[w] = AfterStaging(t)
  BY MovesTo DEF StageOffer, IInv
<1>3. \A i \in Items : lastPrice'[i] = IF i = r.item THEN price ELSE lastPrice[i]
  <2>1. \/ price = old /\ lastPrice' = lastPrice
        \/ lastPrice' = [lastPrice EXCEPT ![r.item] = price]
    BY DEF StageOffer
  <2>2. old = lastPrice[r.item]
    OBVIOUS
  <2> HIDE DEF price, r, old
  <2> QED BY <2>1, <2>2 DEF IInv, DataInv
<1>4. Unchanged(r.item, s.at) => r.version = Latest(r.item)
  <2>1. 1 \in DOMAIN s.offers
    BY <1>1, FirstIsLeast
  <2>2. \A n \in DOMAIN s.offers : \A q \in s.offers[n] :
          Unchanged(q.item, s.at) => q.version = Latest(q.item)
    BY DEF SyncCovers, Fresh
  <2> HIDE DEF r
  <2> QED BY <1>1, <2>1, <2>2
<1>5. \A i \in Items : Unchanged(i, s.at) /\ i = r.item => lastPrice'[i] = Price(i, Latest(i))
  BY <1>3, <1>4
<1>6. \A i \in Items : lastPrice[i] = Price(i, Latest(i)) /\ Unchanged(i, s.at) =>
                          lastPrice'[i] = Price(i, Latest(i))
  <2> HIDE DEF r, s, price
  <2> QED BY <1>3, <1>5
<1>7. \A i \in Items : Wanted(s, i) /\ Row(i) = r => lastPrice'[i] = Price(i, Latest(i))
  BY <1>5 DEF Row, Wanted
<1>8. \A i \in Items : i # r.item => lastPrice'[i] = lastPrice[i]
  BY <1>3
<1>9. \A i \in Items : Wanted(s, i) => Row(i) = r \/ lastPrice'[i] = lastPrice[i]
  <2> SUFFICES ASSUME NEW i \in Items, Wanted(s, i), i = r.item PROVE Row(i) = r
    BY <1>8
  <2>1. r.version = Latest(i)
    BY <1>4 DEF Wanted
  <2> HIDE DEF r
  <2> QED BY <1>1, <2>1 DEF Row, Rows
<1>10. IsWithout(t, s, r)
  BY <1>1, TakenOff
<1> HIDE DEF t, r, price, s
<1>11. SyncCovers(s, identity, lastPrice) /\ IsPaid(s, r, lastPrice, lastPrice')
  BY <1>7, <1>9 DEF IsPaid, s
<1>12. SyncCovers(AfterStaging(t), identity, lastPrice') /\ Kept(s, AfterStaging(t))
  BY <1>10, <1>11, OfferLeaves
<1> QED BY <1>2, <1>6, <1>12 DEF s

-----------------------------------------------------------------------------
(* The jobs.                                                                *)

LEMMA RequestIsJob ==
    ASSUME FlowAssumption, ScheduleAssumption, NEW n \in DOMAIN Schedules, NEW at \in Nat
    PROVE  Request(Schedules[n], at) \in SyncJobs
<1> DEFINE e == Schedules[n]
           j == Request(e, at)
<1>1. e \in ScheduleEntries /\ e.kind # {}
  BY DEF ScheduleAssumption, FlowAssumption
<1>2. /\ e.kind \in SUBSET {"products", "offers"} /\ e.mode \in {"full", "delta"}
      /\ e.kind \in Kinds
  <2>1. e.kind \in SUBSET {"products", "offers"} /\ e.mode \in {"full", "delta"}
    BY <1>1 DEF ScheduleEntries
  <2>2. \A k \in SUBSET {"products", "offers"} : k # {} => k \in Kinds
    <3> SUFFICES ASSUME NEW k \in SUBSET {"products", "offers"}, k # {} PROVE k \in Kinds
      OBVIOUS
    <3>1. CASE "products" \in k /\ "offers" \in k
      <4>1. k = {"products", "offers"}
        BY <3>1
      <4> QED BY <4>1 DEF Kinds
    <3>2. CASE "products" \in k /\ "offers" \notin k
      <4>1. k = {"products"}
        BY <3>2
      <4> QED BY <4>1 DEF Kinds
    <3>3. CASE "products" \notin k
      <4>1. k = {"offers"}
        BY <3>3
      <4> QED BY <4>1 DEF Kinds
    <3> QED BY <3>1, <3>2, <3>3
  <2> QED BY <1>1, <2>1, <2>2
<1>3. SyncedKinds \subseteq e.kind
  BY DEF SyncedKinds
<1> HIDE DEF e
<1>4. j \in Jobs /\ j.kind = e.kind
  BY <1>2 DEF Request, Jobs
<1> HIDE DEF j
<1>5. j \in SyncJobs
  BY <1>2, <1>3, <1>4 DEF SyncJobs
<1> QED BY <1>5 DEF j, e

\* The requests of a tick are jobs, behind those there are.
LEMMA RequestsAreJobs ==
    ASSUME IInv, FlowInv, RequestDue
    PROVE  jobs' \in Seq(SyncJobs) /\ Len(jobs) <= Len(jobs')
<1>1. tick.due \in SUBSET DOMAIN Schedules /\ tick.at \in Nat
  BY DEF RequestDue, FlowInv, Ticks
<1>2. PICK entry \in [1..Cardinality(tick.due) -> tick.due] :
        jobs' = jobs \o [n \in DOMAIN entry |-> Request(Schedules[entry[n]], tick.at)]
  BY DEF RequestDue
<1>3. Cardinality(tick.due) \in Nat
  <2>1. DOMAIN Schedules = 1..Len(Schedules) /\ Len(Schedules) \in Nat
    BY ScheduleAssumption DEF ScheduleAssumption
  <2>2. IsFiniteSet(DOMAIN Schedules)
    BY <2>1, FS_Interval
  <2> QED BY <1>1, <2>2, FS_Subset, FS_CardinalityType
<1> DEFINE new == [n \in DOMAIN entry |-> Request(Schedules[entry[n]], tick.at)]
<1>4. DOMAIN entry = 1..Cardinality(tick.due)
  OBVIOUS
<1>5. ASSUME NEW n \in DOMAIN entry PROVE Request(Schedules[entry[n]], tick.at) \in SyncJobs
  <2>1. entry[n] \in DOMAIN Schedules
    BY <1>1
  <2> QED BY <1>1, <2>1, RequestIsJob, FlowAssumption, ScheduleAssumption
<1>6. new \in Seq(SyncJobs)
  BY <1>3, <1>4, <1>5
<1> HIDE DEF new
<1>7. jobs' = jobs \o new
  BY <1>2 DEF new
<1> QED BY <1>6, <1>7 DEF FlowInv

LEMMA InitFlow == Init => FlowInv
<1> SUFFICES ASSUME Init PROVE FlowInv
  OBVIOUS
<1>1. jobs = <<>> /\ tick = NotTicking /\ lastRequested = NeverRequested /\ offset = 0
      /\ owner \in Workers /\ sync = [w \in Workers |-> Idle]
  BY DEF Init, ScheduleInit, ConnectorInit
<1>2. ~Busy(owner)
  BY <1>1 DEF Busy
<1> QED BY <1>1, <1>2 DEF FlowInv

LEMMA NextFlow == IInv /\ FlowInv /\ [Next]_vars => FlowInv'
<1> SUFFICES ASSUME IInv, FlowInv, [Next]_vars PROVE FlowInv'
  OBVIOUS
<1> USE DEF FlowInv
<1>1. ASSUME UNCHANGED <<sync, scheduleVars, offset, owner>>
      PROVE  FlowInv'
  BY <1>1 DEF scheduleVars, Busy
<1>2. CASE Clock \/ SupplierChanges \/ UNCHANGED vars
  BY <1>1, <1>2 DEF Clock, SupplierChanges, connectorVars, flowVars, vars
<1>3. CASE Tick
  <2>1. UNCHANGED <<sync, offset, owner>> /\ (Busy(owner)' <=> Busy(owner))
    BY <1>3 DEF Tick, connectorVars, flowVars, Busy
  <2>2. CASE LoadLastRequested(now)
    <3>1. now \in Nat
      BY DEF IInv, DataInv
    <3>2. PICK due \in SUBSET DOMAIN Schedules : tick' = [due |-> due, at |-> now]
      BY <2>2 DEF LoadLastRequested
    <3>3. tick' \in Ticks
      BY <3>1, <3>2 DEF Ticks
    <3> QED BY <2>1, <2>2, <3>3 DEF LoadLastRequested
  <2>3. CASE RequestDue
    <3>1. lastRequested' \in Nat /\ tick' = NotTicking
      BY <2>3 DEF RequestDue, Ticks
    <3>2. jobs' \in Seq(SyncJobs) /\ Len(jobs) <= Len(jobs')
      BY <2>3, RequestsAreJobs
    <3> QED BY <2>1, <3>1, <3>2
  <2> QED BY <1>3, <2>2, <2>3 DEF Tick
<1>4. CASE Trigger
  <2>1. UNCHANGED <<sync, offset, owner>> /\ (Busy(owner)' <=> Busy(owner))
    BY <1>4 DEF Trigger, connectorVars, flowVars, Busy
  <2>2. /\ Schedules # <<>> /\ jobs' = Append(jobs, Request(Schedules[1], now))
        /\ lastRequested' = now /\ tick' = tick
    BY <1>4 DEF Trigger, TriggerSync
  <2>3. now \in Nat
    BY DEF IInv, DataInv
  <2>4. 1 \in DOMAIN Schedules
    BY <2>2, ScheduleAssumption DEF ScheduleAssumption
  <2>5. Request(Schedules[1], now) \in SyncJobs
    BY <2>3, <2>4, RequestIsJob, FlowAssumption, ScheduleAssumption
  <2>6. jobs' \in Seq(SyncJobs) /\ Len(jobs) <= Len(jobs')
    BY <2>2, <2>5
  <2> QED BY <2>1, <2>2, <2>3, <2>6
<1>5. ASSUME NEW w \in Workers, Take(w)
      PROVE  FlowInv'
  BY <1>5 DEF Take, scheduleVars
<1>6. ASSUME NEW w \in Workers, Work(w)
      PROVE  FlowInv'
  <2>1. UNCHANGED <<scheduleVars, offset, owner>>
    BY <1>6 DEF Work, flowVars
  <2>2. \A v \in Workers \ {w} : sync'[v] = sync[v]
    BY <1>6 DEF Work, RunAccountSync, ReadWatermark, FetchProducts, FetchOffers, FetchDeltas,
                FetchDeltaItem, ResolveProduct, StageProduct, ResolveOffer, StageOffer, SetWatermark,
                IInv, DataInv
  <2>3. Busy(w)
    <3>1. sync[w].phase \in Phases
      BY <1>6 DEF Work, RunAccountSync, ReadWatermark, FetchProducts, FetchOffers, FetchDeltas,
                  FetchDeltaItem, ResolveProduct, StageProduct, ResolveOffer, StageOffer, SetWatermark,
                  Phases
    <3> QED BY <3>1, BusyIsOK DEF Busy
  <2>4. Busy(owner)' => Busy(owner)
    BY <2>1, <2>2, <2>3 DEF Busy
  <2> QED BY <2>1, <2>4 DEF scheduleVars
<1>7. ASSUME NEW w \in Workers, Finish(w) \/ Fail(w)
      PROVE  FlowInv'
  <2>1. /\ sync' = [sync EXCEPT ![w] = Idle] /\ Busy(w)
        /\ UNCHANGED <<scheduleVars, owner>>
        /\ offset' \in {offset, IF owner = w THEN offset + 1 ELSE offset}
    BY <1>7 DEF Finish, Fail, SyncFails, Busy
  <2>2. owner = w => ~Busy(owner)'
    BY <2>1 DEF Busy, IInv, DataInv
  <2>3. owner # w => (Busy(owner)' <=> Busy(owner)) /\ offset' = offset
    BY <2>1 DEF Busy, IInv, DataInv
  <2> QED BY <2>1, <2>2, <2>3 DEF scheduleVars
<1>8. ASSUME NEW w \in Workers, Rebalance(w)
      PROVE  FlowInv'
  <2>1. ~Busy(owner)' /\ owner' = w /\ UNCHANGED <<scheduleVars, offset>>
    BY <1>8 DEF Rebalance, Busy, connectorVars
  <2> QED BY <2>1 DEF scheduleVars
<1> QED BY <1>2, <1>3, <1>4, <1>5, <1>6, <1>7, <1>8 DEF Next

-----------------------------------------------------------------------------
(* The watermark.                                                           *)

LEMMA LatestIs ==
    ASSUME IInv, NEW i \in Items, Listed(i)
    PROVE  catalogue[i][Latest(i)].at \in Nat
<1> DEFINE q == catalogue[i]
           n == Latest(i)
<1>1. q \in Seq(Versions) /\ n \in 1..Len(q)
  BY DEF Listed, Latest, IInv, DataInv
<1> HIDE DEF q, n
<1>2. q[n] \in Versions
  BY <1>1
<1>3. q[n].at \in Nat
  BY <1>2 DEF Versions
<1> QED BY <1>3 DEF q, n

\* A step of the one sync there is that leaves the watermark alone, and every price that is the
\* last one as it is.
LEMMA CoverMoves ==
    ASSUME IInv, TurnInv, CoverInv, ~overlapped, ~shrunk, NEW w \in Workers, Busy(w), Moves(w),
           UNCHANGED <<now, catalogue, watermark, overlapped, shrunk>>,
           identity \subseteq identity',
           sync'[w] = Idle \/ /\ SyncCovers(sync'[w], identity', lastPrice')
                              /\ sync'[w].at = sync[w].at /\ TimesOK(sync'[w], watermark),
           \A i \in Items : lastPrice[i] = Price(i, Latest(i)) /\ Unchanged(i, sync[w].at) =>
                               lastPrice'[i] = Price(i, Latest(i))
    PROVE  CoverInv'
<1>1. \A v \in Workers \ {w} : sync'[v] = Idle
  BY DEF TurnInv, Busy, IInv, DataInv, Moves
<1>2. sync[w].at <= now /\ (watermark # NoTime => watermark <= sync[w].at /\ watermark <= now)
      /\ watermark \in Nat \cup {NoTime} /\ sync[w].at \in Nat
  BY DEF CoverInv, TimesOK, IInv, DataInv, WorkInv, SyncOK, IsSync, SyncRecords, Busy
<1>3. ASSUME NEW v \in Workers, sync'[v] # Idle
      PROVE  /\ SyncCovers(sync[v], identity, lastPrice)'
             /\ sync'[v].at <= now' /\ TimesOK(sync[v], watermark)'
  <2>1. v = w
    BY <1>1, <1>3
  <2>2. Sold' = Sold /\ \A t : ModifiedSince(t)' = ModifiedSince(t)
    BY DEF Sold, ModifiedSince, Listed, Latest, Price
  <2>3. SyncCovers(sync'[w], identity', lastPrice') /\ sync'[w].at = sync[w].at
        /\ TimesOK(sync'[w], watermark)
    BY <1>3, <2>1
  <2>4. SyncCovers(sync[w], identity, lastPrice)'
    BY <2>2, <2>3 DEF SyncCovers, PhaseOK, Fresh, Met, Wanted, Unchanged, Source, ProductMet,
                      OfferMet, Ahead, InPages, Row, Listed, Latest, Price
  <2> QED BY <1>2, <2>1, <2>3, <2>4 DEF TimesOK
<1>4. ASSUME NEW i \in Items
      PROVE  Covered(i)'
  <2> SUFFICES ASSUME Listed(i), watermark # NoTime, catalogue[i][Latest(i)].at < watermark
               PROVE  /\ WithProducts => i \in identity'
                      /\ (WithOffers /\ Price(i, Latest(i)) \in Prices) =>
                            lastPrice'[i] = Price(i, Latest(i))
    BY DEF Covered, Listed, Latest, Price, WithProducts, WithOffers, SyncedKinds
  <2>1. /\ WithProducts => i \in identity
        /\ (WithOffers /\ Price(i, Latest(i)) \in Prices) => lastPrice[i] = Price(i, Latest(i))
    BY DEF CoverInv, Covered, WithProducts, WithOffers
  <2>3. catalogue[i][Latest(i)].at \in Nat
    BY LatestIs
  <2>4. Unchanged(i, sync[w].at)
    BY <1>2, <2>3 DEF Unchanged
  <2> QED BY <2>1, <2>4
<1> QED BY <1>2, <1>3, <1>4 DEF CoverInv, Busy

\* The watermark is set: to the moment before which all that had not changed is staged.
LEMMA SetWatermarkCovers ==
    ASSUME IInv, TurnInv, CoverInv, ~overlapped, ~shrunk, NEW w \in Workers, SetWatermark(w),
           UNCHANGED <<now, catalogue, overlapped, shrunk>>
    PROVE  CoverInv'
<1> DEFINE s == sync[w]
           t == [s EXCEPT !.phase = "done"]
<1>1. /\ IsSync(s) /\ s.phase = "watermark" /\ s.at \in Nat /\ Busy(w)
  BY BusyIsOK DEF SetWatermark, Phases, SyncOK, IsSync, SyncRecords, Busy
<1>2. sync'[w] = t /\ Moves(w) /\ watermark' = s.at /\ UNCHANGED <<identity, lastPrice>>
  BY MovesTo DEF SetWatermark, IInv, stagedVars
<1>3. /\ t.phase = "done" /\ t.kind = s.kind /\ t.at = s.at /\ t.since = s.since
      /\ t.offers = s.offers
  BY <1>1 DEF IsSync, SyncRecords
<1> HIDE DEF t
<1>4. /\ SyncCovers(s, identity, lastPrice) /\ s.at <= now /\ TimesOK(s, watermark)
      /\ \A i \in Items : Covered(i)
  BY <1>1 DEF CoverInv
<1>5. \A v \in Workers \ {w} : sync'[v] = Idle
  BY <1>1, <1>2 DEF TurnInv, Busy, IInv, DataInv, Moves
<1>6. SyncCovers(sync[w], identity, lastPrice)' /\ TimesOK(sync[w], watermark)'
  <2>1. PhaseOK(t) /\ Fresh(t) /\ TimesOK(t, s.at)
    BY <1>1, <1>3, <1>4 DEF SyncCovers, PhaseOK, Fresh, TimesOK
  <2>2. Fresh(sync[w])'
    BY <1>2, <2>1 DEF Fresh, Unchanged, Listed, Latest, Price
  <2> QED BY <1>2, <1>3, <2>1, <2>2 DEF SyncCovers, PhaseOK, TimesOK
<1>7. ASSUME NEW i \in Items
      PROVE  Covered(i)'
  <2> SUFFICES ASSUME Listed(i), catalogue[i][Latest(i)].at < s.at
               PROVE  /\ WithProducts => i \in identity
                      /\ (WithOffers /\ Price(i, Latest(i)) \in Prices) =>
                            lastPrice[i] = Price(i, Latest(i))
    BY <1>2 DEF Covered, Listed, Latest, Price, WithProducts, WithOffers, SyncedKinds
  <2>1. CASE Wanted(s, i)
    <3>1. /\ WithProducts => ProductMet(s, i, identity)
          /\ WithOffers /\ Price(i, Latest(i)) \in Prices => OfferMet(s, i, lastPrice)
      BY <1>1, <1>4, <2>1 DEF SyncCovers, Met
    <3> QED BY <1>1, <3>1 DEF ProductMet, OfferMet, Ahead
  <2>2. CASE ~Wanted(s, i)
    <3>2. catalogue[i][Latest(i)].at \in Nat
      BY LatestIs
    <3>3. s.since # NoTime /\ s.since \in Nat /\ catalogue[i][Latest(i)].at < s.since
      BY <1>1, <2>2, <3>2 DEF Wanted, Unchanged, IsSync, SyncRecords
    <3>4. s.since = watermark
      BY <1>1, <1>4, <3>3 DEF TimesOK
    <3> QED BY <1>4, <3>3, <3>4 DEF Covered, WithProducts, WithOffers
  <2> QED BY <2>1, <2>2
<1>8. ASSUME NEW v \in Workers, sync'[v] # Idle
      PROVE  /\ SyncCovers(sync[v], identity, lastPrice)'
             /\ sync'[v].at <= now' /\ TimesOK(sync[v], watermark)'
  <2>1. v = w
    BY <1>5, <1>8
  <2>2. sync'[w].at <= now'
    BY <1>2, <1>3, <1>4
  <2> QED BY <1>6, <2>1, <2>2
<1> QED BY <1>2, <1>4, <1>7, <1>8 DEF CoverInv, Busy

LEMMA WorkCovers ==
    ASSUME IInv, TurnInv, CoverInv, ~overlapped, ~shrunk, NEW w \in Workers, Work(w)
    PROVE  CoverInv'
<1>1. UNCHANGED <<now, catalogue, overlapped, shrunk>>
  BY DEF Work, flowVars
<1>2. sync[w].phase \in Phases \ {"done"} /\ Busy(w)
  <2>1. sync[w].phase \in Phases \ {"done"}
    BY DEF Work, RunAccountSync, ReadWatermark, FetchProducts, FetchOffers, FetchDeltas,
           FetchDeltaItem, ResolveProduct, StageProduct, ResolveOffer, StageOffer, SetWatermark, Phases
  <2> QED BY <2>1, BusyIsOK DEF Busy
<1>3. /\ SyncCovers(sync[w], identity, lastPrice) /\ TimesOK(sync[w], watermark)
      /\ SyncOK(sync[w], catalogue, identity)
  BY <1>2, BusyIsOK DEF CoverInv
<1>4. ASSUME Kept(sync[w], sync'[w]) PROVE TimesOK(sync'[w], watermark)
  BY <1>2, <1>3, <1>4 DEF Kept, TimesOK
<1>5. CASE ReadWatermark(w)
  <2>1. Moves(w) /\ UNCHANGED <<stagedVars, watermark>>
    BY <1>5, ReadWatermarkStep DEF ReadWatermark
  <2>2. /\ SyncCovers(sync'[w], identity, lastPrice) /\ sync'[w].at = sync[w].at
        /\ sync'[w].since # NoTime => sync'[w].since = watermark
    BY <1>3, <1>5, ReadWatermarkCovers
  <2>3. TimesOK(sync'[w], watermark)
    BY <1>3, <2>2 DEF TimesOK
  <2> QED BY <1>1, <1>2, <2>1, <2>2, <2>3, CoverMoves DEF stagedVars
<1>6. ASSUME FetchProducts(w) \/ FetchOffers(w) \/ FetchDeltas(w) \/ FetchDeltaItem(w)
             \/ ResolveProduct(w) \/ ResolveOffer(w)
      PROVE  CoverInv'
  <2>1. Moves(w) /\ UNCHANGED <<stagedVars, watermark>>
    BY <1>6, FetchProductsStep, FetchOffersStep, FetchDeltasStep, FetchDeltaItemStep,
       ResolveProductStep, ResolveOfferStep
       DEF FetchProducts, FetchOffers, FetchDeltas, FetchDeltaItem, ResolveProduct, ResolveOffer
  <2>2. SyncCovers(sync'[w], identity, lastPrice) /\ Kept(sync[w], sync'[w])
    BY <1>3, <1>6, FetchProductsCovers, FetchOffersCovers, FetchDeltasCovers, FetchDeltaItemCovers,
       ResolveProductCovers, ResolveOfferCovers
  <2> QED BY <1>1, <1>2, <1>4, <2>1, <2>2, CoverMoves DEF stagedVars, Kept
<1>7. CASE StageProduct(w)
  <2>1. UNCHANGED <<lastPrice, watermark>> /\ identity \subseteq identity'
    BY <1>7 DEF StageProduct
  <2>2. Moves(w)
    BY <1>7, MovesTo DEF StageProduct, IInv
  <2>3. SyncCovers(sync'[w], identity', lastPrice) /\ Kept(sync[w], sync'[w])
    BY <1>3, <1>7, StageProductCovers
  <2> QED BY <1>1, <1>2, <1>4, <2>1, <2>2, <2>3, CoverMoves DEF Kept
<1>8. CASE StageOffer(w)
  <2>1. UNCHANGED <<identity, watermark>>
    BY <1>8 DEF StageOffer
  <2>2. Moves(w)
    BY <1>8, MovesTo DEF StageOffer, IInv
  <2>3. sync[w].reading.read = lastPrice[sync[w].reading.row.item]
    BY <1>2, <1>8 DEF TurnInv, Ready, StageOffer
  <2>4. /\ SyncCovers(sync'[w], identity, lastPrice') /\ Kept(sync[w], sync'[w])
        /\ \A i \in Items : lastPrice[i] = Price(i, Latest(i)) /\ Unchanged(i, sync[w].at) =>
                               lastPrice'[i] = Price(i, Latest(i))
    BY <1>3, <1>8, <2>3, StageOfferCovers
  <2> QED BY <1>1, <1>2, <1>4, <2>1, <2>2, <2>4, CoverMoves DEF Kept
<1>9. CASE SetWatermark(w)
  BY <1>1, <1>9, SetWatermarkCovers
<1> QED BY <1>5, <1>6, <1>7, <1>8, <1>9 DEF Work, RunAccountSync

\* What a change of product i at the moment now leaves as it was.
LEMMA ChangeLeaves ==
    ASSUME IInv, NEW i \in Items, NEW p \in Prices \cup {NoPrice, Delisted}, Change(i, p)
    PROVE  /\ \A j \in Items \ {i} : catalogue'[j] = catalogue[j]
           /\ Latest(i)' > 0 /\ catalogue'[i][Latest(i)'].at = now
           /\ p # Delisted => /\ Sold \subseteq Sold'
                              /\ Listed(i)'
           /\ now' = now
<1> DEFINE e == [price |-> p, at |-> now]
<1>1. catalogue' = [catalogue EXCEPT ![i] = Append(@, e)] /\ now' = now
  BY DEF Change
<1>2. e.price = p /\ e.at = now
  OBVIOUS
<1> HIDE DEF e
<1>3. catalogue[i] \in Seq(Versions) /\ catalogue'[i] = Append(catalogue[i], e)
      /\ \A j \in Items \ {i} : catalogue'[j] = catalogue[j]
  BY <1>1 DEF IInv, DataInv
<1>4. Len(catalogue'[i]) > 0 /\ catalogue'[i][Len(catalogue'[i])] = e
  BY <1>3
<1>5. ASSUME p # Delisted
      PROVE  Sold \subseteq Sold' /\ Listed(i)'
  <2>1. Listed(i)'
    BY <1>2, <1>4, <1>5 DEF Listed, Latest, Price
  <2>2. \A j \in Items \ {i} : Listed(j) => Listed(j)'
    BY <1>3 DEF Listed, Latest, Price
  <2> QED BY <2>1, <2>2 DEF Sold
<1> QED BY <1>1, <1>2, <1>3, <1>4, <1>5 DEF Latest

\* The supplier changes a product under a sync: if it is listed, it is not one the sync is there
\* for any more; the others are where they were in the list, or further back.
LEMMA ChangeCovers ==
    ASSUME IInv, CoverInv, NEW i \in Items, NEW p \in Prices \cup {NoPrice, Delisted},
           Change(i, p), UNCHANGED <<connectorVars, overlapped>>,
           shrunk' = (shrunk \/ (p = Delisted /\ \E w \in Workers : Busy(w)))
    PROVE  CoverInv'
<1>1. /\ \A j \in Items \ {i} : catalogue'[j] = catalogue[j]
      /\ Latest(i)' > 0 /\ catalogue'[i][Latest(i)'].at = now
      /\ p # Delisted => Sold \subseteq Sold' /\ Listed(i)'
      /\ now' = now /\ now \in Nat
      /\ UNCHANGED <<identity, lastPrice, watermark, sync>>
  BY ChangeLeaves DEF IInv, DataInv, connectorVars
<1>2. (~overlapped /\ ~shrunk) => (watermark # NoTime => watermark <= now /\ watermark \in Nat)
  BY DEF CoverInv, IInv, DataInv
<1> SUFFICES ASSUME ~overlapped, ~shrunk, ~shrunk'
             PROVE  /\ \A w \in Workers : Busy(w) =>
                          /\ SyncCovers(sync[w], identity, lastPrice)'
                          /\ sync[w].at <= now /\ TimesOK(sync[w], watermark)
                    /\ \A j \in Items : Covered(j)'
  BY <1>1, <1>2 DEF CoverInv, Busy, TimesOK
<1>4. ASSUME NEW j \in Items
      PROVE  Covered(j)'
  <2> SUFFICES ASSUME Listed(j)', watermark # NoTime, catalogue'[j][Latest(j)'].at < watermark
               PROVE  /\ "products" \in SyncedKinds => j \in identity
                      /\ (SyncedKinds = {"products", "offers"} /\ Price(j, Latest(j))' \in Prices) =>
                            lastPrice[j] = Price(j, Latest(j))'
    BY <1>1 DEF Covered, Listed, Latest, Price, SyncedKinds
  <2>2. j # i
    BY <1>1, <1>2 DEF Latest
  <2>3. catalogue'[j] = catalogue[j] /\ Covered(j)
    BY <1>1, <2>2 DEF CoverInv
  <2> QED BY <2>3 DEF Covered, Listed, Latest, Price
<1>5. ASSUME NEW w \in Workers, Busy(w)
      PROVE  /\ SyncCovers(sync[w], identity, lastPrice)'
             /\ sync[w].at <= now /\ TimesOK(sync[w], watermark)
  <2> DEFINE s == sync[w]
  <2>1. p # Delisted /\ ~shrunk
    BY <1>5
  <2>2. SyncCovers(s, identity, lastPrice) /\ s.at <= now /\ TimesOK(s, watermark)
    BY <1>5, <2>1 DEF CoverInv
  <2>3. IsSync(s) /\ s.at \in Nat /\ s.offset \in Nat
        /\ s.offers \in Seq(SUBSET Rows)
    BY <1>5 DEF IInv, WorkInv, Busy, SyncOK, IsSync, SyncRecords
  <2>4. s' = s
    BY <1>1
  <2> HIDE DEF s
  <2>5. PhaseOK(s)
    BY <2>2 DEF SyncCovers
  <2>6. ASSUME NEW n \in DOMAIN s.offers, NEW r \in s.offers[n], Unchanged(r.item, s.at)'
        PROVE  r.version = Latest(r.item)'
    <3>1. r.item \in Items
      BY <2>3 DEF Rows
    <3>2. Unchanged(r.item, s.at)'
      BY <2>6
    <3>3. r.item # i /\ catalogue'[r.item] = catalogue[r.item]
      <4>1. catalogue'[r.item][Latest(r.item)'].at < s.at
        BY <2>4, <2>6 DEF Unchanged, Latest
      <4> QED BY <1>1, <2>2, <2>3, <3>1, <4>1 DEF Latest
    <3>4. Unchanged(r.item, s.at)
      BY <2>4, <2>6, <3>3 DEF Unchanged, Listed, Latest, Price
    <3>5. r.version = Latest(r.item)
      BY <2>2, <3>4 DEF SyncCovers, Fresh
    <3> QED BY <3>3, <3>5 DEF Latest
  <2>7. ASSUME NEW j \in Items, s.phase \notin {"started", "done"},
               Listed(j)', catalogue'[j][Latest(j)'].at < s.at,
               s.since # NoTime => s.since <= catalogue'[j][Latest(j)'].at
        PROVE  /\ j # i /\ catalogue'[j] = catalogue[j]
               /\ WithProducts => ProductMet(s, j, identity)
               /\ WithOffers /\ Price(j, Latest(j)) \in Prices => OfferMet(s, j, lastPrice)
               /\ Rank(Source(s), j) <= Rank(Source(s)', j)
               /\ Rank(Source(s), j) \in Nat /\ Rank(Source(s)', j) \in Nat
    <3>1. j # i /\ catalogue'[j] = catalogue[j]
      BY <1>1, <2>2, <2>3, <2>7 DEF Latest
    <3>2. Wanted(s, j)
      BY <2>7, <3>1 DEF Wanted, Unchanged, Listed, Latest, Price
    <3>3. /\ WithProducts => ProductMet(s, j, identity)
          /\ WithOffers /\ Price(j, Latest(j)) \in Prices => OfferMet(s, j, lastPrice)
      BY <2>2, <2>7, <3>2 DEF SyncCovers, Met
    <3>4. Source(s) \in SUBSET Items /\ Source(s)' \in SUBSET Items
      BY <2>4 DEF Source, ModifiedSince, Sold
    <3>5. Source(s) \subseteq Source(s)'
      <4>1. Sold \subseteq Sold'
        BY <1>1, <2>1
      <4>2. CASE s.since = NoTime
        BY <2>4, <4>1, <4>2 DEF Source
      <4>3. CASE s.since # NoTime
        <5>1. s.since = watermark /\ watermark <= now
          BY <1>2, <2>2, <2>7, <4>3 DEF TimesOK
        <5>2. ASSUME NEW k \in ModifiedSince(s.since)
              PROVE  k \in Sold' /\ catalogue'[k][Latest(k)'].at >= s.since
          <6>1. k \in Sold /\ k \in Items /\ catalogue[k][Latest(k)].at >= s.since
            BY DEF ModifiedSince, Sold
          <6>2. CASE k = i
            BY <1>1, <1>2, <4>1, <4>3, <5>1, <6>1, <6>2
          <6>3. CASE k # i
            BY <1>1, <4>1, <6>1, <6>3 DEF Latest
          <6> QED BY <6>2, <6>3
        <5>3. Source(s) = ModifiedSince(s.since)
          BY <4>3 DEF Source
        <5>4. Source(s)' = {k \in Sold' : catalogue'[k][Latest(k)'].at >= s.since}
          BY <2>4, <4>3 DEF Source, ModifiedSince
        <5> QED BY <5>2, <5>3, <5>4
      <4> QED BY <4>2, <4>3
    <3>6. Rank(Source(s), j) <= Rank(Source(s)', j)
          /\ Rank(Source(s), j) \in Nat /\ Rank(Source(s)', j) \in Nat
      <4> DEFINE list == Source(s)
                 longer == Source(s)'
      <4>1. list \in SUBSET Items /\ longer \in SUBSET Items /\ list \subseteq longer
        BY <3>4, <3>5
      <4> HIDE DEF list, longer
      <4>2. Rank(list, j) <= Rank(longer, j) /\ Rank(list, j) \in Nat /\ Rank(longer, j) \in Nat
        BY <4>1, RankGrows, RankIs
      <4> QED BY <4>2 DEF list, longer
    <3> QED BY <3>1, <3>3, <3>6
  <2>8. Fresh(s)'
    BY <2>4, <2>6 DEF Fresh
  <2>9. ASSUME s.phase \notin {"started", "done"}
        PROVE  Met(s, identity, lastPrice)'
    <3> SUFFICES ASSUME NEW j \in Items, Wanted(s, j)'
                 PROVE  /\ WithProducts => ProductMet(s, j, identity)'
                        /\ WithOffers /\ Price(j, Latest(j))' \in Prices => OfferMet(s, j, lastPrice)'
      BY DEF Met, WithProducts, WithOffers, SyncedKinds
    <3>1. /\ Listed(j)' /\ catalogue'[j][Latest(j)'].at < s.at
          /\ s.since # NoTime => s.since <= catalogue'[j][Latest(j)'].at
      BY <2>4 DEF Wanted, Unchanged, Latest
    <3>2. /\ catalogue'[j] = catalogue[j]
          /\ WithProducts => ProductMet(s, j, identity)
          /\ WithOffers /\ Price(j, Latest(j)) \in Prices => OfferMet(s, j, lastPrice)
          /\ Rank(Source(s), j) <= Rank(Source(s)', j)
          /\ Rank(Source(s), j) \in Nat /\ Rank(Source(s)', j) \in Nat
      BY <2>7, <2>9, <3>1
    <3>3. Ahead(s, j) => Ahead(s, j)'
      <4>1. Ahead(s, j)' <=> \/ /\ s.phase \in {"products", "stage products", "offers", "deltas", "items"}
                                /\ s.more /\ s.offset <= Rank(Source(s)', j)
                             \/ s.phase = "items" /\ j \in s.ids
        BY <2>4 DEF Ahead
      <4>2. s.offset <= Rank(Source(s), j) => s.offset <= Rank(Source(s)', j)
        BY <2>3, <3>2
      <4>3. Ahead(s, j) => \/ /\ s.phase \in {"products", "stage products", "offers", "deltas", "items"}
                              /\ s.more /\ s.offset <= Rank(Source(s), j)
                           \/ s.phase = "items" /\ j \in s.ids
        BY DEF Ahead
      <4> QED BY <4>1, <4>2, <4>3
    <3>4. Latest(j)' = Latest(j) /\ Price(j, Latest(j))' = Price(j, Latest(j)) /\ Row(j)' = Row(j)
      BY <3>2 DEF Latest, Price, Row
    <3>5. /\ InPages(s.products, Row(j))' <=> InPages(s.products, Row(j))
          /\ InPages(s.offers, Row(j))' <=> InPages(s.offers, Row(j))
      BY <2>4, <3>4 DEF InPages
    <3>6. WithProducts => ProductMet(s, j, identity)'
      BY <1>1, <2>4, <3>2, <3>3, <3>5 DEF ProductMet
    <3>7. WithOffers /\ Price(j, Latest(j))' \in Prices => OfferMet(s, j, lastPrice)'
      BY <1>1, <2>4, <3>2, <3>3, <3>4, <3>5 DEF OfferMet
    <3> QED BY <3>6, <3>7
  <2>10. SyncCovers(s, identity, lastPrice)'
    BY <2>4, <2>5, <2>8, <2>9 DEF SyncCovers, PhaseOK
  <2> QED BY <2>2, <2>10 DEF s
<1> QED BY <1>4, <1>5

\* A job is taken while no other sync is under way: nothing has been fetched yet.
LEMMA TakeCovers ==
    ASSUME IInv, FlowInv, CoverInv, NEW w \in Workers, Take(w)
    PROVE  CoverInv'
<1> DEFINE job == jobs[offset + 1]
           t == [phase |-> "started", kind |-> job.kind, mode |-> job.mode, at |-> now, since |-> NoTime,
                 offset |-> 0, more |-> TRUE, ids |-> {}, products |-> <<>>, offers |-> <<>>,
                 reading |-> NotReading]
<1>1. /\ sync' = [sync EXCEPT ![w] = t]
      /\ overlapped' = (overlapped \/ \E v \in Workers : Busy(v))
      /\ UNCHANGED <<now, catalogue, identity, lastPrice, watermark, shrunk>>
  BY DEF Take, StartSync, stagedVars
<1>2. SyncedKinds \subseteq job.kind
  <2>1. offset + 1 \in DOMAIN jobs
    BY DEF Take, FlowInv
  <2>2. job \in SyncJobs
    BY <2>1 DEF FlowInv
  <2> QED BY <2>2 DEF SyncJobs
<1>3. /\ t.phase = "started" /\ t.kind = job.kind /\ t.at = now /\ t.since = NoTime
      /\ t.offset = 0 /\ t.more = TRUE /\ t.offers = <<>>
  OBVIOUS
<1> HIDE DEF t, job
<1>4. now \in Nat /\ (~overlapped /\ ~shrunk => (watermark # NoTime => watermark <= now))
  BY DEF IInv, DataInv, CoverInv
<1> SUFFICES ASSUME ~overlapped', ~overlapped, ~shrunk
             PROVE  /\ \A v \in Workers : Busy(v)' =>
                          /\ SyncCovers(sync[v], identity, lastPrice)'
                          /\ sync'[v].at <= now /\ TimesOK(sync[v], watermark)'
                    /\ \A i \in Items : Covered(i)'
  BY <1>1, <1>4 DEF CoverInv
<1>5. ~overlapped /\ \A v \in Workers : sync[v] = Idle
  BY <1>1 DEF Busy
<1>6. \A i \in Items : Covered(i)'
  <2> SUFFICES ASSUME NEW i \in Items PROVE Covered(i)'
    OBVIOUS
  <2>1. Covered(i)
    BY <1>5 DEF CoverInv
  <2> QED BY <1>1, <2>1 DEF Covered, Listed, Latest, Price, SyncedKinds
<1>7. ASSUME NEW v \in Workers, Busy(v)'
      PROVE  /\ SyncCovers(sync[v], identity, lastPrice)'
             /\ sync'[v].at <= now /\ TimesOK(sync[v], watermark)'
  <2>1. sync'[v] = t
    BY <1>1, <1>5, <1>7 DEF Busy, IInv, DataInv
  <2>2. PhaseOK(t) /\ TimesOK(t, watermark)
    BY <1>2, <1>3, <1>4 DEF PhaseOK, TimesOK
  <2>3. Fresh(sync[v])'
    <3>1. DOMAIN sync'[v].offers = {}
      BY <1>3, <2>1
    <3> QED BY <3>1 DEF Fresh
  <2>4. PhaseOK(sync[v])'
    BY <2>1, <2>2 DEF PhaseOK
  <2>5. TimesOK(sync[v], watermark)'
    BY <1>1, <2>1, <2>2 DEF TimesOK
  <2>6. sync'[v].phase = "started" /\ sync'[v].at <= now
    BY <1>3, <1>4, <2>1
  <2> QED BY <2>3, <2>4, <2>5, <2>6 DEF SyncCovers
<1> QED BY <1>6, <1>7

\* A worker's sync ends, well or not: nothing that is covered is lost.
LEMMA EndCovers ==
    ASSUME IInv, TurnInv, CoverInv, NEW w \in Workers, Finish(w) \/ Fail(w)
    PROVE  CoverInv'
<1>1. /\ sync' = [sync EXCEPT ![w] = Idle] /\ Busy(w)
      /\ UNCHANGED <<now, catalogue, stagedVars, watermark, overlapped, shrunk>>
  BY DEF Finish, Fail, SyncFails, Busy
<1>2. Moves(w) /\ sync'[w] = Idle
  BY <1>1, MovesTo DEF IInv
<1>3. CASE overlapped \/ shrunk
  BY <1>1, <1>3 DEF CoverInv
<1>4. CASE ~overlapped /\ ~shrunk
  BY <1>1, <1>2, <1>4, CoverMoves DEF stagedVars
<1> QED BY <1>3, <1>4

LEMMA ClockCovers ==
    ASSUME IInv, CoverInv, now' \in Nat, now <= now', UNCHANGED <<catalogue, connectorVars, overlapped, shrunk>>
    PROVE  CoverInv'
<1>1. UNCHANGED <<identity, lastPrice, watermark, sync>>
  BY DEF connectorVars
<1>2. now \in Nat /\ watermark \in Nat \cup {NoTime}
  BY DEF IInv, DataInv
<1>3. ~overlapped /\ ~shrunk => (watermark' # NoTime => watermark' <= now')
  BY <1>1, <1>2 DEF CoverInv
<1> SUFFICES ASSUME ~overlapped, ~shrunk
             PROVE  /\ \A w \in Workers : Busy(w) =>
                          /\ SyncCovers(sync[w], identity, lastPrice)'
                          /\ sync[w].at <= now' /\ TimesOK(sync[w], watermark)
                    /\ \A i \in Items : Covered(i)'
  BY <1>1, <1>3 DEF CoverInv, Busy, TimesOK
<1>4. \A i \in Items : Covered(i)'
  <2> SUFFICES ASSUME NEW i \in Items PROVE Covered(i)'
    OBVIOUS
  <2>1. Covered(i)
    BY DEF CoverInv
  <2> QED BY <1>1, <2>1 DEF Covered, Listed, Latest, Price, SyncedKinds
<1>5. ASSUME NEW w \in Workers, Busy(w)
      PROVE  /\ SyncCovers(sync[w], identity, lastPrice)'
             /\ sync[w].at <= now' /\ TimesOK(sync[w], watermark)
  <2>1. SyncCovers(sync[w], identity, lastPrice) /\ sync[w].at <= now /\ TimesOK(sync[w], watermark)
    BY <1>5 DEF CoverInv
  <2>2. sync[w].at \in Nat
    BY <1>5 DEF IInv, WorkInv, Busy, SyncOK, IsSync, SyncRecords
  <2>3. Sold' = Sold /\ \A t : ModifiedSince(t)' = ModifiedSince(t)
    BY DEF Sold, ModifiedSince, Listed, Latest, Price
  <2> DEFINE s == sync[w]
  <2>4. sync' = sync /\ identity' = identity /\ lastPrice' = lastPrice /\ catalogue' = catalogue
    BY <1>1
  <2>5. PhaseOK(s)' <=> PhaseOK(s)
    BY <2>4 DEF PhaseOK, SyncedKinds
  <2>6. Fresh(s)' <=> Fresh(s)
    BY <2>4 DEF Fresh, Unchanged, Listed, Latest, Price
  <2>7. \A i \in Items :
           /\ Wanted(s, i)' <=> Wanted(s, i)
           /\ ProductMet(s, i, identity)' <=> ProductMet(s, i, identity)
           /\ OfferMet(s, i, lastPrice)' <=> OfferMet(s, i, lastPrice)
           /\ Price(i, Latest(i))' = Price(i, Latest(i))
    <3> SUFFICES ASSUME NEW i \in Items
                 PROVE  /\ Wanted(s, i)' <=> Wanted(s, i)
                        /\ ProductMet(s, i, identity)' <=> ProductMet(s, i, identity)
                        /\ OfferMet(s, i, lastPrice)' <=> OfferMet(s, i, lastPrice)
                        /\ Price(i, Latest(i))' = Price(i, Latest(i))
      OBVIOUS
    <3>1. Price(i, Latest(i))' = Price(i, Latest(i)) /\ Row(i)' = Row(i)
      BY <2>4 DEF Price, Latest, Row
    <3>2. Wanted(s, i)' <=> Wanted(s, i)
      BY <2>4 DEF Wanted, Unchanged, Listed, Latest, Price
    <3>3. Ahead(s, i)' <=> Ahead(s, i)
      BY <2>3, <2>4 DEF Ahead, Source, Rank
    <3>4. ProductMet(s, i, identity)' <=> ProductMet(s, i, identity)
      BY <2>4, <3>1, <3>3 DEF ProductMet, InPages
    <3>5. OfferMet(s, i, lastPrice)' <=> OfferMet(s, i, lastPrice)
      BY <2>4, <3>1, <3>3 DEF OfferMet, InPages
    <3> QED BY <3>1, <3>2, <3>4, <3>5
  <2>8. Met(s, identity, lastPrice)' <=> Met(s, identity, lastPrice)
    BY <2>7 DEF Met, WithProducts, WithOffers, SyncedKinds
  <2>9. SyncCovers(s, identity, lastPrice)'
    BY <2>1, <2>4, <2>5, <2>6, <2>8 DEF SyncCovers
  <2> QED BY <1>2, <2>1, <2>2, <2>9
<1> QED BY <1>4, <1>5

LEMMA InitCover == Init => CoverInv
<1> SUFFICES ASSUME Init PROVE CoverInv
  OBVIOUS
<1>1. watermark = NoTime /\ \A w \in Workers : ~Busy(w)
  BY DEF Init, ConnectorInit, Busy
<1> QED BY <1>1 DEF CoverInv, Covered

LEMMA NextCover == IInv /\ TurnInv /\ FlowInv /\ CoverInv /\ [Next]_vars => CoverInv'
<1> SUFFICES ASSUME IInv, TurnInv, FlowInv, CoverInv, [Next]_vars PROVE CoverInv'
  OBVIOUS
<1>1. now \in Nat /\ now + 1 \in Nat /\ now <= now + 1 /\ now <= now
  BY DEF IInv, DataInv
<1>2. CASE Clock \/ Tick \/ Trigger \/ UNCHANGED vars
  BY <1>1, <1>2, ClockCovers DEF Clock, Tick, Trigger, flowVars, vars
<1>3. CASE SupplierChanges
  BY <1>3, ChangeCovers DEF SupplierChanges
<1>4. ASSUME NEW w \in Workers, Take(w)
      PROVE  CoverInv'
  BY <1>4, TakeCovers
<1>5. ASSUME NEW w \in Workers, Work(w)
      PROVE  CoverInv'
  <2>1. CASE ~overlapped /\ ~shrunk
    BY <1>5, <2>1, WorkCovers
  <2>2. CASE overlapped \/ shrunk
    <3>1. UNCHANGED <<overlapped, shrunk>>
      BY <1>5 DEF Work, flowVars
    <3> QED BY <2>2, <3>1 DEF CoverInv
  <2> QED BY <2>1, <2>2
<1>6. ASSUME NEW w \in Workers, Finish(w) \/ Fail(w)
      PROVE  CoverInv'
  BY <1>6, EndCovers
<1>7. ASSUME NEW w \in Workers, Rebalance(w)
      PROVE  CoverInv'
  BY <1>1, <1>7, ClockCovers DEF Rebalance
<1> QED BY <1>2, <1>3, <1>4, <1>5, <1>6, <1>7 DEF Next

\* The watermark never passes a change that is not staged (full_sync.py: run_account_sync sets it to
\* the moment it began), whatever fails, crashes and changes during a sync, for any supplier, page size
\* and schedule, while syncs take turns and no list shrinks under the paging.
THEOREM WatermarkIsCovered == Spec => []WatermarkCovers
<1>1. CoverInv => WatermarkCovers
  BY DEF CoverInv, WatermarkCovers
<1> QED BY <1>1, Inductive, InitTurn, NextTurn, InitFlow, NextFlow, InitCover, NextCover, PTL DEF Spec

-----------------------------------------------------------------------------
(* Types, and what the schedule asks for.                                   *)

\* A sync does the job it was started with.
HasJob(s) == {"kind", "mode"} \subseteq DOMAIN s
SameJob(s, t) == HasJob(s) => HasJob(t) /\ t.kind = s.kind /\ t.mode = s.mode

JobInv ==
    /\ \A w \in Workers : Busy(w) => sync[w].kind \in Kinds /\ sync[w].mode \in {"full", "delta"}
    /\ faults \in 0..MaxFaults /\ overlapped \in BOOLEAN /\ shrunk \in BOOLEAN

LEMMA AfterStagingSameJob ==
    ASSUME NEW s
    PROVE  SameJob(s, AfterProducts(s)) /\ SameJob(s, AfterStaging(s))
<1>1. SameJob(s, AfterProducts(s))
  BY DEF SameJob, HasJob, AfterProducts
<1>2. /\ SameJob(s, [s EXCEPT !.phase = "watermark"])
      /\ SameJob(s, [s EXCEPT !.phase = "products"])
      /\ SameJob(s, [s EXCEPT !.phase = IF s.offers = <<>> THEN "watermark" ELSE "stage offers"])
      /\ SameJob(s, s)
  BY DEF SameJob, HasJob
<1>3. \/ AfterStaging(s) \in {[s EXCEPT !.phase = "watermark"], [s EXCEPT !.phase = "products"],
                             AfterProducts(s), s}
      \/ AfterStaging(s) = [s EXCEPT !.phase = IF s.offers = <<>> THEN "watermark" ELSE "stage offers"]
  BY DEF AfterStaging
<1> QED BY <1>1, <1>2, <1>3

LEMMA StageDeltaSameJob ==
    ASSUME NEW s
    PROVE  SameJob(s, StageDelta(s))
<1> DEFINE t == [s EXCEPT !.phase = IF "products" \in s.kind THEN "stage products"
                                    ELSE "stage offers",
                          !.offers = IF "offers" \in s.kind THEN @ ELSE <<>>]
<1>1. SameJob(s, t)
  BY DEF SameJob, HasJob
<1>2. StageDelta(s) = AfterStaging(t)
  BY DEF StageDelta
<1> HIDE DEF t
<1> QED BY <1>1, <1>2, AfterStagingSameJob DEF SameJob

LEMMA WorkSameJob ==
    ASSUME IInv, NEW w \in Workers, Work(w)
    PROVE  SameJob(sync[w], sync'[w])
<1> DEFINE s == sync[w]
<1>0. \A t : sync' = [sync EXCEPT ![w] = t] => sync'[w] = t
  BY DEF IInv, DataInv
<1>1. CASE ReadWatermark(w)
  <2> DEFINE since == IF s.mode = "delta" THEN watermark ELSE NoTime
             t == [s EXCEPT !.phase = "deltas", !.since = since]
             p == [s EXCEPT !.phase = "products"]
  <2>1. sync'[w] \in {t, p, AfterProducts(s)}
    <3>1. sync' = [sync EXCEPT ![w] = IF since # NoTime THEN t
                                      ELSE IF "products" \in s.kind THEN p ELSE AfterProducts(s)]
      BY <1>1 DEF ReadWatermark
    <3> HIDE DEF t, p, since, s
    <3> QED BY <1>0, <3>1
  <2>2. SameJob(s, t) /\ SameJob(s, p)
    <3> HIDE DEF since, s
    <3> QED BY DEF SameJob, HasJob
  <2> HIDE DEF t, p, s
  <2> QED BY <2>1, <2>2, AfterStagingSameJob DEF s
<1>2. CASE FetchProducts(w)
  <2> DEFINE page == Page(Sold, s.offset)
             products == With(<<>>, RowsOf(page))
             more == Cardinality(page) = PageSize
             t == [s EXCEPT !.phase = "stage products", !.products = products,
                            !.offset = @ + PageSize, !.more = more]
  <2>1. sync'[w] = AfterStaging(t)
    <3>1. sync' = [sync EXCEPT ![w] = AfterStaging(t)]
      BY <1>2 DEF FetchProducts
    <3> HIDE DEF t, s
    <3> QED BY <1>0, <3>1
  <2>2. SameJob(s, t)
    <3> HIDE DEF products, more, s
    <3> QED BY DEF SameJob, HasJob
  <2> HIDE DEF t, s
  <2> QED BY <2>1, <2>2, AfterStagingSameJob DEF SameJob, s
<1>3. CASE FetchOffers(w)
  <2> DEFINE page == Page(Sold, s.offset)
             rows == Priced(RowsOf(page))
             f == [s EXCEPT !.offset = @ + PageSize, !.offers = With(@, rows)]
             t == [f EXCEPT !.phase = "stage offers"]
  <2>1. sync'[w] \in {f, AfterStaging(t)}
    <3>1. sync' = [sync EXCEPT ![w] = IF Cardinality(page) = PageSize THEN f ELSE AfterStaging(t)]
      BY <1>3 DEF FetchOffers
    <3> HIDE DEF f, t, s, page
    <3> QED BY <1>0, <3>1
  <2>2. SameJob(s, f)
    <3> HIDE DEF rows, s
    <3> QED BY DEF SameJob, HasJob
  <2> HIDE DEF f, s
  <2>3. SameJob(f, t)
    BY DEF SameJob, HasJob
  <2> HIDE DEF t
  <2> QED BY <2>1, <2>2, <2>3, AfterStagingSameJob DEF SameJob, s
<1>4. CASE FetchDeltas(w)
  <2> DEFINE page == Page(ModifiedSince(s.since), s.offset)
             more == Cardinality(page) = PageSize
             f == [s EXCEPT !.offset = @ + PageSize, !.ids = page, !.more = more]
             t == [f EXCEPT !.phase = "items"]
  <2>1. sync'[w] \in {StageDelta(f), t}
    <3>1. sync' = [sync EXCEPT ![w] = IF page = {} THEN StageDelta(f) ELSE t]
      BY <1>4 DEF FetchDeltas
    <3> HIDE DEF f, t, s, page
    <3> QED BY <1>0, <3>1
  <2>2. SameJob(s, f)
    <3> HIDE DEF page, more, s
    <3> QED BY DEF SameJob, HasJob
  <2> HIDE DEF f, s
  <2>3. SameJob(f, t)
    BY DEF SameJob, HasJob
  <2> HIDE DEF t
  <2> QED BY <2>1, <2>2, <2>3, StageDeltaSameJob DEF SameJob, s
<1>5. CASE FetchDeltaItem(w)
  <2>1. PICK i \in s.ids :
          LET row == [item |-> i, version |-> Latest(i)]
              f == [s EXCEPT !.ids = @ \ {i}, !.products = Append(@, {row}),
                             !.offers = With(@, Priced({row}))]
          IN  sync' = [sync EXCEPT ![w] =
                          CASE f.ids # {} -> f
                            [] f.ids = {} /\ s.more -> [f EXCEPT !.phase = "deltas"]
                            [] OTHER -> StageDelta(f)]
    BY <1>5 DEF FetchDeltaItem
  <2> DEFINE row == [item |-> i, version |-> Latest(i)]
             f == [s EXCEPT !.ids = @ \ {i}, !.products = Append(@, {row}),
                            !.offers = With(@, Priced({row}))]
             t == [f EXCEPT !.phase = "deltas"]
  <2>2. sync'[w] \in {f, t, StageDelta(f)}
    <3>1. sync' = [sync EXCEPT ![w] =
                     CASE f.ids # {} -> f [] f.ids = {} /\ s.more -> t [] OTHER -> StageDelta(f)]
      BY <2>1
    <3> HIDE DEF f, t, s
    <3> QED BY <1>0, <3>1
  <2>3. SameJob(s, f)
    <3> HIDE DEF row, s
    <3> QED BY DEF SameJob, HasJob
  <2> HIDE DEF f, s
  <2>4. SameJob(f, t)
    BY DEF SameJob, HasJob
  <2> HIDE DEF t
  <2> QED BY <2>2, <2>3, <2>4, StageDeltaSameJob DEF SameJob, s
<1>6. CASE ResolveProduct(w) \/ SetWatermark(w)
  <2>1. \/ \E r : sync' = [sync EXCEPT ![w].reading = r]
        \/ sync' = [sync EXCEPT ![w].phase = "done"]
    BY <1>6 DEF ResolveProduct, SetWatermark
  <2>2. \/ \E r : sync'[w] = [s EXCEPT !.reading = r]
        \/ sync'[w] = [s EXCEPT !.phase = "done"]
    BY <2>1 DEF IInv, DataInv
  <2> HIDE DEF s
  <2> QED BY <2>2 DEF SameJob, HasJob, s
<1>7. CASE StageProduct(w)
  <2> DEFINE t == [s EXCEPT !.reading = NotReading, !.products = Without(@, s.reading.row)]
  <2>1. sync'[w] = AfterStaging(t)
    <3>1. sync' = [sync EXCEPT ![w] = AfterStaging(t)]
      BY <1>7 DEF StageProduct
    <3> HIDE DEF t, s
    <3> QED BY <1>0, <3>1
  <2>2. SameJob(s, t)
    <3> HIDE DEF s
    <3> QED BY DEF SameJob, HasJob
  <2> HIDE DEF t, s
  <2> QED BY <2>1, <2>2, AfterStagingSameJob DEF SameJob, s
<1>8. CASE ResolveOffer(w)
  <2>1. PICK r \in Head(s.offers) :
          sync' = [sync EXCEPT ![w] =
                     IF r.item \in identity
                     THEN [s EXCEPT !.reading = [row |-> r, read |-> lastPrice[r.item]]]
                     ELSE AfterStaging([s EXCEPT !.offers = Without(@, r)])]
    BY <1>8 DEF ResolveOffer
  <2> DEFINE f == [s EXCEPT !.reading = [row |-> r, read |-> lastPrice[r.item]]]
             t == [s EXCEPT !.offers = Without(@, r)]
  <2>2. sync'[w] \in {f, AfterStaging(t)}
    <3>1. sync' = [sync EXCEPT ![w] = IF r.item \in identity THEN f ELSE AfterStaging(t)]
      BY <2>1
    <3> HIDE DEF f, t, s
    <3> QED BY <1>0, <3>1
  <2>3. SameJob(s, f) /\ SameJob(s, t)
    <3> HIDE DEF s
    <3> QED BY DEF SameJob, HasJob
  <2> HIDE DEF f, t, s
  <2> QED BY <2>2, <2>3, AfterStagingSameJob DEF SameJob, s
<1>9. CASE StageOffer(w)
  <2> DEFINE t == [s EXCEPT !.reading = NotReading, !.offers = Without(@, s.reading.row)]
  <2>1. sync'[w] = AfterStaging(t)
    <3>1. sync' = [sync EXCEPT ![w] = AfterStaging(t)]
      BY <1>9 DEF StageOffer
    <3> HIDE DEF t, s
    <3> QED BY <1>0, <3>1
  <2>2. SameJob(s, t)
    <3> HIDE DEF s
    <3> QED BY DEF SameJob, HasJob
  <2> HIDE DEF t, s
  <2> QED BY <2>1, <2>2, AfterStagingSameJob DEF SameJob, s
<1> QED BY <1>1, <1>2, <1>3, <1>4, <1>5, <1>6, <1>7, <1>8, <1>9 DEF Work, RunAccountSync

LEMMA InitJob == Init => JobInv
<1> SUFFICES ASSUME Init PROVE JobInv
  OBVIOUS
<1>1. \A w \in Workers : ~Busy(w)
  BY DEF Init, ConnectorInit, Busy
<1>2. faults = 0 /\ overlapped = FALSE /\ shrunk = FALSE
  BY DEF Init
<1>3. 0 \in 0..MaxFaults
  BY FlowAssumption DEF FlowAssumption
<1> QED BY <1>1, <1>2, <1>3 DEF JobInv

LEMMA NextJob == IInv /\ FlowInv /\ JobInv /\ [Next]_vars => JobInv'
<1> SUFFICES ASSUME IInv, FlowInv, JobInv, [Next]_vars PROVE JobInv'
  OBVIOUS
<1>0. MaxFaults \in Nat
  BY FlowAssumption DEF FlowAssumption
<1>1. ASSUME UNCHANGED <<sync, overlapped, shrunk>>, faults' \in 0..MaxFaults
      PROVE  JobInv'
  BY <1>1 DEF JobInv, Busy
<1>2. CASE Clock \/ Tick \/ Trigger \/ UNCHANGED vars
  BY <1>1, <1>2 DEF Clock, Tick, Trigger, connectorVars, flowVars, vars, JobInv
<1>3. CASE SupplierChanges
  <2>1. /\ UNCHANGED <<sync, faults, overlapped>>
        /\ \E i \in Items, p \in Prices \cup {NoPrice, Delisted} :
              shrunk' = (shrunk \/ (p = Delisted /\ \E w \in Workers : Busy(w)))
    BY <1>3 DEF SupplierChanges, connectorVars
  <2>2. shrunk' \in BOOLEAN
    BY <2>1 DEF JobInv
  <2> QED BY <2>1, <2>2 DEF JobInv, Busy
<1>4. ASSUME NEW w \in Workers, Take(w)
      PROVE  JobInv'
  <2>1. jobs[offset + 1] \in SyncJobs
    <3>1. offset \in Nat /\ Len(jobs) \in Nat /\ offset < Len(jobs)
      BY <1>4 DEF Take, FlowInv
    <3>2. offset + 1 \in 1..Len(jobs)
      BY <3>1
    <3> QED BY <3>2 DEF FlowInv
  <2> DEFINE j == jobs[offset + 1]
             s == [phase |-> "started", kind |-> j.kind, mode |-> j.mode, at |-> now,
                   since |-> NoTime, offset |-> 0, more |-> TRUE, ids |-> {}, products |-> <<>>,
                   offers |-> <<>>, reading |-> NotReading]
  <2>2. j.kind \in Kinds /\ j.mode \in {"full", "delta"}
    BY <2>1 DEF SyncJobs, Jobs
  <2>3. /\ sync' = [sync EXCEPT ![w] = s] /\ UNCHANGED <<faults, shrunk>>
        /\ overlapped' = (overlapped \/ \E v \in Workers : Busy(v))
    BY <1>4 DEF Take, StartSync
  <2>4. s.kind = j.kind /\ s.mode = j.mode
    OBVIOUS
  <2> HIDE DEF s, j
  <2>5. \A v \in Workers : sync'[v] = IF v = w THEN s ELSE sync[v]
    BY <2>3 DEF IInv, DataInv
  <2>6. overlapped' \in BOOLEAN
    BY <2>3 DEF JobInv
  <2> QED BY <2>2, <2>3, <2>4, <2>5, <2>6 DEF JobInv, Busy
<1>5. ASSUME NEW w \in Workers, Work(w)
      PROVE  JobInv'
  <2>1. UNCHANGED <<faults, overlapped, shrunk>>
    BY <1>5 DEF Work, flowVars
  <2>2. \A v \in Workers \ {w} : sync'[v] = sync[v]
    BY <1>5 DEF Work, RunAccountSync, ReadWatermark, FetchProducts, FetchOffers, FetchDeltas,
                FetchDeltaItem, ResolveProduct, StageProduct, ResolveOffer, StageOffer, SetWatermark,
                IInv, DataInv
  <2>3. sync[w].phase \in Phases
    BY <1>5 DEF Work, RunAccountSync, ReadWatermark, FetchProducts, FetchOffers, FetchDeltas,
                FetchDeltaItem, ResolveProduct, StageProduct, ResolveOffer, StageOffer, SetWatermark,
                Phases
  <2>4. Busy(w) /\ HasJob(sync[w])
    BY <2>3, BusyIsOK DEF Busy, HasJob, SyncOK, IsSync, SyncRecords
  <2>5. sync'[w].kind = sync[w].kind /\ sync'[w].mode = sync[w].mode
    BY <1>5, <2>4, WorkSameJob DEF SameJob
  <2> QED BY <2>1, <2>2, <2>4, <2>5 DEF JobInv, Busy
<1>6. ASSUME NEW w \in Workers, Finish(w) \/ Fail(w)
      PROVE  JobInv'
  <2>1. sync' = [sync EXCEPT ![w] = Idle] /\ UNCHANGED <<overlapped, shrunk>>
    BY <1>6 DEF Finish, Fail, SyncFails
  <2>2. faults' \in 0..MaxFaults
    BY <1>0, <1>6 DEF Finish, Fail, JobInv
  <2>3. \A v \in Workers : sync'[v] = IF v = w THEN Idle ELSE sync[v]
    BY <2>1 DEF IInv, DataInv
  <2> QED BY <2>1, <2>2, <2>3 DEF JobInv, Busy
<1>7. ASSUME NEW w \in Workers, Rebalance(w)
      PROVE  JobInv'
  <2>1. faults' \in 0..MaxFaults
    BY <1>0, <1>7 DEF Rebalance, JobInv
  <2> QED BY <1>1, <1>7, <2>1 DEF Rebalance, connectorVars
<1> QED BY <1>2, <1>3, <1>4, <1>5, <1>6, <1>7 DEF Next

LEMMA SyncsAreTyped ==
    ASSUME NEW s, IsSync(s), s.kind \in Kinds, s.mode \in {"full", "delta"}
    PROVE  s \in Syncs
<1>1. s \in SyncRecords(Kinds, {"full", "delta"})
  BY DEF IsSync, SyncRecords
<1> QED BY <1>1 DEF SyncRecords, Syncs

\* Every variable of the connector, the scheduler and the supplier keeps its type: a sync is of the
\* kind and mode of its job (handlers/sync_handler.py), whatever it has fetched and staged.
THEOREM SyncTypeCorrect == Spec => []SyncTypeOK
<1>1. IInv /\ FlowInv /\ JobInv => SyncTypeOK
  <2> SUFFICES ASSUME IInv, FlowInv, JobInv PROVE SyncTypeOK
    OBVIOUS
  <2>1. \A w \in Workers : sync[w] \in Syncs \cup {Idle}
    BY SyncsAreTyped DEF IInv, WorkInv, SyncOK, JobInv, Busy
  <2>2. ConnectorTypeOK
    BY <2>1 DEF IInv, DataInv, ConnectorTypeOK
  <2>3. jobs \in Seq(Jobs)
    BY DEF FlowInv, SyncJobs
  <2> QED BY <2>2, <2>3 DEF IInv, DataInv, FlowInv, JobInv, SyncTypeOK, SupplierTypeOK, ScheduleTypeOK
<1> QED BY <1>1, Inductive, InitFlow, NextFlow, InitJob, NextJob, PTL DEF Spec

\* The entries of the account all ask for the same: one sync serves any of them.
OneRequest ==
    \A m, n \in DOMAIN Schedules :
        Schedules[m].kind = Schedules[n].kind /\ Schedules[m].mode = Schedules[n].mode

RequestInv ==
    /\ tick # NotTicking => tick.due # {}
    /\ lastRequested # NeverRequested =>
          \A n \in DOMAIN Schedules : \E j \in DOMAIN jobs :
              jobs[j] = Request(Schedules[n], lastRequested)

\* The requests of a tick that found something due reach the topic.
LEMMA DueIsRequested ==
    ASSUME IInv, FlowInv, RequestInv, OneRequest, RequestDue, NEW n \in DOMAIN Schedules
    PROVE  \E j \in DOMAIN jobs' : jobs'[j] = Request(Schedules[n], tick.at)
<1>1. tick.due \in SUBSET DOMAIN Schedules /\ tick.due # {}
  BY DEF RequestDue, FlowInv, RequestInv, Ticks
<1>2. PICK entry \in [1..Cardinality(tick.due) -> tick.due] :
        jobs' = jobs \o [k \in DOMAIN entry |-> Request(Schedules[entry[k]], tick.at)]
  BY DEF RequestDue
<1>3. Cardinality(tick.due) \in Nat \ {0}
  <2>1. DOMAIN Schedules = 1..Len(Schedules) /\ Len(Schedules) \in Nat
    BY ScheduleAssumption DEF ScheduleAssumption
  <2>2. IsFiniteSet(DOMAIN Schedules)
    BY <2>1, FS_Interval
  <2> QED BY <1>1, <2>2, FS_Subset, FS_CardinalityType, FS_EmptySet
<1> DEFINE new == [k \in 1..Cardinality(tick.due) |-> Request(Schedules[entry[k]], tick.at)]
<1>4. jobs' = jobs \o new
  BY <1>2
<1>5. 1 \in 1..Cardinality(tick.due) /\ entry[1] \in DOMAIN Schedules
  BY <1>1, <1>3
<1>6. new[1] = Request(Schedules[n], tick.at)
  BY <1>5 DEF OneRequest, Request
<1>7. Len(new) \in Nat \ {0} /\ new \in Seq({new[k] : k \in 1..Cardinality(tick.due)})
  BY <1>3
<1> HIDE DEF new
<1>8. /\ Len(jobs) \in Nat /\ jobs \in Seq(SyncJobs)
  BY DEF FlowInv
<1>9. Len(jobs) + 1 \in DOMAIN jobs' /\ jobs'[Len(jobs) + 1] = new[1]
  BY <1>4, <1>7, <1>8
<1> QED BY <1>6, <1>9

LEMMA NextRequest == OneRequest /\ IInv /\ FlowInv /\ RequestInv /\ [Next]_vars => RequestInv'
<1> SUFFICES ASSUME OneRequest, IInv, FlowInv, RequestInv, [Next]_vars PROVE RequestInv'
  OBVIOUS
<1>1. CASE Tick
  <2>1. CASE LoadLastRequested(now)
    <3>1. PICK due : due # {} /\ tick' = [due |-> due, at |-> now]
      BY <2>1 DEF LoadLastRequested
    <3>2. tick'.due # {} /\ UNCHANGED <<lastRequested, jobs>>
      BY <2>1, <3>1 DEF LoadLastRequested
    <3> QED BY <3>2 DEF RequestInv
  <2>2. CASE RequestDue
    <3>1. tick' = NotTicking /\ lastRequested' = tick.at
      BY <2>2 DEF RequestDue
    <3>2. \A n \in DOMAIN Schedules : \E j \in DOMAIN jobs' :
             jobs'[j] = Request(Schedules[n], tick.at)
      BY <2>2, DueIsRequested
    <3> QED BY <3>1, <3>2 DEF RequestInv
  <2> QED BY <1>1, <2>1, <2>2 DEF Tick
<1>2. CASE Trigger
  <2>1. /\ Schedules # <<>> /\ jobs' = Append(jobs, Request(Schedules[1], now))
        /\ lastRequested' = now /\ tick' = tick
    BY <1>2 DEF Trigger, TriggerSync
  <2>2. 1 \in DOMAIN Schedules
    BY <2>1, ScheduleAssumption DEF ScheduleAssumption
  <2>3. ASSUME NEW n \in DOMAIN Schedules
        PROVE  \E j \in DOMAIN jobs' : jobs'[j] = Request(Schedules[n], now)
    <3>1. Request(Schedules[n], now) = Request(Schedules[1], now)
      BY <2>2 DEF OneRequest, Request
    <3>2. Len(jobs) + 1 \in DOMAIN jobs' /\ jobs'[Len(jobs) + 1] = Request(Schedules[1], now)
      BY <2>1 DEF FlowInv
    <3> QED BY <3>1, <3>2
  <2> QED BY <2>1, <2>3 DEF RequestInv
<1>3. ASSUME UNCHANGED scheduleVars
      PROVE  RequestInv'
  BY <1>3 DEF scheduleVars, RequestInv
<1>4. CASE Clock \/ SupplierChanges \/ UNCHANGED vars
  BY <1>3, <1>4 DEF Clock, SupplierChanges, vars
<1>5. ASSUME NEW w \in Workers, Take(w) \/ Work(w) \/ Finish(w) \/ Fail(w) \/ Rebalance(w)
      PROVE  RequestInv'
  BY <1>3, <1>5 DEF Take, Work, Finish, Fail, Rebalance
<1> QED BY <1>1, <1>2, <1>4, <1>5 DEF Next

\* An account whose entries ask for the same is requested within the interval of each, whenever it is
\* reported "ok" or the scheduler finds nothing due (scheduler.py: run_tick, api/routes.py:
\* trigger_sync), however a tick and a manual request interleave.  Entries that ask for different
\* things share one row, and the property does not hold of them.
THEOREM OneEntryRuns == OneRequest /\ Spec => []EveryEntryRuns
<1> SUFFICES ASSUME OneRequest
             PROVE  Spec => []EveryEntryRuns
  OBVIOUS
<1>1. Init => RequestInv
  BY DEF Init, ScheduleInit, RequestInv
<1>2. IInv /\ FlowInv /\ RequestInv => EveryEntryRuns
  <2> SUFFICES ASSUME IInv, FlowInv, RequestInv, NEW n \in DOMAIN Schedules,
                      \/ AccountStatus(Schedules[n], now) = "ok"
                      \/ \A m \in DOMAIN Schedules : ~IsDue(Schedules[m], now)
               PROVE  \E j \in DOMAIN jobs :
                         /\ jobs[j] = Request(Schedules[n], jobs[j].at)
                         /\ now < jobs[j].at + Schedules[n].interval
    BY DEF EveryEntryRuns
  <2>1. lastRequested # NeverRequested /\ ~(now >= lastRequested + Schedules[n].interval)
    BY DEF AccountStatus, IsDue
  <2>2. PICK j \in DOMAIN jobs : jobs[j] = Request(Schedules[n], lastRequested)
    BY <2>1 DEF RequestInv
  <2>3. jobs[j].at = lastRequested
    BY <2>2 DEF Request
  <2>4. now \in Nat /\ lastRequested \in Nat /\ Schedules[n].interval \in Nat
    <3>1. Schedules[n] \in ScheduleEntries
      BY ScheduleAssumption DEF ScheduleAssumption
    <3> QED BY <2>1, <3>1 DEF IInv, DataInv, FlowInv, ScheduleEntries
  <2>5. now < lastRequested + Schedules[n].interval
    BY <2>1, <2>4
  <2> QED BY <2>2, <2>3, <2>5
<1>3. IInv /\ FlowInv /\ RequestInv /\ [Next]_vars => RequestInv'
  BY NextRequest
<1> QED BY <1>1, <1>2, Inductive, <1>3, InitFlow, NextFlow, PTL DEF Spec
===============================================================================
