---------------------------- MODULE ConnectorSync ----------------------------
(***************************************************************************)
(* The sync of one supplier account (services/connector-brain: full_sync.py, *)
(* sync.py, connector.py, the identity, offer and watermark repositories), *)
(* run by each process that consumes sync.job.requested.  A step ends      *)
(* where the next request to the supplier or the next statement to the     *)
(* database begins.  Each product and each offer is staged in a            *)
(* transaction of its own, which reads a row and commits what it makes of  *)
(* it; the watermark follows at the end.                                   *)
(*                                                                         *)
(* The supplier has one category: the loops over categories repeat what is *)
(* here.  Content is not kept: a changed content hash is stored and tells  *)
(* nobody (sync_products counts it).                                       *)
(***************************************************************************)
EXTENDS SupplierFeed

CONSTANTS Workers,      \* processes that run syncs
          NoTime        \* no watermark

VARIABLES identity,     \* the products with a row in supplier_product_identity
          discovered,   \* discovered[i]: events announcing product i
          lastPrice,    \* lastPrice[i]: the price in offer_identity, or NoPrice
          priceEvents,  \* priceEvents[i]: price events, in the order of their commits
          watermark,    \* sync_watermark
          sync          \* sync[w]: the sync worker w is in

connectorVars == <<identity, discovered, lastPrice, priceEvents, watermark, sync>>
stagedVars == <<identity, discovered, lastPrice, priceEvents>>

\* A fetched row is a product as it was in some version.
Rows == [item : Items, version : Nat \ {0}]
Kinds == {{"products"}, {"offers"}, {"products", "offers"}}
PriceEvents == [old : Prices \cup {NoPrice}, version : Nat \ {0}]

Phases == {"started", "products", "offers", "deltas", "items",
           "stage products", "stage offers", "watermark", "done"}

Idle == [phase |-> "idle"]

\* What the transaction in progress has read of the row it is about.
NotReading == [row |-> {}]
Readings == [row : Rows, read : BOOLEAN] \cup [row : Rows, read : Prices \cup {NoPrice}]

Syncs == [phase : Phases, kind : Kinds, mode : {"full", "delta"}, at : Nat,
          since : Nat \cup {NoTime},    \* NoTime: a full sync
          offset : Nat, more : BOOLEAN, \* the next page, and whether there is one
          ids : SUBSET Items,           \* modified products still to be fetched
          products : Seq(SUBSET Rows), offers : Seq(SUBSET Rows),  \* still to be staged
          reading : Readings \cup {NotReading}]

ConnectorTypeOK ==
    /\ identity \in SUBSET Items
    /\ discovered \in [Items -> Nat]
    /\ lastPrice \in [Items -> Prices \cup {NoPrice}]
    /\ priceEvents \in [Items -> Seq(PriceEvents)]
    /\ watermark \in Nat \cup {NoTime}
    /\ sync \in [Workers -> Syncs \cup {Idle}]

ConnectorInit ==
    /\ identity = {}
    /\ discovered = [i \in Items |-> 0]
    /\ lastPrice = [i \in Items |-> NoPrice]
    /\ priceEvents = [i \in Items |-> <<>>]
    /\ watermark = NoTime
    /\ sync = [w \in Workers |-> Idle]

-----------------------------------------------------------------------------
\* The rows of a page that have a usable price.
Priced(rows) == {r \in rows : Price(r.item, r.version) \in Prices}
RowsOf(items) == {[item |-> i, version |-> Latest(i)] : i \in items}

\* A page without rows leaves nothing to be staged.
With(pages, rows) == IF rows = {} THEN pages ELSE Append(pages, rows)

\* Takes a row of the first page off what is to be staged.
Without(pages, r) ==
    IF Head(pages) = {r} THEN Tail(pages) ELSE [pages EXCEPT ![1] = @ \ {r}]

\* The phase after a full sync has its products, and after any sync has its rows staged.
AfterProducts(s) ==
    IF "offers" \in s.kind THEN [s EXCEPT !.phase = "offers", !.offset = 0, !.more = TRUE]
    ELSE [s EXCEPT !.phase = "watermark"]

AfterStaging(s) ==
    CASE s.phase = "stage products" /\ s.products = <<>> ->
            IF s.since # NoTime
            THEN [s EXCEPT !.phase = IF s.offers = <<>> THEN "watermark" ELSE "stage offers"]
            ELSE IF s.more THEN [s EXCEPT !.phase = "products"]
            ELSE AfterProducts(s)
      [] s.phase = "stage offers" /\ s.offers = <<>> -> [s EXCEPT !.phase = "watermark"]
      [] OTHER -> s

\* The products, then the offers of a delta sync, as far as its kind goes.
StageDelta(s) ==
    AfterStaging([s EXCEPT !.phase = IF "products" \in s.kind THEN "stage products"
                                     ELSE "stage offers",
                           !.offers = IF "offers" \in s.kind THEN @ ELSE <<>>])

-----------------------------------------------------------------------------
\* The handler takes a job: run_account_sync reads the clock first.
StartSync(w, kind, mode) ==
    /\ sync[w] = Idle
    /\ sync' = [sync EXCEPT ![w] =
                  [phase |-> "started", kind |-> kind, mode |-> mode, at |-> now, since |-> NoTime,
                   offset |-> 0, more |-> TRUE, ids |-> {}, products |-> <<>>, offers |-> <<>>,
                   reading |-> NotReading]]
    /\ UNCHANGED <<stagedVars, watermark>>

\* A delta sync starts from the watermark; without one it is a full sync.
ReadWatermark(w) ==
    LET s == sync[w]
        since == IF s.mode = "delta" THEN watermark ELSE NoTime
    IN  /\ s.phase = "started"
        /\ sync' = [sync EXCEPT ![w] =
                      IF since # NoTime THEN [s EXCEPT !.phase = "deltas", !.since = since]
                      ELSE IF "products" \in s.kind THEN [s EXCEPT !.phase = "products"]
                      ELSE AfterProducts(s)]
        /\ UNCHANGED <<stagedVars, watermark>>

\* fetch_products: a page, staged before the next one is fetched.
FetchProducts(w) ==
    LET s == sync[w]
        page == Page(Sold, s.offset)
    IN  /\ s.phase = "products"
        /\ sync' = [sync EXCEPT ![w] =
                      AfterStaging([s EXCEPT !.phase = "stage products",
                                             !.products = With(<<>>, RowsOf(page)),
                                             !.offset = @ + PageSize,
                                             !.more = Cardinality(page) = PageSize])]
        /\ UNCHANGED <<stagedVars, watermark>>

\* fetch_offers: every page is fetched before any offer is staged.
FetchOffers(w) ==
    LET s == sync[w]
        page == Page(Sold, s.offset)
        fetched == [s EXCEPT !.offset = @ + PageSize,
                             !.offers = With(@, Priced(RowsOf(page)))]
    IN  /\ s.phase = "offers"
        /\ sync' = [sync EXCEPT ![w] =
                      IF Cardinality(page) = PageSize THEN fetched
                      ELSE AfterStaging([fetched EXCEPT !.phase = "stage offers"])]
        /\ UNCHANGED <<stagedVars, watermark>>

\* fetch_deltas: a page of ids.
FetchDeltas(w) ==
    LET s == sync[w]
        page == Page(ModifiedSince(s.since), s.offset)
        fetched == [s EXCEPT !.offset = @ + PageSize, !.ids = page,
                             !.more = Cardinality(page) = PageSize]
    IN  /\ s.phase = "deltas"
        /\ sync' = [sync EXCEPT ![w] = IF page = {} THEN StageDelta(fetched)
                                       ELSE [fetched EXCEPT !.phase = "items"]]
        /\ UNCHANGED <<stagedVars, watermark>>

\* fetch_delta_item: one product as it is now; the next page follows the last of a page.
FetchDeltaItem(w) ==
    LET s == sync[w]
    IN  /\ s.phase = "items"
        /\ \E i \in s.ids :
              LET row == [item |-> i, version |-> Latest(i)]
                  fetched == [s EXCEPT !.ids = @ \ {i},
                                       !.products = Append(@, {row}),
                                       !.offers = With(@, Priced({row}))]
              IN  /\ Listed(i)
                  /\ sync' = [sync EXCEPT ![w] =
                                CASE fetched.ids # {} -> fetched
                                  [] fetched.ids = {} /\ s.more -> [fetched EXCEPT !.phase = "deltas"]
                                  [] OTHER -> StageDelta(fetched)]
        /\ UNCHANGED <<stagedVars, watermark>>

-----------------------------------------------------------------------------
\* resolve_and_stage: the identity row is looked up ...
ResolveProduct(w) ==
    LET s == sync[w]
    IN  /\ s.phase = "stage products" /\ s.reading = NotReading
        /\ \E r \in Head(s.products) :
              sync' = [sync EXCEPT ![w].reading = [row |-> r, read |-> r.item \in identity]]
        /\ UNCHANGED <<stagedVars, watermark>>

\* Mutant of StageProduct: no primary key, two syncs insert the same product.
StageProductUnkeyed(w) ==
    LET s == sync[w]
        i == s.reading.row.item
    IN  /\ s.phase = "stage products" /\ s.reading # NotReading
        /\ identity' = identity \cup {i}
        /\ discovered' = [discovered EXCEPT ![i] = IF s.reading.read = FALSE THEN @ + 1 ELSE @]
        /\ sync' = [sync EXCEPT ![w] = AfterStaging([s EXCEPT !.reading = NotReading,
                                                    !.products = Without(@, s.reading.row)])]
        /\ UNCHANGED <<lastPrice, priceEvents, watermark>>

\* ... and the transaction commits: a row that was absent is inserted, with its event.
\* The primary key admits one insert.
StageProduct(w) ==
    LET s == sync[w]
        i == s.reading.row.item
        new == s.reading.read = FALSE
    IN  /\ s.phase = "stage products" /\ s.reading # NotReading
        /\ new => i \notin identity
        /\ identity' = identity \cup {i}
        /\ discovered' = [discovered EXCEPT ![i] = IF new THEN @ + 1 ELSE @]
        /\ sync' = [sync EXCEPT ![w] = AfterStaging([s EXCEPT !.reading = NotReading,
                                                    !.products = Without(@, s.reading.row)])]
        /\ UNCHANGED <<lastPrice, priceEvents, watermark>>

\* find_supplier_product_id: an offer of an unknown product is skipped; else
\* resolve_offer_and_stage looks the offer up ...
ResolveOffer(w) ==
    LET s == sync[w]
    IN  /\ s.phase = "stage offers" /\ s.reading = NotReading
        /\ \E r \in Head(s.offers) :
              sync' = [sync EXCEPT ![w] =
                         IF r.item \in identity
                         THEN [s EXCEPT !.reading = [row |-> r, read |-> lastPrice[r.item]]]
                         ELSE AfterStaging([s EXCEPT !.offers = Without(@, r)])]
        /\ UNCHANGED <<stagedVars, watermark>>

\* Mutant of StageOffer: every offer that is fetched is announced.
StageOfferAlways(w) ==
    LET s == sync[w]
        r == s.reading.row
    IN  /\ s.phase = "stage offers" /\ s.reading # NotReading
        /\ s.reading.read = NoPrice => lastPrice[r.item] = NoPrice
        /\ lastPrice' = [lastPrice EXCEPT ![r.item] = Price(r.item, r.version)]
        /\ priceEvents' = [priceEvents EXCEPT ![r.item] =
                              Append(@, [old |-> s.reading.read, version |-> r.version])]
        /\ sync' = [sync EXCEPT ![w] = AfterStaging([s EXCEPT !.reading = NotReading,
                                                    !.offers = Without(@, r)])]
        /\ UNCHANGED <<identity, discovered, watermark>>

\* ... and commits: a new row, or a price that differs from what was read, with its event.
StageOffer(w) ==
    LET s == sync[w]
        r == s.reading.row
        old == s.reading.read
        price == Price(r.item, r.version)
    IN  /\ s.phase = "stage offers" /\ s.reading # NotReading
        /\ old = NoPrice => lastPrice[r.item] = NoPrice
        /\ IF price = old THEN UNCHANGED <<lastPrice, priceEvents>>
           ELSE /\ lastPrice' = [lastPrice EXCEPT ![r.item] = price]
                /\ priceEvents' = [priceEvents EXCEPT ![r.item] =
                                      Append(@, [old |-> old, version |-> r.version])]
        /\ sync' = [sync EXCEPT ![w] = AfterStaging([s EXCEPT !.reading = NotReading,
                                                    !.offers = Without(@, r)])]
        /\ UNCHANGED <<identity, discovered, watermark>>

\* Mutant of SetWatermark: to the moment the sync ended.
SetWatermarkToEnd(w) ==
    /\ sync[w].phase = "watermark"
    /\ watermark' = now
    /\ sync' = [sync EXCEPT ![w].phase = "done"]
    /\ UNCHANGED stagedVars

\* set_watermark: to the moment the sync began, whatever it was.
SetWatermark(w) ==
    /\ sync[w].phase = "watermark"
    /\ watermark' = sync[w].at
    /\ sync' = [sync EXCEPT ![w].phase = "done"]
    /\ UNCHANGED stagedVars

\* The handler raises and what it had not committed is gone: the supplier or the database
\* fails, a modified product has been delisted, an insert finds the key taken.
SyncFails(w) ==
    /\ sync[w] # Idle
    /\ sync' = [sync EXCEPT ![w] = Idle]
    /\ UNCHANGED <<stagedVars, watermark>>

MustFail(w) ==
    LET s == sync[w]
    IN  \/ s.phase = "items" /\ \E i \in s.ids : ~Listed(i)
        \/ /\ s.phase = "stage products" /\ s.reading # NotReading
           /\ s.reading.read = FALSE /\ s.reading.row.item \in identity
        \/ /\ s.phase = "stage offers" /\ s.reading # NotReading
           /\ s.reading.read = NoPrice /\ lastPrice[s.reading.row.item] # NoPrice

RunAccountSync(w) ==
    \/ ReadWatermark(w)
    \/ FetchProducts(w) \/ FetchOffers(w) \/ FetchDeltas(w) \/ FetchDeltaItem(w)
    \/ ResolveProduct(w) \/ StageProduct(w) \/ ResolveOffer(w) \/ StageOffer(w)
    \/ SetWatermark(w)
=============================================================================
