-------------------------------- MODULE Offer --------------------------------
(***************************************************************************)
(* The offer service for one supplier account: its offers, its financial   *)
(* terms, and the two kinds of transaction that write them                 *)
(* (services/offer: adapters/repository.py).  A price event and a change   *)
(* of terms run in different processes.  The database is READ COMMITTED:   *)
(* each read sees what is committed by then, an UPDATE sets the columns    *)
(* that differ from what was loaded, and holds the row until the commit.   *)
(*                                                                         *)
(* Price events come from one consumer, one at a time.  rrp_uah and        *)
(* updated_at are written and never read; stock is not kept.               *)
(***************************************************************************)
EXTENDS Pricing, Sequences

CONSTANTS Offers,       \* the offers of the account
          Requests,     \* PUT requests for its terms
          NoOffer,      \* no row of the offer
          NoTerms       \* no row of the account

VARIABLES offers,       \* offers[o]: the row, its price, its effective price, its time
          accountTerms, \* the account's row
          announced,    \* announced[o]: o's effective-price events, as committed
          pricing,      \* the open transaction of the price consumer
          puts          \* puts[r]: the transaction of request r

offerVars == <<offers, accountTerms, announced, pricing, puts>>

OfferRows == [price : Prices, effective : EffectivePrices, observed : Nat]

Announcements == [effective : EffectivePrices \ {NoPrice}, at : Nat]

NotPricing == [phase |-> "none"]

\* Terms are read, then the offer's row; what is written is computed from the two.
Pricings ==
    [phase : {"terms read"}, offer : Offers, price : Prices, at : Nat, terms : Terms \cup {DefaultTerms}]
    \cup
    [phase : {"row read"}, offer : Offers, price : Prices, at : Nat,
     effective : EffectivePrices, row : OfferRows \cup {NoOffer}]

NewPut == [phase |-> "new"]
DonePut == [phase |-> "done"]

Puts ==
    {NewPut, DonePut}
    \cup [phase : {"account read", "flushed"}, terms : Terms, loaded : Terms \cup {NoTerms}]
    \cup [phase : {"offers read"}, terms : Terms, loaded : Terms \cup {NoTerms},
          rows : [Offers -> OfferRows \cup {NoOffer}], at : Nat]

OfferTypeOK ==
    /\ offers \in [Offers -> OfferRows \cup {NoOffer}]
    /\ accountTerms \in Terms \cup {NoTerms}
    /\ announced \in [Offers -> Seq(Announcements)]
    /\ pricing \in Pricings \cup {NotPricing}
    /\ puts \in [Requests -> Puts]

OfferInit ==
    /\ offers = [o \in Offers |-> NoOffer]
    /\ accountTerms = NoTerms
    /\ announced = [o \in Offers |-> <<>>]
    /\ pricing = NotPricing
    /\ puts = [r \in Requests |-> NewPut]

-----------------------------------------------------------------------------
\* _terms_of
TermsOf(row) == IF row = NoTerms THEN DefaultTerms ELSE row

\* The effective price a row was loaded with; none of a row that is not there.
OldEffective(row) == IF row = NoOffer THEN NoPrice ELSE row.effective

\* _emit_effective_change: the events of o after its price moved from old to new.
Emit(o, old, new, at) ==
    IF new = NoPrice \/ new = old THEN announced[o]
    ELSE Append(announced[o], [effective |-> new, at |-> at])

\* Mutant of Written: the column is always set.
WrittenAlways(stored, loaded, new) == new

\* The effective column after an UPDATE: unchanged if it equals what was loaded.
Written(stored, loaded, new) == IF new = loaded THEN stored ELSE new

\* upsert_offer: the event's price, and the account's terms as they are committed.
ReadTerms(o, price, at) ==
    /\ pricing = NotPricing
    /\ pricing' = [phase |-> "terms read", offer |-> o, price |-> price, at |-> at,
                   terms |-> TermsOf(accountTerms)]
    /\ UNCHANGED <<offers, accountTerms, announced, puts>>

ReadOffer ==
    /\ pricing.phase = "terms read"
    /\ pricing' = [phase |-> "row read", offer |-> pricing.offer, price |-> pricing.price,
                   at |-> pricing.at, row |-> offers[pricing.offer],
                   effective |-> EffectivePrice(pricing.price, pricing.terms)]
    /\ UNCHANGED <<offers, accountTerms, announced, puts>>

CommitPrice ==
    LET o == pricing.offer
        new == pricing.effective
        old == OldEffective(pricing.row)
        stored == IF pricing.row = NoOffer THEN new ELSE Written(offers[o].effective, old, new)
    IN  /\ pricing.phase = "row read"
        /\ offers' = [offers EXCEPT ![o] = [price |-> pricing.price, effective |-> stored,
                                           observed |-> pricing.at]]
        /\ announced' = [announced EXCEPT ![o] = Emit(o, old, new, pricing.at)]
        /\ pricing' = NotPricing
        /\ UNCHANGED <<accountTerms, puts>>

\* The transaction fails and is rolled back.
AbandonPrice ==
    /\ pricing # NotPricing
    /\ pricing' = NotPricing
    /\ UNCHANGED <<offers, accountTerms, announced, puts>>

-----------------------------------------------------------------------------
\* upsert_account_terms: the account's row is read.
ReadAccount(r) ==
    /\ puts[r] = NewPut
    /\ \E t \in Terms :
          puts' = [puts EXCEPT ![r] =
                      [phase |-> "account read", terms |-> t, loaded |-> accountTerms]]
    /\ UNCHANGED <<offers, accountTerms, announced, pricing>>

\* Some request's write of the account's row is not committed yet.
AccountLocked == \E r \in Requests : puts[r].phase \in {"flushed", "offers read"}

\* The row is written, and held; an INSERT of a row that has come since fails.
FlushTerms(r) ==
    /\ puts[r].phase = "account read"
    /\ ~AccountLocked
    /\ puts' = [puts EXCEPT ![r] =
                  IF puts[r].loaded = NoTerms /\ accountTerms # NoTerms THEN DonePut
                  ELSE [phase |-> "flushed", terms |-> puts[r].terms, loaded |-> puts[r].loaded]]
    /\ UNCHANGED <<offers, accountTerms, announced, pricing>>

\* _reprice_account: now is taken, and the offers' rows are read.
ReadOffers(r, now) ==
    /\ puts[r].phase = "flushed"
    /\ puts' = [puts EXCEPT ![r] =
                  [phase |-> "offers read", terms |-> puts[r].terms,
                   loaded |-> puts[r].loaded, rows |-> offers, at |-> now]]
    /\ UNCHANGED <<offers, accountTerms, announced, pricing>>

\* The transaction of a request fails and is rolled back, and its lock is released.
AbandonTerms(r) ==
    /\ puts[r] \notin {NewPut, DonePut}
    /\ puts' = [puts EXCEPT ![r] = DonePut]
    /\ UNCHANGED <<offers, accountTerms, announced, pricing>>

\* The account's columns: the ones that differ from the loaded row are set.
TermsWritten(put) ==
    IF put.loaded = NoTerms THEN put.terms
    ELSE [discount |-> Written(accountTerms.discount, put.loaded.discount, put.terms.discount),
          markup |-> Written(accountTerms.markup, put.loaded.markup, put.terms.markup),
          fx |-> Written(accountTerms.fx, put.loaded.fx, put.terms.fx)]

\* Mutant of Repriced: with the terms the account had.
RepricedBefore(put, o) == EffectivePrice(put.rows[o].price, TermsOf(put.loaded))

\* An offer is re-priced from the row that was read, under the request's terms.
Repriced(put, o) == EffectivePrice(put.rows[o].price, put.terms)

\* Mutants of CommitTerms: the rows that were read are saved whole; the events have
\* the time of the offers' last observation.
CommitTermsWhole(r) ==
    LET put == puts[r]
    IN  /\ put.phase = "offers read"
        /\ accountTerms' = TermsWritten(put)
        /\ offers' = [o \in Offers |->
              IF put.rows[o] = NoOffer THEN offers[o]
              ELSE [put.rows[o] EXCEPT !.effective = Repriced(put, o)]]
        /\ announced' = [o \in Offers |->
              IF put.rows[o] = NoOffer THEN announced[o]
              ELSE Emit(o, put.rows[o].effective, Repriced(put, o), put.at)]
        /\ puts' = [puts EXCEPT ![r] = DonePut]
        /\ UNCHANGED pricing

CommitTermsObserved(r) ==
    LET put == puts[r]
    IN  /\ put.phase = "offers read"
        /\ accountTerms' = TermsWritten(put)
        /\ offers' = [o \in Offers |->
              IF put.rows[o] = NoOffer THEN offers[o]
              ELSE [offers[o] EXCEPT !.effective =
                       Written(@, put.rows[o].effective, Repriced(put, o))]]
        /\ announced' = [o \in Offers |->
              IF put.rows[o] = NoOffer THEN announced[o]
              ELSE Emit(o, put.rows[o].effective, Repriced(put, o), put.rows[o].observed)]
        /\ puts' = [puts EXCEPT ![r] = DonePut]
        /\ UNCHANGED pricing

\* The transaction commits: the account's row, the offers' effective prices and
\* their events.
CommitTerms(r) ==
    LET put == puts[r]
    IN  /\ put.phase = "offers read"
        /\ accountTerms' = TermsWritten(put)
        /\ offers' = [o \in Offers |->
              IF put.rows[o] = NoOffer THEN offers[o]
              ELSE [offers[o] EXCEPT !.effective =
                       Written(@, put.rows[o].effective, Repriced(put, o))]]
        /\ announced' = [o \in Offers |->
              IF put.rows[o] = NoOffer THEN announced[o]
              ELSE Emit(o, put.rows[o].effective, Repriced(put, o), put.at)]
        /\ puts' = [puts EXCEPT ![r] = DonePut]
        /\ UNCHANGED pricing
=============================================================================
