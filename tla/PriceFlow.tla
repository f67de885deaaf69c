------------------------------ MODULE PriceFlow ------------------------------
(***************************************************************************)
(* Prices from the connector's event to the offer, its effective price and *)
(* the two series of the price history, with changes of the account's      *)
(* terms at any moment between.                                            *)
(*                                                                         *)
(* Topics are what EventPipeline proves of them: in order per offer, each  *)
(* event applied once, parked on the dead-letter topic after failures and  *)
(* replayed at any later time.  The history consumers append, so the order *)
(* in which they come to handle their events is left open.  Times are      *)
(* those of one clock: no two observations or changes of terms share one.  *)
(***************************************************************************)
EXTENDS Offer

CONSTANTS MaxTime,     \* bound: prices are observed before it
          MaxParked          \* bound: dead-lettered price events

ASSUME PriceFlowAssumption ==
    /\ MaxTime \in Nat
    /\ MaxParked \in Nat
    /\ NoOffer \notin OfferRows
    /\ NoTerms \notin Terms

VARIABLES pricePoints, effectivePoints,   \* the price history
          clock,           \* the time
          observed,        \* observed[o]: o's price-changed events, in order
          priceOffset,     \* priceOffset[o]: events of o the offer service is past
          parked,          \* its dead-lettered events: an offer and a position
          parksLeft,       \* how many events may still be dead-lettered
          taken,           \* the event it is handling
          pricesRecorded,      \* pricesRecorded[o]: positions the history has handled
          effectivesRecorded,  \* the same of o's effective-price events
          overlapped       \* history variable: two transactions have been open at once

History == INSTANCE PriceHistory

delivery == <<observed, priceOffset, parked, parksLeft, taken>>

recorded == <<pricePoints, effectivePoints, pricesRecorded, effectivesRecorded>>

flowVars == <<offerVars, recorded, clock, delivery, overlapped>>

NothingTaken == <<>>

Observations == [price : Prices, at : Nat]

PriceTypeOK ==
    /\ OfferTypeOK
    /\ History!HistoryTypeOK
    /\ clock \in Nat
    /\ observed \in [Offers -> Seq(Observations)]
    /\ priceOffset \in [Offers -> Nat]
    /\ parked \in SUBSET (Offers \X (Nat \ {0}))
    /\ parksLeft \in 0..MaxParked
    /\ taken = NothingTaken \/ taken \in Offers \X (Nat \ {0})
    /\ pricesRecorded \in [Offers -> SUBSET (Nat \ {0})]
    /\ effectivesRecorded \in [Offers -> SUBSET (Nat \ {0})]
    /\ overlapped \in BOOLEAN

Init ==
    /\ OfferInit
    /\ History!HistoryInit
    /\ clock = 0
    /\ observed = [o \in Offers |-> <<>>]
    /\ priceOffset = [o \in Offers |-> 0]
    /\ parked = {}
    /\ parksLeft = MaxParked
    /\ taken = NothingTaken
    /\ pricesRecorded = [o \in Offers |-> {}]
    /\ effectivesRecorded = [o \in Offers |-> {}]
    /\ overlapped = FALSE

-----------------------------------------------------------------------------
Tick == clock' = clock + 1

\* Request r's transaction is open.
Open(r) == puts[r].phase \in {"account read", "flushed", "offers read"}

\* A transaction is opened while these others are.
Meets(priceOpen, requests) ==
    overlapped' = (overlapped \/ priceOpen \/ \E r \in requests : Open(r))

\* The connector emits an offer's first price, and later ones that differ from the last
\* in amount or currency.
Moved(o, p) ==
    observed[o] # <<>> =>
        LET last == observed[o][Len(observed[o])].price
        IN  p.base # last.base \/ p.currency # last.currency

Observe(o) ==
    /\ clock < MaxTime
    /\ \E p \in Prices :
          /\ Moved(o, p)
          /\ observed' = [observed EXCEPT ![o] = Append(@, [price |-> p, at |-> clock])]
    /\ Tick
    /\ UNCHANGED <<offerVars, recorded, priceOffset, parked, parksLeft, taken, overlapped>>

\* The i-th event of o is handled: the handler's transaction begins.
Handle(o, i) ==
    /\ ReadTerms(o, observed[o][i].price, observed[o][i].at)
    /\ taken' = <<o, i>>
    /\ Meets(FALSE, Requests)
    /\ UNCHANGED <<recorded, clock, observed, priceOffset, parked, parksLeft>>

TakePrice(o) ==
    /\ priceOffset[o] < Len(observed[o])
    /\ Handle(o, priceOffset[o] + 1)

ReplayPrice == \E e \in parked : Handle(e[1], e[2])

ContinuePrice ==
    /\ ReadOffer
    /\ UNCHANGED <<recorded, clock, delivery, overlapped>>

FinishPrice ==
    /\ CommitPrice
    /\ priceOffset' = [priceOffset EXCEPT ![taken[1]] = IF taken[2] > @ THEN taken[2] ELSE @]
    /\ parked' = parked \ {taken}
    /\ taken' = NothingTaken
    /\ UNCHANGED <<recorded, clock, observed, parksLeft, overlapped>>

\* The attempt fails, and the event will be taken again.
FailPrice ==
    /\ AbandonPrice
    /\ taken' = NothingTaken
    /\ UNCHANGED <<recorded, clock, observed, priceOffset, parked, parksLeft, overlapped>>

\* The last attempt fails, and the event is dead-lettered.
ParkPrice ==
    /\ parksLeft > 0
    /\ AbandonPrice
    /\ priceOffset' = [priceOffset EXCEPT ![taken[1]] = IF taken[2] > @ THEN taken[2] ELSE @]
    /\ parked' = parked \cup {taken}
    /\ parksLeft' = parksLeft - 1
    /\ taken' = NothingTaken
    /\ UNCHANGED <<recorded, clock, observed, overlapped>>

-----------------------------------------------------------------------------
\* PUT /v1/accounts/{id}/terms, statement by statement.
BeginTerms(r) ==
    /\ ReadAccount(r)
    /\ Meets(pricing # NotPricing, Requests \ {r})
    /\ UNCHANGED <<recorded, clock, delivery>>

WriteTerms(r) ==
    /\ FlushTerms(r)
    /\ UNCHANGED <<recorded, clock, delivery, overlapped>>

LoadOffers(r) ==
    /\ ReadOffers(r, clock)
    /\ Tick
    /\ UNCHANGED <<recorded, delivery, overlapped>>

Reprice(r) ==
    /\ CommitTerms(r)
    /\ UNCHANGED <<recorded, clock, delivery, overlapped>>

FailTerms(r) ==
    /\ AbandonTerms(r)
    /\ UNCHANGED <<recorded, clock, delivery, overlapped>>

\* The history handles the i-th price event of o ...
RecordPrice(o, i) ==
    /\ i \notin pricesRecorded[o]
    /\ History!AppendPricePoint(o, observed[o][i].price, observed[o][i].at)
    /\ pricesRecorded' = [pricesRecorded EXCEPT ![o] = @ \cup {i}]
    /\ UNCHANGED <<offerVars, clock, delivery, effectivesRecorded, overlapped>>

\* ... and its i-th effective-price event.
RecordEffective(o, i) ==
    /\ i \notin effectivesRecorded[o]
    /\ History!AppendEffectivePoint(o, announced[o][i].effective, announced[o][i].at)
    /\ effectivesRecorded' = [effectivesRecorded EXCEPT ![o] = @ \cup {i}]
    /\ UNCHANGED <<offerVars, clock, delivery, pricesRecorded, overlapped>>

Next ==
    \/ \E o \in Offers :
          \/ Observe(o)
          \/ TakePrice(o)
          \/ \E i \in DOMAIN observed[o] : RecordPrice(o, i)
          \/ \E i \in DOMAIN announced[o] : RecordEffective(o, i)
    \/ \E r \in Requests :
          BeginTerms(r) \/ WriteTerms(r) \/ LoadOffers(r) \/ Reprice(r) \/ FailTerms(r)
    \/ ReplayPrice
    \/ ContinuePrice
    \/ FinishPrice
    \/ FailPrice
    \/ ParkPrice

Spec == Init /\ [][Next]_flowVars

-----------------------------------------------------------------------------
\* Nobody who follows the effective-price events is misled: an offer that has an
\* effective price was last announced with it, however prices and terms meet
\* (ADR-0007: a change of the effective price is published).
AnnouncedIsStored ==
    \A o \in Offers :
        offers[o] # NoOffer /\ offers[o].effective # NoPrice =>
            /\ announced[o] # <<>>
            /\ announced[o][Len(announced[o])].effective = offers[o].effective

IsCurrent(o) ==
    offers[o] # NoOffer =>
        offers[o].effective = EffectivePrice(offers[o].price, TermsOf(accountTerms))

\* An offer's effective price is its price under its account's terms (ADR-0007:
\* computed on upsert and again when the terms change) once no transaction is open.
\* The code does not have it if a price and a change of terms were open at once ...
EffectiveIsCurrent ==
    pricing = NotPricing /\ (\A r \in Requests : ~Open(r)) => \A o \in Offers : IsCurrent(o)

\* ... but it has, as long as no two transactions have been open at once.
SerialPricesAreCurrent == ~overlapped => \A o \in Offers : IsCurrent(o)

\* When nothing is dead-lettered and all events are handled, an offer has the price
\* that was observed last: a change of terms never brings back an earlier one.
LatestPriceStands ==
    parksLeft = MaxParked =>
        \A o \in Offers :
            observed[o] # <<>> /\ priceOffset[o] = Len(observed[o]) =>
                offers[o].price = observed[o][Len(observed[o])].price

\* The history holds every change it was told of (README.md of price-history: "every
\* supplier price change"): no two changes of an offer compete for one point.
HistoryIsComplete ==
    \A o \in Offers :
        /\ \A i \in pricesRecorded[o] :
              [ts |-> observed[o][i].at, price |-> observed[o][i].price] \in pricePoints[o]
        /\ \A i \in effectivesRecorded[o] :
              [ts |-> announced[o][i].at, effective |-> announced[o][i].effective]
                  \in effectivePoints[o]
=============================================================================
