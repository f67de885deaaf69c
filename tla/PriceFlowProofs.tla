--------------------------- MODULE PriceFlowProofs ---------------------------
(***************************************************************************)
(* Proofs about PriceFlow, for any offers, prices, terms, requests and     *)
(* bounds.  IInv is what all of them stand on; each property adds an       *)
(* invariant of its own.                                                   *)
(***************************************************************************)
EXTENDS PriceFlow, TLAPS

-----------------------------------------------------------------------------
(* The invariants.                                                          *)

\* Rows are never deleted: one that was read is still there.
RowInv ==
    /\ pricing.phase = "row read" /\ pricing.row # NoOffer => offers[pricing.offer] # NoOffer
    /\ \A r \in Requests :
          /\ Open(r) /\ puts[r].loaded # NoTerms => accountTerms # NoTerms
          /\ puts[r].phase = "offers read" =>
                \A o \in Offers : puts[r].rows[o] # NoOffer => offers[o] # NoOffer

\* Offsets and parked events are positions on the topic, and the transaction of the
\* price consumer is about the event it has taken.
PositionInv ==
    /\ \A o \in Offers : priceOffset[o] <= Len(observed[o])
    /\ \A e \in parked : e[2] <= Len(observed[e[1]])
    /\ pricing # NotPricing =>
          /\ taken \in Offers \X (Nat \ {0})
          /\ taken[1] = pricing.offer
          /\ taken[2] <= Len(observed[taken[1]])
          /\ pricing.price = observed[taken[1]][taken[2]].price
          /\ pricing.at = observed[taken[1]][taken[2]].at

IInv ==
    /\ PriceTypeOK
    /\ RowInv
    /\ PositionInv

\* While transactions have taken turns, what the open one has read is what is stored.
SerialInv ==
    ~overlapped =>
        /\ \A o \in Offers : IsCurrent(o)
        /\ pricing # NotPricing => \A r \in Requests : ~Open(r)
        /\ \A r, s \in Requests : Open(r) /\ Open(s) => r = s
        /\ pricing.phase = "terms read" => pricing.terms = TermsOf(accountTerms)
        /\ pricing.phase = "row read" =>
              /\ pricing.row = offers[pricing.offer]
              /\ pricing.effective = EffectivePrice(pricing.price, TermsOf(accountTerms))
        /\ \A r \in Requests :
              /\ Open(r) => puts[r].loaded = accountTerms
              /\ puts[r].phase = "offers read" => puts[r].rows = offers

\* While nothing has been dead-lettered, an offer has the price of the last event the
\* consumer is past.
InOrderInv ==
    parksLeft = MaxParked =>
        /\ parked = {}
        /\ \A o \in Offers : priceOffset[o] # 0 =>
              offers[o] # NoOffer /\ offers[o].price = observed[o][priceOffset[o]].price
        /\ pricing # NotPricing => taken[2] = priceOffset[taken[1]] + 1

\* The i-th price event of o is still to be applied.
Pending(o, i) == i > priceOffset[o] \/ <<o, i>> \in parked

\* No two changes of an offer share a time: observations differ, a pending one and a
\* pending change of terms have not been announced, announcements differ.
ObservedTimes ==
    \A o \in Offers : \A i \in 1..Len(observed[o]) :
        /\ observed[o][i].at < clock
        /\ \A j \in 1..Len(observed[o]) : observed[o][i].at = observed[o][j].at => i = j

AnnouncedTimes(o) ==
    /\ \A k \in 1..Len(announced[o]) :
          /\ announced[o][k].at < clock
          /\ \A l \in 1..Len(announced[o]) : announced[o][k].at = announced[o][l].at => k = l
    /\ \A i \in 1..Len(observed[o]) : Pending(o, i) =>
          \A k \in 1..Len(announced[o]) : announced[o][k].at # observed[o][i].at

PutTimes(r) ==
    puts[r].phase = "offers read" =>
        /\ puts[r].at < clock
        /\ \A o \in Offers : \A i \in 1..Len(observed[o]) : observed[o][i].at # puts[r].at
        /\ \A o \in Offers : \A k \in 1..Len(announced[o]) : announced[o][k].at # puts[r].at
        /\ \A s \in Requests :
              puts[s].phase = "offers read" /\ puts[s].at = puts[r].at => r = s

TakenPending == pricing # NotPricing => Pending(taken[1], taken[2])

TimeInv ==
    /\ ObservedTimes
    /\ \A o \in Offers : AnnouncedTimes(o)
    /\ \A r \in Requests : PutTimes(r)
    /\ TakenPending

PricePoint(o, i) == [ts |-> observed[o][i].at, price |-> observed[o][i].price]

EffectivePoint(o, i) == [ts |-> announced[o][i].at, effective |-> announced[o][i].effective]

\* The points are those of the recorded events, and of no others.
PointInv ==
    \A o \in Offers :
        /\ pricesRecorded[o] \subseteq 1..Len(observed[o])
        /\ effectivesRecorded[o] \subseteq 1..Len(announced[o])
        /\ \A i \in pricesRecorded[o] : PricePoint(o, i) \in pricePoints[o]
        /\ \A i \in effectivesRecorded[o] : EffectivePoint(o, i) \in effectivePoints[o]
        /\ \A q \in pricePoints[o] : \E i \in pricesRecorded[o] : q = PricePoint(o, i)
        /\ \A q \in effectivePoints[o] : \E i \in effectivesRecorded[o] : q = EffectivePoint(o, i)

-----------------------------------------------------------------------------
(* What the operators return.                                               *)

LEMMA EffectiveTyped ==
    ASSUME NEW p \in Prices, NEW t \in Terms \cup {DefaultTerms}
    PROVE  EffectivePrice(p, t) \in EffectivePrices
BY DEF EffectivePrices

LEMMA TermsOfTyped ==
    ASSUME NEW t \in Terms \cup {NoTerms}
    PROVE  TermsOf(t) \in Terms \cup {DefaultTerms}
BY DEF TermsOf

\* An event is emitted for a change to a price, and for nothing else.
LEMMA EmitEffect ==
    ASSUME NEW o \in Offers, announced[o] \in Seq(Announcements),
           NEW old, NEW new \in EffectivePrices, NEW at \in Nat
    PROVE  /\ Emit(o, old, new, at) \in Seq(Announcements)
           /\ \/ (new = NoPrice \/ new = old) /\ Emit(o, old, new, at) = announced[o]
              \/ /\ new # NoPrice /\ new # old
                 /\ Emit(o, old, new, at) = Append(announced[o], [effective |-> new, at |-> at])
<1>1. CASE new = NoPrice \/ new = old
  BY <1>1 DEF Emit
<1>2. CASE new # NoPrice /\ new # old
  <2> DEFINE e == [effective |-> new, at |-> at]
  <2>1. e \in Announcements
    BY <1>2 DEF Announcements
  <2>2. Emit(o, old, new, at) = Append(announced[o], e)
    BY <1>2 DEF Emit
  <2> QED
    BY <1>2, <2>1, <2>2
<1> QED
  BY <1>1, <1>2

\* What the phases of a transaction hold.
LEMMA PricingFields ==
    ASSUME pricing \in Pricings \cup {NotPricing}, pricing # NotPricing
    PROVE  /\ pricing.offer \in Offers
           /\ pricing.price \in Prices
           /\ pricing.at \in Nat
           /\ pricing.phase \in {"terms read", "row read"}
           /\ pricing.phase = "terms read" => pricing.terms \in Terms \cup {DefaultTerms}
           /\ pricing.phase = "row read" =>
                 /\ pricing.effective \in EffectivePrices
                 /\ pricing.row \in OfferRows \cup {NoOffer}
BY DEF Pricings, NotPricing

LEMMA PutFields ==
    ASSUME puts \in [Requests -> Puts], NEW r \in Requests
    PROVE  /\ puts[r].phase \in {"new", "done", "account read", "flushed", "offers read"}
           /\ puts[r].phase = "new" => puts[r] = NewPut
           /\ Open(r) => puts[r].terms \in Terms /\ puts[r].loaded \in Terms \cup {NoTerms}
           /\ puts[r].phase = "offers read" =>
                 /\ puts[r].rows \in [Offers -> OfferRows \cup {NoOffer}]
                 /\ puts[r].at \in Nat
<1> DEFINE Read == [phase : {"account read", "flushed"}, terms : Terms, loaded : Terms \cup {NoTerms}]
           Loaded == [phase : {"offers read"}, terms : Terms, loaded : Terms \cup {NoTerms},
                      rows : [Offers -> OfferRows \cup {NoOffer}], at : Nat]
<1>1. puts[r] \in {NewPut, DonePut} \cup Read \cup Loaded
  BY DEF Puts
<1>2. CASE puts[r] \in {NewPut, DonePut}
  <2>1. puts[r] = NewPut => puts[r].phase = "new"
    BY DEF NewPut
  <2>2. puts[r] = DonePut => puts[r].phase = "done"
    BY DEF DonePut
  <2> QED
    BY <1>2, <2>1, <2>2 DEF Open
<1>3. CASE puts[r] \in Read
  BY <1>3 DEF Open, NewPut
<1>4. CASE puts[r] \in Loaded
  <2>1. /\ puts[r].phase = "offers read"
        /\ puts[r].terms \in Terms
        /\ puts[r].loaded \in Terms \cup {NoTerms}
    BY <1>4
  <2>2. puts[r].rows \in [Offers -> OfferRows \cup {NoOffer}] /\ puts[r].at \in Nat
    BY <1>4
  <2> QED
    BY <2>1, <2>2
<1> QED
  BY <1>1, <1>2, <1>3, <1>4

-----------------------------------------------------------------------------
(* IInv is inductive.                                                       *)

LEMMA InitIInv == Init => IInv
<1> SUFFICES ASSUME Init PROVE IInv
  OBVIOUS
<1>1. OfferTypeOK
  BY DEF Init, OfferInit, OfferTypeOK, Puts
<1>2. PriceTypeOK
  <2>1. History!HistoryTypeOK
    BY DEF Init, History!HistoryInit, History!HistoryTypeOK
  <2>2. observed \in [Offers -> Seq(Observations)]
    BY DEF Init
  <2>3. overlapped \in BOOLEAN
    BY DEF Init
  <2>4. /\ pricesRecorded \in [Offers -> SUBSET (Nat \ {0})]
        /\ effectivesRecorded \in [Offers -> SUBSET (Nat \ {0})]
        /\ priceOffset \in [Offers -> Nat]
    BY DEF Init
  <2>5. clock \in Nat /\ parked = {} /\ parksLeft \in 0..MaxParked /\ taken = NothingTaken
    BY PriceFlowAssumption DEF Init
  <2> QED
    BY <1>1, <2>1, <2>2, <2>3, <2>4, <2>5 DEF PriceTypeOK
<1>3. RowInv
  BY DEF Init, OfferInit, RowInv, NotPricing, NewPut, Open
<1>4. PositionInv
  BY DEF Init, OfferInit, PositionInv
<1> QED
  BY <1>2, <1>3, <1>4 DEF IInv

\* A transaction of the price consumer begins.
LEMMA HandleEffect ==
    ASSUME IInv, NEW o \in Offers, NEW i \in Nat \ {0}, i <= Len(observed[o]), Handle(o, i)
    PROVE  /\ UNCHANGED <<offers, accountTerms, announced, puts>>
           /\ UNCHANGED <<recorded, clock, observed, priceOffset, parked, parksLeft>>
           /\ pricing = NotPricing
           /\ pricing' \in Pricings
           /\ pricing'.phase = "terms read"
           /\ pricing'.offer = o
           /\ pricing'.price = observed[o][i].price
           /\ pricing'.at = observed[o][i].at
           /\ pricing'.terms = TermsOf(accountTerms)
           /\ taken' = <<o, i>>
           /\ overlapped' \in BOOLEAN
<1>1. observed[o][i] \in Observations
  BY DEF IInv, PriceTypeOK
<1>2. TermsOf(accountTerms) \in Terms \cup {DefaultTerms}
  BY TermsOfTyped DEF IInv, PriceTypeOK, OfferTypeOK
<1>3. pricing' = [phase |-> "terms read", offer |-> o, price |-> observed[o][i].price,
                  at |-> observed[o][i].at, terms |-> TermsOf(accountTerms)]
  BY DEF Handle, ReadTerms
<1>4. pricing' \in Pricings
  BY <1>1, <1>2, <1>3 DEF Pricings, Observations
<1>5. /\ UNCHANGED <<offers, accountTerms, announced, puts>>
      /\ UNCHANGED <<recorded, clock, observed, priceOffset, parked, parksLeft>>
      /\ pricing = NotPricing
      /\ taken' = <<o, i>>
      /\ overlapped' \in BOOLEAN
  BY DEF Handle, ReadTerms, Meets, IInv, PriceTypeOK
<1> QED
  BY <1>3, <1>4, <1>5

\* TakePrice and ReplayPrice are both a Handle of a position on the topic.
LEMMA TakeIsHandle ==
    ASSUME IInv, NEW o \in Offers, TakePrice(o)
    PROVE  /\ priceOffset[o] + 1 \in Nat \ {0}
           /\ priceOffset[o] + 1 <= Len(observed[o])
           /\ Handle(o, priceOffset[o] + 1)
BY DEF TakePrice, IInv, PriceTypeOK

LEMMA ReplayIsHandle ==
    ASSUME IInv, NEW e \in parked
    PROVE  /\ e[1] \in Offers /\ e[2] \in Nat \ {0}
           /\ e[2] <= Len(observed[e[1]])
           /\ e = <<e[1], e[2]>>
BY DEF IInv, PriceTypeOK, PositionInv

\* What a committed price event writes.
LEMMA CommitPriceEffect ==
    ASSUME IInv, CommitPrice
    PROVE  LET o == pricing.offer
               old == OldEffective(pricing.row)
           IN  /\ pricing.phase = "row read"
               /\ pricing # NotPricing
               /\ o \in Offers
               /\ offers' \in [Offers -> OfferRows \cup {NoOffer}]
               /\ \A q \in Offers : q # o => offers'[q] = offers[q] /\ announced'[q] = announced[q]
               /\ offers'[o] \in OfferRows
               /\ offers'[o].price = pricing.price
               /\ offers'[o].effective =
                     IF pricing.row = NoOffer THEN pricing.effective
                     ELSE Written(offers[o].effective, old, pricing.effective)
               /\ announced' \in [Offers -> Seq(Announcements)]
               /\ announced'[o] = Emit(o, old, pricing.effective, pricing.at)
               /\ pricing' = NotPricing
               /\ UNCHANGED <<accountTerms, puts>>
<1> DEFINE o == pricing.offer
           new == pricing.effective
           old == OldEffective(pricing.row)
           stored == IF pricing.row = NoOffer THEN new ELSE Written(offers[o].effective, old, new)
<1>1. pricing.phase = "row read" /\ pricing # NotPricing
  <2>1. pricing.phase = "row read"
    BY DEF CommitPrice
  <2>2. pricing = NotPricing => pricing.phase = "none"
    BY DEF NotPricing
  <2> QED
    BY <2>1, <2>2
<1>2. o \in Offers /\ pricing.price \in Prices /\ pricing.at \in Nat /\ new \in EffectivePrices
  BY <1>1, PricingFields DEF IInv, PriceTypeOK, OfferTypeOK
<1>3. stored \in EffectivePrices
  <2>1. CASE pricing.row = NoOffer
    BY <1>2, <2>1
  <2>2. CASE pricing.row # NoOffer
    <3>1. offers[o] \in OfferRows
      BY <1>1, <1>2, <2>2 DEF IInv, RowInv, PriceTypeOK, OfferTypeOK
    <3> QED
      BY <1>2, <2>2, <3>1 DEF Written, OfferRows
  <2> QED
    BY <2>1, <2>2
<1> DEFINE row == [price |-> pricing.price, effective |-> stored, observed |-> pricing.at]
<1>4. row \in OfferRows
  BY <1>2, <1>3 DEF OfferRows
<1>5. /\ offers' = [offers EXCEPT ![o] = row]
      /\ announced' = [announced EXCEPT ![o] = Emit(o, old, new, pricing.at)]
      /\ pricing' = NotPricing
      /\ UNCHANGED <<accountTerms, puts>>
  BY DEF CommitPrice
<1>6. Emit(o, old, new, pricing.at) \in Seq(Announcements)
  BY <1>2, EmitEffect DEF IInv, PriceTypeOK, OfferTypeOK
<1>7. row.price = pricing.price /\ row.effective = stored
  OBVIOUS
<1> HIDE DEF row, stored, new, old
<1>8. /\ offers' \in [Offers -> OfferRows \cup {NoOffer}]
      /\ \A q \in Offers : q # o => offers'[q] = offers[q]
      /\ offers'[o] = row
  BY <1>2, <1>4, <1>5 DEF IInv, PriceTypeOK, OfferTypeOK
<1>9. /\ announced' \in [Offers -> Seq(Announcements)]
      /\ \A q \in Offers : q # o => announced'[q] = announced[q]
      /\ announced'[o] = Emit(o, old, new, pricing.at)
  BY <1>2, <1>5, <1>6 DEF IInv, PriceTypeOK, OfferTypeOK
<1> QED
  BY <1>1, <1>2, <1>4, <1>5, <1>7, <1>8, <1>9 DEF stored, new, old

\* What a committed change of terms writes.
LEMMA CommitTermsEffect ==
    ASSUME IInv, NEW r \in Requests, CommitTerms(r)
    PROVE  /\ puts[r].phase = "offers read"
           /\ Open(r)
           /\ accountTerms' = TermsWritten(puts[r])
           /\ accountTerms' \in Terms
           /\ offers' \in [Offers -> OfferRows \cup {NoOffer}]
           /\ announced' \in [Offers -> Seq(Announcements)]
           /\ \A o \in Offers :
                 \/ /\ puts[r].rows[o] = NoOffer
                    /\ offers'[o] = offers[o] /\ announced'[o] = announced[o]
                 \/ LET old == puts[r].rows[o].effective
                        new == EffectivePrice(puts[r].rows[o].price, puts[r].terms)
                    IN  /\ puts[r].rows[o] \in OfferRows /\ offers[o] \in OfferRows
                        /\ offers'[o] \in OfferRows
                        /\ new \in EffectivePrices
                        /\ offers'[o].price = offers[o].price
                        /\ offers'[o].effective = Written(offers[o].effective, old, new)
                        /\ announced'[o] = Emit(o, old, new, puts[r].at)
           /\ puts' \in [Requests -> Puts]
           /\ \A s \in Requests : s # r => puts'[s] = puts[s]
           /\ puts'[r].phase = "done"
           /\ pricing' = pricing
<1>1. puts[r].phase = "offers read" /\ Open(r)
  BY DEF CommitTerms, Open
<1>2. /\ puts[r].terms \in Terms /\ puts[r].loaded \in Terms \cup {NoTerms}
      /\ puts[r].rows \in [Offers -> OfferRows \cup {NoOffer}]
      /\ puts[r].at \in Nat
  BY <1>1, PutFields DEF IInv, PriceTypeOK, OfferTypeOK
<1>3. TermsWritten(puts[r]) \in Terms
  <2>1. CASE puts[r].loaded = NoTerms
    BY <1>2, <2>1 DEF TermsWritten
  <2>2. CASE puts[r].loaded # NoTerms
    <3>1. accountTerms \in Terms
      BY <1>1, <2>2 DEF IInv, RowInv, PriceTypeOK, OfferTypeOK
    <3> QED
      BY <1>2, <2>2, <3>1 DEF TermsWritten, Written, Terms
  <2> QED
    BY <2>1, <2>2
<1>4. /\ accountTerms' = TermsWritten(puts[r])
      /\ pricing' = pricing
      /\ puts' = [puts EXCEPT ![r] = DonePut]
  BY DEF CommitTerms
<1>5. /\ puts' \in [Requests -> Puts]
      /\ \A s \in Requests : s # r => puts'[s] = puts[s]
      /\ puts'[r].phase = "done"
  BY <1>4 DEF IInv, PriceTypeOK, OfferTypeOK, Puts, DonePut
<1>6. ASSUME NEW o \in Offers, puts[r].rows[o] # NoOffer
      PROVE  LET old == puts[r].rows[o].effective
                 new == EffectivePrice(puts[r].rows[o].price, puts[r].terms)
             IN  /\ puts[r].rows[o] \in OfferRows /\ offers[o] \in OfferRows
                 /\ offers'[o] \in OfferRows
                 /\ new \in EffectivePrices
                 /\ offers'[o].price = offers[o].price
                 /\ offers'[o].effective = Written(offers[o].effective, old, new)
                 /\ announced'[o] = Emit(o, old, new, puts[r].at)
                 /\ announced'[o] \in Seq(Announcements)
  <2> DEFINE old == puts[r].rows[o].effective
             new == EffectivePrice(puts[r].rows[o].price, puts[r].terms)
  <2>1. puts[r].rows[o] \in OfferRows /\ offers[o] \in OfferRows
    BY <1>1, <1>2, <1>6 DEF IInv, RowInv, PriceTypeOK, OfferTypeOK
  <2>2. new \in EffectivePrices
    <3>1. puts[r].rows[o].price \in Prices
      BY <2>1 DEF OfferRows
    <3> QED
      BY <1>2, <3>1, EffectiveTyped
  <2>3. offers'[o] = [offers[o] EXCEPT !.effective = Written(@, old, new)]
    BY <1>6 DEF CommitTerms, Repriced
  <2>4. announced'[o] = Emit(o, old, new, puts[r].at)
    BY <1>6 DEF CommitTerms, Repriced
  <2> HIDE DEF old, new
  <2>5. announced'[o] \in Seq(Announcements)
    <3>1. announced[o] \in Seq(Announcements)
      BY DEF IInv, PriceTypeOK, OfferTypeOK
    <3>2. Emit(o, old, new, puts[r].at) \in Seq(Announcements)
      BY <1>2, <2>2, <3>1, EmitEffect
    <3> QED
      BY <2>4, <3>2
  <2>6. Written(offers[o].effective, old, new) \in EffectivePrices
    BY <2>1, <2>2 DEF Written, OfferRows
  <2>7. /\ offers'[o].price = offers[o].price
        /\ offers'[o].effective = Written(offers[o].effective, old, new)
        /\ offers'[o] \in OfferRows
    BY <2>1, <2>3, <2>6 DEF OfferRows
  <2> QED
    BY <2>1, <2>2, <2>4, <2>5, <2>7 DEF old, new
<1>7. ASSUME NEW o \in Offers, puts[r].rows[o] = NoOffer
      PROVE  offers'[o] = offers[o] /\ announced'[o] = announced[o]
  BY <1>7 DEF CommitTerms
<1>8. offers' \in [Offers -> OfferRows \cup {NoOffer}]
  <2>1. offers' = [o \in Offers |-> offers'[o]]
    BY DEF CommitTerms
  <2>2. \A o \in Offers : offers'[o] \in OfferRows \cup {NoOffer}
    BY <1>6, <1>7 DEF IInv, PriceTypeOK, OfferTypeOK
  <2> QED
    BY <2>1, <2>2
<1>9. announced' \in [Offers -> Seq(Announcements)]
  <2>1. announced' = [o \in Offers |-> announced'[o]]
    BY DEF CommitTerms
  <2>2. \A o \in Offers : announced'[o] \in Seq(Announcements)
    BY <1>6, <1>7 DEF IInv, PriceTypeOK, OfferTypeOK
  <2> QED
    BY <2>1, <2>2
<1> QED
  BY <1>1, <1>3, <1>4, <1>5, <1>6, <1>7, <1>8, <1>9

\* A request that fails leaves no trace but that it is done.
LEMMA FailTermsEffect ==
    ASSUME puts \in [Requests -> Puts], NEW r \in Requests, FailTerms(r)
    PROVE  /\ UNCHANGED <<offers, accountTerms, announced, pricing, recorded, clock, delivery>>
           /\ UNCHANGED overlapped
           /\ Open(r)
           /\ puts' \in [Requests -> Puts]
           /\ \A s \in Requests : s # r => puts'[s] = puts[s]
           /\ puts'[r].phase = "done"
<1>1. /\ UNCHANGED <<offers, accountTerms, announced, pricing, recorded, clock, delivery>>
      /\ UNCHANGED overlapped
      /\ puts[r] \notin {NewPut, DonePut}
      /\ puts' = [puts EXCEPT ![r] = DonePut]
  BY DEF FailTerms, AbandonTerms
<1>2. Open(r)
  <2>1. puts[r] \in Puts /\ puts[r] \notin {NewPut, DonePut}
    BY <1>1
  <2>2. puts[r].phase \in {"account read", "flushed", "offers read"}
    BY <2>1 DEF Puts
  <2> QED
    BY <2>2 DEF Open
<1>3. DonePut \in Puts /\ DonePut.phase = "done"
  <2>1. DonePut \in Puts
    BY DEF Puts
  <2>2. DonePut.phase = "done"
    BY DEF DonePut
  <2> QED
    BY <2>1, <2>2
<1>4. /\ puts' \in [Requests -> Puts]
      /\ \A s \in Requests : s # r => puts'[s] = puts[s]
      /\ puts'[r] = DonePut
  BY <1>1, <1>3
<1> QED
  BY <1>1, <1>2, <1>3, <1>4

LEMMA StepIInv ==
    ASSUME IInv, [Next]_flowVars
    PROVE  IInv'
<1> USE DEF IInv
<1>1. ASSUME NEW o \in Offers, Observe(o)
      PROVE  IInv'
  <2>1. PICK p \in Prices :
           observed' = [observed EXCEPT ![o] = Append(@, [price |-> p, at |-> clock])]
    BY <1>1 DEF Observe
  <2>2. /\ UNCHANGED <<offers, accountTerms, announced, pricing, puts>>
        /\ UNCHANGED <<recorded, priceOffset, parked, parksLeft, taken, overlapped>>
        /\ clock' = clock + 1
    BY <1>1 DEF Observe, offerVars, Tick
  <2>3. [price |-> p, at |-> clock] \in Observations
    BY DEF PriceTypeOK, Observations
  <2>4. /\ observed' \in [Offers -> Seq(Observations)]
        /\ \A q \in Offers :
              /\ Len(observed[q]) \in Nat /\ Len(observed'[q]) \in Nat
              /\ Len(observed[q]) <= Len(observed'[q])
              /\ \A i \in 1..Len(observed[q]) : observed'[q][i] = observed[q][i]
    BY <2>1, <2>3 DEF PriceTypeOK
  <2>5. PriceTypeOK'
    BY <2>2, <2>4 DEF PriceTypeOK, OfferTypeOK, recorded, History!HistoryTypeOK
  <2>6. RowInv'
    BY <2>2 DEF RowInv, Open
  <2>7. PositionInv'
    <3>1. \A q \in Offers : priceOffset'[q] <= Len(observed'[q])
      BY <2>2, <2>4 DEF PositionInv, PriceTypeOK
    <3>2. \A e \in parked' : e[2] <= Len(observed'[e[1]])
      BY <2>2, <2>4 DEF PositionInv, PriceTypeOK
    <3>3. ASSUME pricing' # NotPricing
          PROVE  /\ taken' \in Offers \X (Nat \ {0})
                 /\ taken'[1] = pricing'.offer
                 /\ taken'[2] <= Len(observed'[taken'[1]])
                 /\ pricing'.price = observed'[taken'[1]][taken'[2]].price
                 /\ pricing'.at = observed'[taken'[1]][taken'[2]].at
      <4>1. /\ taken' = taken /\ pricing' = pricing
            /\ taken \in Offers \X (Nat \ {0})
            /\ taken[1] = pricing.offer
            /\ taken[2] <= Len(observed[taken[1]])
            /\ pricing.price = observed[taken[1]][taken[2]].price
            /\ pricing.at = observed[taken[1]][taken[2]].at
        BY <2>2, <3>3 DEF PositionInv
      <4>2. taken[1] \in Offers /\ taken[2] \in 1..Len(observed[taken[1]])
        BY <2>4, <4>1
      <4> QED
        BY <2>4, <4>1, <4>2
    <3> QED
      BY <3>1, <3>2, <3>3 DEF PositionInv
  <2> QED
    BY <2>5, <2>6, <2>7
<1>2. ASSUME NEW o \in Offers, NEW i \in Nat \ {0}, i <= Len(observed[o]), Handle(o, i)
      PROVE  IInv'
  <2>a. /\ UNCHANGED <<offers, accountTerms, announced, puts>>
        /\ UNCHANGED <<recorded, clock, observed, priceOffset, parked, parksLeft>>
    BY <1>2, HandleEffect
  <2>b. pricing' \in Pricings /\ taken' = <<o, i>> /\ overlapped' \in BOOLEAN
    BY <1>2, HandleEffect
  <2>c. /\ pricing'.phase = "terms read" /\ pricing'.offer = o
        /\ pricing'.price = observed[o][i].price /\ pricing'.at = observed[o][i].at
    BY <1>2, HandleEffect
  <2>1. PriceTypeOK'
    BY <2>a, <2>b DEF PriceTypeOK, OfferTypeOK, recorded, History!HistoryTypeOK
  <2>2. RowInv'
    BY <2>a, <2>c DEF RowInv, Open
  <2>3. PositionInv'
    BY <1>2, <2>a, <2>b, <2>c DEF PositionInv
  <2> QED
    BY <2>1, <2>2, <2>3
<1>3. CASE ContinuePrice
  <2>1. /\ UNCHANGED <<offers, accountTerms, announced, puts>>
        /\ UNCHANGED <<recorded, clock, delivery, overlapped>>
        /\ pricing.phase = "terms read"
    BY <1>3 DEF ContinuePrice, ReadOffer
  <2>2. pricing # NotPricing
    <3>1. pricing = NotPricing => pricing.phase = "none"
      BY DEF NotPricing
    <3> QED
      BY <2>1, <3>1
  <2>3. /\ pricing.offer \in Offers /\ pricing.price \in Prices /\ pricing.at \in Nat
        /\ pricing.terms \in Terms \cup {DefaultTerms}
    BY <2>1, <2>2, PricingFields DEF PriceTypeOK, OfferTypeOK
  <2>4. /\ EffectivePrice(pricing.price, pricing.terms) \in EffectivePrices
        /\ offers[pricing.offer] \in OfferRows \cup {NoOffer}
    BY <2>3, EffectiveTyped DEF PriceTypeOK, OfferTypeOK
  <2>5. /\ pricing' \in Pricings
        /\ pricing'.phase = "row read"
        /\ pricing'.offer = pricing.offer /\ pricing'.price = pricing.price
        /\ pricing'.at = pricing.at
        /\ pricing'.row = offers[pricing.offer]
    BY <1>3, <2>3, <2>4 DEF ContinuePrice, ReadOffer, Pricings
  <2>6. PriceTypeOK'
    BY <2>1, <2>5 DEF PriceTypeOK, OfferTypeOK, recorded, delivery, History!HistoryTypeOK
  <2>7. RowInv'
    BY <2>1, <2>5 DEF RowInv, Open
  <2>8. PositionInv'
    BY <2>1, <2>2, <2>5 DEF PositionInv, delivery
  <2> QED
    BY <2>6, <2>7, <2>8
<1>4. ASSUME pricing # NotPricing, pricing' = NotPricing,
             /\ priceOffset' = priceOffset \/
                   priceOffset' = [priceOffset EXCEPT ![taken[1]] = IF taken[2] > @ THEN taken[2] ELSE @]
             /\ parked' \in {parked, parked \ {taken}, parked \cup {taken}}
             /\ parksLeft' \in 0..MaxParked
             /\ taken' = NothingTaken
             /\ UNCHANGED <<accountTerms, puts, recorded, clock, observed, overlapped>>,
             offers' \in [Offers -> OfferRows \cup {NoOffer}],
             announced' \in [Offers -> Seq(Announcements)],
             \A o \in Offers : offers[o] # NoOffer => offers'[o] # NoOffer
      PROVE  IInv'
  <2>1. /\ taken \in Offers \X (Nat \ {0})
        /\ taken[1] \in Offers /\ taken[2] \in Nat \ {0}
        /\ taken[2] <= Len(observed[taken[1]])
    BY <1>4 DEF PositionInv
  <2>2. /\ priceOffset' \in [Offers -> Nat]
        /\ \A o \in Offers : priceOffset'[o] <= Len(observed[o])
    BY <1>4, <2>1 DEF PositionInv, PriceTypeOK
  <2>3. /\ parked' \in SUBSET (Offers \X (Nat \ {0}))
        /\ \A e \in parked' : e[2] <= Len(observed[e[1]])
    BY <1>4, <2>1 DEF PositionInv, PriceTypeOK
  <2>4. PriceTypeOK'
    BY <1>4, <2>2, <2>3 DEF PriceTypeOK, OfferTypeOK, recorded, History!HistoryTypeOK
  <2>5. RowInv'
    <3>1. pricing'.phase # "row read"
      BY <1>4 DEF NotPricing
    <3>2. \A r \in Requests :
             /\ Open(r)' = Open(r)
             /\ puts'[r] = puts[r]
      BY <1>4 DEF Open
    <3> QED
      BY <1>4, <3>1, <3>2 DEF RowInv
  <2>6. PositionInv'
    BY <1>4, <2>2, <2>3 DEF PositionInv
  <2> QED
    BY <2>4, <2>5, <2>6
<1>5. CASE FinishPrice
  <2>1. CommitPrice
    BY <1>5 DEF FinishPrice
  <2>2. /\ pricing # NotPricing /\ pricing' = NotPricing
        /\ offers' \in [Offers -> OfferRows \cup {NoOffer}]
        /\ announced' \in [Offers -> Seq(Announcements)]
        /\ UNCHANGED <<accountTerms, puts>>
    BY <2>1, CommitPriceEffect
  <2>3. \A o \in Offers : offers[o] # NoOffer => offers'[o] # NoOffer
    BY <2>1, CommitPriceEffect, PriceFlowAssumption
  <2>4. /\ priceOffset' = [priceOffset EXCEPT ![taken[1]] = IF taken[2] > @ THEN taken[2] ELSE @]
        /\ parked' = parked \ {taken}
        /\ taken' = NothingTaken
        /\ UNCHANGED <<recorded, clock, observed, parksLeft, overlapped>>
    BY <1>5 DEF FinishPrice
  <2>5. parksLeft' \in 0..MaxParked
    BY <2>4 DEF PriceTypeOK
  <2> QED
    BY <1>4, <2>2, <2>3, <2>4, <2>5
<1>6. CASE FailPrice \/ ParkPrice
  <2>1. /\ pricing # NotPricing /\ pricing' = NotPricing
        /\ UNCHANGED <<offers, accountTerms, announced, puts>>
        /\ UNCHANGED <<recorded, clock, observed, overlapped>>
        /\ taken' = NothingTaken
    BY <1>6 DEF FailPrice, ParkPrice, AbandonPrice
  <2>2. /\ priceOffset' = priceOffset \/
              priceOffset' = [priceOffset EXCEPT ![taken[1]] = IF taken[2] > @ THEN taken[2] ELSE @]
        /\ parked' \in {parked, parked \ {taken}, parked \cup {taken}}
    BY <1>6 DEF FailPrice, ParkPrice
  <2>3. parksLeft' \in 0..MaxParked
    BY <1>6, PriceFlowAssumption DEF FailPrice, ParkPrice, PriceTypeOK
  <2>4. /\ offers' \in [Offers -> OfferRows \cup {NoOffer}]
        /\ announced' \in [Offers -> Seq(Announcements)]
        /\ \A o \in Offers : offers[o] # NoOffer => offers'[o] # NoOffer
    BY <2>1 DEF PriceTypeOK, OfferTypeOK
  <2> QED
    BY <1>4, <2>1, <2>2, <2>3, <2>4
<1>7. ASSUME NEW r \in Requests, puts' \in [Requests -> Puts],
             \A s \in Requests : s # r => puts'[s] = puts[s],
             puts'[r].phase \in {"account read", "flushed", "done"},
             Open(r)' /\ puts'[r].loaded # NoTerms => accountTerms # NoTerms,
             overlapped' \in BOOLEAN,
             UNCHANGED <<offers, accountTerms, announced, pricing, recorded, clock, delivery>>
      PROVE  IInv'
  <2>1. PriceTypeOK'
    BY <1>7 DEF PriceTypeOK, OfferTypeOK, recorded, delivery, History!HistoryTypeOK
  <2>2. RowInv'
    <3>1. ASSUME NEW s \in Requests
          PROVE  /\ Open(s)' /\ puts'[s].loaded # NoTerms => accountTerms' # NoTerms
                 /\ puts'[s].phase = "offers read" =>
                       \A o \in Offers : puts'[s].rows[o] # NoOffer => offers'[o] # NoOffer
      <4>1. CASE s = r
        BY <1>7, <4>1
      <4>2. CASE s # r
        BY <1>7, <4>2 DEF RowInv, Open
      <4> QED
        BY <4>1, <4>2
    <3>2. pricing'.phase = "row read" /\ pricing'.row # NoOffer => offers'[pricing'.offer] # NoOffer
      BY <1>7 DEF RowInv
    <3> QED
      BY <3>1, <3>2 DEF RowInv
  <2>3. PositionInv'
    BY <1>7 DEF PositionInv, delivery
  <2> QED
    BY <2>1, <2>2, <2>3
<1>8. ASSUME NEW r \in Requests, BeginTerms(r)
      PROVE  IInv'
  <2>1. PICK t \in Terms :
           puts' = [puts EXCEPT ![r] =
                       [phase |-> "account read", terms |-> t, loaded |-> accountTerms]]
    BY <1>8 DEF BeginTerms, ReadAccount
  <2>2. [phase |-> "account read", terms |-> t, loaded |-> accountTerms] \in Puts
    BY DEF PriceTypeOK, OfferTypeOK, Puts
  <2>3. /\ puts' \in [Requests -> Puts]
        /\ \A s \in Requests : s # r => puts'[s] = puts[s]
        /\ puts'[r].phase = "account read" /\ puts'[r].loaded = accountTerms
    BY <2>1, <2>2 DEF PriceTypeOK, OfferTypeOK
  <2>4. overlapped' \in BOOLEAN
    BY <1>8 DEF BeginTerms, Meets
  <2>5. UNCHANGED <<offers, accountTerms, announced, pricing, recorded, clock, delivery>>
    BY <1>8 DEF BeginTerms, ReadAccount
  <2> QED
    BY <1>7, <2>3, <2>4, <2>5
<1>9. ASSUME NEW r \in Requests, WriteTerms(r)
      PROVE  IInv'
  <2>1. /\ UNCHANGED <<offers, accountTerms, announced, pricing, recorded, clock, delivery>>
        /\ UNCHANGED overlapped
        /\ puts[r].phase = "account read"
    BY <1>9 DEF WriteTerms, FlushTerms
  <2>2. Open(r) /\ puts[r].terms \in Terms /\ puts[r].loaded \in Terms \cup {NoTerms}
    BY <2>1, PutFields DEF PriceTypeOK, OfferTypeOK, Open
  <2>3. PICK put \in {DonePut, [phase |-> "flushed", terms |-> puts[r].terms, loaded |-> puts[r].loaded]} :
           puts' = [puts EXCEPT ![r] = put]
    BY <1>9 DEF WriteTerms, FlushTerms
  <2>4. put \in Puts
    <3>1. CASE put = DonePut
      BY <3>1 DEF Puts
    <3>2. CASE put = [phase |-> "flushed", terms |-> puts[r].terms, loaded |-> puts[r].loaded]
      BY <2>2, <3>2 DEF Puts
    <3> QED
      BY <3>1, <3>2
  <2>5. put.phase \in {"flushed", "done"}
    BY DEF DonePut
  <2>6. put.phase = "flushed" => put.loaded = puts[r].loaded
    BY DEF DonePut
  <2>7. /\ puts' \in [Requests -> Puts]
        /\ \A s \in Requests : s # r => puts'[s] = puts[s]
        /\ puts'[r] = put
    BY <2>3, <2>4 DEF PriceTypeOK, OfferTypeOK
  <2>8. Open(r)' /\ puts'[r].loaded # NoTerms => accountTerms # NoTerms
    <3>1. Open(r)' => put.phase = "flushed"
      BY <2>5, <2>7 DEF Open
    <3> QED
      BY <2>2, <2>6, <2>7, <3>1 DEF RowInv
  <2>9. overlapped' \in BOOLEAN
    BY <2>1 DEF PriceTypeOK
  <2> QED
    BY <1>7, <2>1, <2>5, <2>7, <2>8, <2>9
<1>10. ASSUME NEW r \in Requests, LoadOffers(r)
       PROVE  IInv'
  <2>1. /\ UNCHANGED <<offers, accountTerms, announced, pricing, recorded, delivery, overlapped>>
        /\ clock' = clock + 1
        /\ puts[r].phase = "flushed"
    BY <1>10 DEF LoadOffers, ReadOffers, Tick
  <2>t. clock' \in Nat
    BY <2>1 DEF PriceTypeOK
  <2>2. Open(r) /\ puts[r].terms \in Terms /\ puts[r].loaded \in Terms \cup {NoTerms}
    BY <2>1, PutFields DEF PriceTypeOK, OfferTypeOK, Open
  <2>3. PICK put \in {[phase |-> "offers read", terms |-> puts[r].terms,
                       loaded |-> puts[r].loaded, rows |-> offers, at |-> clock]} :
           puts' = [puts EXCEPT ![r] = put]
    BY <1>10 DEF LoadOffers, ReadOffers
  <2>4. put \in Puts
    <3>1. put = [phase |-> "offers read", terms |-> puts[r].terms,
                 loaded |-> puts[r].loaded, rows |-> offers, at |-> clock]
      OBVIOUS
    <3>2. offers \in [Offers -> OfferRows \cup {NoOffer}] /\ clock \in Nat
      BY DEF PriceTypeOK, OfferTypeOK
    <3>3. put \in [phase : {"offers read"}, terms : Terms, loaded : Terms \cup {NoTerms},
                   rows : [Offers -> OfferRows \cup {NoOffer}], at : Nat]
      BY <2>2, <3>1, <3>2
    <3> QED
      BY <3>3 DEF Puts
  <2>5. put.loaded = puts[r].loaded /\ put.rows = offers
    <3>1. put = [phase |-> "offers read", terms |-> puts[r].terms,
                 loaded |-> puts[r].loaded, rows |-> offers, at |-> clock]
      OBVIOUS
    <3> QED
      BY <3>1
  <2>6. /\ puts' \in [Requests -> Puts]
        /\ \A s \in Requests : s # r => puts'[s] = puts[s]
        /\ puts'[r] = put
    BY <2>3, <2>4 DEF PriceTypeOK, OfferTypeOK
  <2>7. PriceTypeOK'
    <3>1. OfferTypeOK'
      BY <2>1, <2>6 DEF PriceTypeOK, OfferTypeOK
    <3> QED
      BY <2>1, <2>t, <3>1 DEF PriceTypeOK, recorded, delivery, History!HistoryTypeOK
  <2>8. RowInv'
    <3>1. ASSUME NEW s \in Requests
          PROVE  /\ Open(s)' /\ puts'[s].loaded # NoTerms => accountTerms' # NoTerms
                 /\ puts'[s].phase = "offers read" =>
                       \A o \in Offers : puts'[s].rows[o] # NoOffer => offers'[o] # NoOffer
      <4>1. CASE s = r
        BY <2>1, <2>2, <2>5, <2>6, <4>1 DEF RowInv
      <4>2. CASE s # r
        BY <2>1, <2>6, <4>2 DEF RowInv, Open
      <4> QED
        BY <4>1, <4>2
    <3>2. pricing'.phase = "row read" /\ pricing'.row # NoOffer => offers'[pricing'.offer] # NoOffer
      BY <2>1 DEF RowInv
    <3> QED
      BY <3>1, <3>2 DEF RowInv
  <2>9. PositionInv'
    BY <2>1 DEF PositionInv, delivery
  <2> QED
    BY <2>7, <2>8, <2>9
<1>11. ASSUME NEW r \in Requests, Reprice(r)
       PROVE  IInv'
  <2>1. CommitTerms(r) /\ UNCHANGED <<recorded, clock, delivery, overlapped>>
    BY <1>11 DEF Reprice
  <2>2. /\ accountTerms' \in Terms
        /\ offers' \in [Offers -> OfferRows \cup {NoOffer}]
        /\ announced' \in [Offers -> Seq(Announcements)]
        /\ puts' \in [Requests -> Puts]
        /\ \A s \in Requests : s # r => puts'[s] = puts[s]
        /\ puts'[r].phase = "done"
        /\ pricing' = pricing
    BY <2>1, CommitTermsEffect
  <2>3. \A o \in Offers : offers[o] # NoOffer => offers'[o] # NoOffer
    BY <2>1, CommitTermsEffect, PriceFlowAssumption
  <2>4. PriceTypeOK'
    BY <2>1, <2>2 DEF PriceTypeOK, OfferTypeOK, recorded, delivery, History!HistoryTypeOK
  <2>5. RowInv'
    <3>1. ASSUME NEW s \in Requests
          PROVE  /\ Open(s)' /\ puts'[s].loaded # NoTerms => accountTerms' # NoTerms
                 /\ puts'[s].phase = "offers read" =>
                       \A o \in Offers : puts'[s].rows[o] # NoOffer => offers'[o] # NoOffer
      <4>1. CASE s = r
        BY <2>2, <4>1, PriceFlowAssumption
      <4>2. CASE s # r
        BY <2>2, <2>3, <4>2, PriceFlowAssumption DEF RowInv
      <4> QED
        BY <4>1, <4>2
    <3>2. ASSUME pricing'.phase = "row read", pricing'.row # NoOffer
          PROVE  offers'[pricing'.offer] # NoOffer
      <4>1. pricing # NotPricing
        <5>1. pricing = NotPricing => pricing.phase = "none"
          BY DEF NotPricing
        <5> QED
          BY <2>2, <3>2, <5>1
      <4>2. pricing.offer \in Offers
        BY <4>1, PricingFields DEF PriceTypeOK, OfferTypeOK
      <4> QED
        BY <2>2, <2>3, <3>2, <4>2 DEF RowInv
    <3> QED
      BY <3>1, <3>2 DEF RowInv
  <2>6. PositionInv'
    BY <2>1, <2>2 DEF PositionInv, delivery
  <2> QED
    BY <2>4, <2>5, <2>6
<1>12. ASSUME NEW o \in Offers, NEW i \in DOMAIN observed[o], RecordPrice(o, i)
       PROVE  IInv'
  <2>1. UNCHANGED <<offerVars, clock, delivery, effectivePoints, effectivesRecorded, overlapped>>
    BY <1>12 DEF RecordPrice, History!AppendPricePoint
  <2>2. i \in Nat \ {0} /\ observed[o][i] \in Observations
    BY DEF PriceTypeOK
  <2>3. pricesRecorded' \in [Offers -> SUBSET (Nat \ {0})]
    BY <1>12, <2>2 DEF RecordPrice, PriceTypeOK
  <2>4. pricePoints' \in [Offers -> SUBSET [ts : Nat, price : Prices]]
    BY <1>12, <2>2
    DEF RecordPrice, History!AppendPricePoint, History!WithPoint, PriceTypeOK,
        History!HistoryTypeOK, Observations
  <2>5. PriceTypeOK'
    BY <2>1, <2>3, <2>4 DEF PriceTypeOK, OfferTypeOK, offerVars, delivery, History!HistoryTypeOK
  <2> QED
    BY <2>1, <2>5 DEF RowInv, PositionInv, offerVars, delivery, Open
<1>13. ASSUME NEW o \in Offers, NEW i \in DOMAIN announced[o], RecordEffective(o, i)
       PROVE  IInv'
  <2>1. UNCHANGED <<offerVars, clock, delivery, pricePoints, pricesRecorded, overlapped>>
    BY <1>13 DEF RecordEffective, History!AppendEffectivePoint
  <2>2. i \in Nat \ {0} /\ announced[o][i] \in Announcements
    BY DEF PriceTypeOK, OfferTypeOK
  <2>3. effectivesRecorded' \in [Offers -> SUBSET (Nat \ {0})]
    BY <1>13, <2>2 DEF RecordEffective, PriceTypeOK
  <2>4. effectivePoints' \in [Offers -> SUBSET [ts : Nat, effective : EffectivePrices]]
    BY <1>13, <2>2
    DEF RecordEffective, History!AppendEffectivePoint, History!WithPoint, PriceTypeOK,
        History!HistoryTypeOK, Announcements
  <2>5. PriceTypeOK'
    BY <2>1, <2>3, <2>4 DEF PriceTypeOK, OfferTypeOK, offerVars, delivery, History!HistoryTypeOK
  <2> QED
    BY <2>1, <2>5 DEF RowInv, PositionInv, offerVars, delivery, Open
<1>14. ASSUME NEW o \in Offers, TakePrice(o)
       PROVE  IInv'
  BY <1>2, <1>14, TakeIsHandle
<1>15. CASE ReplayPrice
  BY <1>2, <1>15, ReplayIsHandle DEF ReplayPrice
<1>17. ASSUME NEW r \in Requests, FailTerms(r)
       PROVE  IInv'
  <2>1. puts \in [Requests -> Puts] /\ overlapped \in BOOLEAN
    BY DEF PriceTypeOK, OfferTypeOK
  <2>2. /\ UNCHANGED <<offers, accountTerms, announced, pricing, recorded, clock, delivery>>
        /\ overlapped' \in BOOLEAN
        /\ puts' \in [Requests -> Puts]
        /\ \A s \in Requests : s # r => puts'[s] = puts[s]
        /\ puts'[r].phase = "done"
    BY <1>17, <2>1, FailTermsEffect
  <2>3. ~Open(r)'
    BY <2>2 DEF Open
  <2> QED
    BY <1>7, <2>2, <2>3
<1>16. CASE UNCHANGED flowVars
  BY <1>16
  DEF flowVars, offerVars, recorded, delivery, PriceTypeOK, OfferTypeOK,
      History!HistoryTypeOK, RowInv, PositionInv, Open
<1> QED
  BY <1>1, <1>3, <1>5, <1>6, <1>8, <1>9, <1>10, <1>11, <1>12, <1>13, <1>14, <1>15, <1>16,
     <1>17
  DEF Next

LEMMA InvariantHolds == Spec => []IInv
<1>1. Init => IInv
  BY InitIInv
<1>2. IInv /\ [Next]_flowVars => IInv'
  BY StepIInv
<1> QED
  BY <1>1, <1>2, PTL DEF Spec

\* The tables of the offer service and of the price history are well typed; an
\* announced price is a price, and a parked event is one of the topic.
THEOREM TypeCorrect == Spec => []PriceTypeOK
BY InvariantHolds, PTL DEF IInv

-----------------------------------------------------------------------------
(* Announcements.                                                           *)

\* The last event of an appended sequence is the appended one.
LEMMA LastAppended ==
    ASSUME NEW S, NEW s \in Seq(S), NEW e \in S
    PROVE  /\ Append(s, e) # <<>>
           /\ Append(s, e)[Len(Append(s, e))] = e
OBVIOUS

\* An offer's row and its last announcement agree.
Agrees(o) ==
    offers[o] # NoOffer /\ offers[o].effective # NoPrice =>
        announced[o] # <<>> /\ announced[o][Len(announced[o])].effective = offers[o].effective

LEMMA EmitAgrees ==
    ASSUME NEW o \in Offers, announced[o] \in Seq(Announcements),
           NEW old, NEW new \in EffectivePrices, NEW at \in Nat,
           announced'[o] = Emit(o, old, new, at), offers'[o] # NoOffer,
           \/ offers'[o].effective = new /\ new # old
           \/ offers'[o].effective = new /\ new = NoPrice
           \/ new = old /\ Agrees(o) /\ offers[o] # NoOffer
                /\ offers'[o].effective = offers[o].effective
    PROVE  Agrees(o)'
<1>1. CASE new = NoPrice \/ new = old
  <2>1. announced'[o] = announced[o]
    BY <1>1 DEF Emit
  <2>2. CASE offers'[o].effective = NoPrice
    BY <2>2 DEF Agrees
  <2>3. CASE offers'[o].effective # NoPrice
    <3>1. Agrees(o) /\ offers[o] # NoOffer /\ offers'[o].effective = offers[o].effective
      BY <1>1, <2>3
    <3> QED
      BY <2>1, <2>3, <3>1 DEF Agrees
  <2> QED
    BY <2>2, <2>3
<1>2. CASE new # NoPrice /\ new # old
  <2> DEFINE e == [effective |-> new, at |-> at]
  <2>1. announced'[o] = Append(announced[o], e)
    <3>1. Emit(o, old, new, at) = Append(announced[o], [effective |-> new, at |-> at])
      BY <1>2 DEF Emit
    <3> QED
      BY <3>1
  <2>2. e \in Announcements /\ e.effective = new
    BY <1>2 DEF Announcements
  <2>3. announced'[o] # <<>> /\ announced'[o][Len(announced'[o])] = e
    BY <2>1, <2>2, LastAppended
  <2> QED
    BY <1>2, <2>2, <2>3 DEF Agrees
<1> QED
  BY <1>1, <1>2

LEMMA StepAnnounced ==
    ASSUME IInv, AnnouncedIsStored, [Next]_flowVars
    PROVE  AnnouncedIsStored'
<1>1. \A o \in Offers : announced[o] \in Seq(Announcements)
  BY DEF IInv, PriceTypeOK, OfferTypeOK
<1>2. CASE UNCHANGED <<offers, announced>>
  BY <1>2 DEF AnnouncedIsStored
<1>3. CASE FinishPrice
  <2>1. CommitPrice /\ pricing.phase = "row read" /\ pricing # NotPricing
    BY <1>3, CommitPriceEffect DEF FinishPrice
  <2>2. pricing.offer \in Offers /\ pricing.at \in Nat /\ pricing.effective \in EffectivePrices
    BY <2>1, PricingFields DEF IInv, PriceTypeOK, OfferTypeOK
  <2>3. PICK o \in Offers : o = pricing.offer
    BY <2>2
  <2>4. PICK new \in EffectivePrices : new = pricing.effective
    BY <2>2
  <2>5. PICK old : old = OldEffective(pricing.row)
    OBVIOUS
  <2>6. PICK at \in Nat : at = pricing.at
    BY <2>2
  <2>7. /\ \A q \in Offers : q # o => offers'[q] = offers[q] /\ announced'[q] = announced[q]
        /\ offers'[o] \in OfferRows
        /\ announced'[o] = Emit(o, old, new, at)
    BY <2>1, <2>3, <2>4, <2>5, <2>6, CommitPriceEffect
  <2>8. offers'[o].effective = IF pricing.row = NoOffer THEN new
                               ELSE Written(offers[o].effective, old, new)
    BY <2>1, <2>3, <2>4, <2>5, CommitPriceEffect
  <2>9. offers'[o] # NoOffer
    BY <2>7, PriceFlowAssumption
  <2>10. Agrees(o)
    BY DEF AnnouncedIsStored, Agrees
  <2>11. \/ offers'[o].effective = new /\ new # old
         \/ offers'[o].effective = new /\ new = NoPrice
         \/ new = old /\ Agrees(o) /\ offers[o] # NoOffer
              /\ offers'[o].effective = offers[o].effective
    <3>1. CASE pricing.row = NoOffer
      <4>1. old = NoPrice
        BY <2>5, <3>1 DEF OldEffective
      <4> QED
        BY <2>8, <3>1, <4>1
    <3>2. CASE pricing.row # NoOffer
      <4>1. offers[o] # NoOffer
        BY <2>1, <2>3, <3>2 DEF IInv, RowInv
      <4> QED
        BY <2>8, <2>10, <3>2, <4>1 DEF Written
    <3> QED
      BY <3>1, <3>2
  <2>12. Agrees(o)'
    BY <1>1, <2>7, <2>9, <2>11, EmitAgrees
  <2> QED
    BY <2>7, <2>12 DEF AnnouncedIsStored, Agrees
<1>4. ASSUME NEW r \in Requests, Reprice(r)
      PROVE  AnnouncedIsStored'
  <2>1. CommitTerms(r)
    BY <1>4 DEF Reprice
  <2>2. puts[r].at \in Nat
    BY <2>1, CommitTermsEffect, PutFields DEF IInv, PriceTypeOK, OfferTypeOK
  <2>3. ASSUME NEW o \in Offers
        PROVE  Agrees(o)'
    <3>1. Agrees(o)
      BY DEF AnnouncedIsStored, Agrees
    <3>2. CASE offers'[o] = offers[o] /\ announced'[o] = announced[o]
      BY <3>1, <3>2 DEF Agrees
    <3>3. CASE ~(offers'[o] = offers[o] /\ announced'[o] = announced[o])
      <4> DEFINE old == puts[r].rows[o].effective
                 new == EffectivePrice(puts[r].rows[o].price, puts[r].terms)
      <4>1. /\ offers[o] \in OfferRows /\ offers'[o] \in OfferRows
            /\ new \in EffectivePrices
            /\ offers'[o].effective = Written(offers[o].effective, old, new)
            /\ announced'[o] = Emit(o, old, new, puts[r].at)
        BY <2>1, <3>3, CommitTermsEffect
      <4>2. offers[o] # NoOffer /\ offers'[o] # NoOffer
        BY <4>1, PriceFlowAssumption
      <4> HIDE DEF old, new
      <4> QED
        BY <1>1, <2>2, <3>1, <4>1, <4>2, EmitAgrees DEF Written
    <3> QED
      BY <3>2, <3>3
  <2> QED
    BY <2>3 DEF AnnouncedIsStored, Agrees
<1> QED
  BY <1>2, <1>3, <1>4
  DEF Next, flowVars, offerVars, Observe, TakePrice, Handle, ReadTerms, RecordPrice,
      RecordEffective, BeginTerms, ReadAccount, WriteTerms, FlushTerms, LoadOffers, ReadOffers,
      FailTerms, AbandonTerms,
      ReplayPrice, ContinuePrice, ReadOffer, FailPrice, ParkPrice, AbandonPrice

\* However prices and terms meet, an offer that has an effective price was last
\* announced with it: consumers of offer.effective-price.changed are never left behind.
THEOREM AnnouncedStored == Spec => []AnnouncedIsStored
<1>1. Init => AnnouncedIsStored
  BY DEF Init, OfferInit, AnnouncedIsStored
<1>2. IInv /\ AnnouncedIsStored /\ [Next]_flowVars => AnnouncedIsStored'
  BY StepAnnounced
<1> QED
  BY <1>1, <1>2, InvariantHolds, PTL DEF Spec

-----------------------------------------------------------------------------
(* Turns.                                                                   *)

\* What a put that nothing has interfered with writes is what it was asked for.
LEMMA TermsWrittenWhole ==
    ASSUME NEW put, put.terms \in Terms, put.loaded \in Terms \cup {NoTerms},
           put.loaded = accountTerms
    PROVE  TermsWritten(put) = put.terms
<1>1. CASE put.loaded = NoTerms
  BY <1>1 DEF TermsWritten
<1>2. CASE put.loaded # NoTerms
  <2>1. /\ Written(accountTerms.discount, put.loaded.discount, put.terms.discount)
              = put.terms.discount
        /\ Written(accountTerms.markup, put.loaded.markup, put.terms.markup) = put.terms.markup
        /\ Written(accountTerms.fx, put.loaded.fx, put.terms.fx) = put.terms.fx
    BY DEF Written
  <2>2. put.terms = [discount |-> put.terms.discount, markup |-> put.terms.markup,
                     fx |-> put.terms.fx]
    BY DEF Terms
  <2> QED
    BY <1>2, <2>1, <2>2 DEF TermsWritten
<1> QED
  BY <1>1, <1>2

LEMMA StepSerial ==
    ASSUME IInv, SerialInv, [Next]_flowVars
    PROVE  SerialInv'
<1> SUFFICES ASSUME ~overlapped' PROVE SerialInv'
  BY DEF SerialInv
<1>a. ~overlapped
  BY DEF Next, flowVars, Observe, TakePrice, Handle, RecordPrice, RecordEffective, Meets,
         BeginTerms, WriteTerms, FailTerms, LoadOffers, Reprice, ReplayPrice, ContinuePrice, FinishPrice,
         FailPrice, ParkPrice
<1>b. /\ \A o \in Offers : IsCurrent(o)
      /\ pricing # NotPricing => \A r \in Requests : ~Open(r)
      /\ \A r, s \in Requests : Open(r) /\ Open(s) => r = s
      /\ pricing.phase = "terms read" => pricing.terms = TermsOf(accountTerms)
      /\ pricing.phase = "row read" =>
            /\ pricing.row = offers[pricing.offer]
            /\ pricing.effective = EffectivePrice(pricing.price, TermsOf(accountTerms))
      /\ \A r \in Requests :
            /\ Open(r) => puts[r].loaded = accountTerms
            /\ puts[r].phase = "offers read" => puts[r].rows = offers
  BY <1>a DEF SerialInv
<1>c. NotPricing.phase = "none"
  BY DEF NotPricing
<1>1. CASE UNCHANGED <<offers, accountTerms, pricing, puts>>
  BY <1>1, <1>b DEF SerialInv, IsCurrent, Open
<1>2. ASSUME NEW o \in Offers, NEW i \in Nat \ {0}, i <= Len(observed[o]), Handle(o, i)
      PROVE  SerialInv'
  <2>1. /\ UNCHANGED <<offers, accountTerms, puts>>
        /\ pricing'.phase = "terms read"
        /\ pricing'.terms = TermsOf(accountTerms)
    BY <1>2, HandleEffect
  <2>2. \A r \in Requests : ~Open(r)
    BY <1>2 DEF Handle, Meets
  <2> QED
    BY <1>b, <2>1, <2>2 DEF SerialInv, IsCurrent, Open
<1>3. CASE ContinuePrice
  <2>1. /\ UNCHANGED <<offers, accountTerms, puts>>
        /\ pricing.phase = "terms read"
        /\ pricing' = [phase |-> "row read", offer |-> pricing.offer, price |-> pricing.price,
                       at |-> pricing.at, row |-> offers[pricing.offer],
                       effective |-> EffectivePrice(pricing.price, pricing.terms)]
    BY <1>3 DEF ContinuePrice, ReadOffer
  <2>2. /\ pricing'.phase = "row read"
        /\ pricing'.offer = pricing.offer /\ pricing'.price = pricing.price
        /\ pricing'.row = offers[pricing.offer]
        /\ pricing'.effective = EffectivePrice(pricing.price, pricing.terms)
    BY <2>1
  <2>3. \A r \in Requests : ~Open(r)
    BY <1>b, <1>c, <2>1
  <2> QED
    BY <1>b, <2>1, <2>2, <2>3 DEF SerialInv, IsCurrent, Open
<1>4. CASE FailPrice \/ ParkPrice
  <2>1. UNCHANGED <<offers, accountTerms, puts>> /\ pricing' = NotPricing
    BY <1>4 DEF FailPrice, ParkPrice, AbandonPrice
  <2> QED
    BY <1>b, <1>c, <2>1 DEF SerialInv, IsCurrent, Open
<1>5. CASE FinishPrice
  <2>1. CommitPrice
    BY <1>5 DEF FinishPrice
  <2>2. /\ pricing.phase = "row read" /\ pricing # NotPricing /\ pricing' = NotPricing
        /\ UNCHANGED <<accountTerms, puts>>
    BY <2>1, CommitPriceEffect
  <2>3. PICK o \in Offers : o = pricing.offer
    BY <2>1, CommitPriceEffect
  <2>4. /\ \A q \in Offers : q # o => offers'[q] = offers[q]
        /\ offers'[o] \in OfferRows
        /\ offers'[o].price = pricing.price
        /\ offers'[o].effective =
              IF pricing.row = NoOffer THEN pricing.effective
              ELSE Written(offers[o].effective, OldEffective(pricing.row), pricing.effective)
    BY <2>1, <2>3, CommitPriceEffect
  <2>5. offers'[o].effective = pricing.effective
    <3>1. pricing.row = offers[o]
      BY <1>b, <2>2, <2>3
    <3> QED
      BY <2>4, <3>1 DEF Written, OldEffective
  <2>6. pricing.effective = EffectivePrice(pricing.price, TermsOf(accountTerms))
    BY <1>b, <2>2
  <2>7. \A q \in Offers : IsCurrent(q)'
    BY <1>b, <2>2, <2>4, <2>5, <2>6 DEF IsCurrent
  <2> QED
    BY <1>b, <1>c, <2>2, <2>7 DEF SerialInv, Open
<1>6. ASSUME NEW r \in Requests, BeginTerms(r)
      PROVE  SerialInv'
  <2>1. PICK t \in Terms :
           puts' = [puts EXCEPT ![r] =
                       [phase |-> "account read", terms |-> t, loaded |-> accountTerms]]
    BY <1>6 DEF BeginTerms, ReadAccount
  <2>2. /\ UNCHANGED <<offers, accountTerms, pricing>>
        /\ pricing = NotPricing
        /\ \A s \in Requests \ {r} : ~Open(s)
    BY <1>6 DEF BeginTerms, ReadAccount, Meets
  <2>3. /\ puts'[r].phase = "account read" /\ puts'[r].loaded = accountTerms
        /\ \A s \in Requests : s # r => puts'[s] = puts[s]
    BY <2>1 DEF IInv, PriceTypeOK, OfferTypeOK
  <2>4. \A s \in Requests : s # r => ~Open(s)'
    BY <2>2, <2>3 DEF Open
  <2> QED
    BY <1>b, <1>c, <2>2, <2>3, <2>4 DEF SerialInv, IsCurrent
<1>7. ASSUME NEW r \in Requests, WriteTerms(r)
      PROVE  SerialInv'
  <2>1. /\ UNCHANGED <<offers, accountTerms, pricing>>
        /\ puts[r].phase = "account read"
    BY <1>7 DEF WriteTerms, FlushTerms
  <2>2. \A s \in Requests : s # r => puts'[s] = puts[s]
    BY <1>7 DEF WriteTerms, FlushTerms, IInv, PriceTypeOK, OfferTypeOK
  <2>3. \/ puts'[r] = DonePut
        \/ puts'[r] = [phase |-> "flushed", terms |-> puts[r].terms, loaded |-> puts[r].loaded]
    BY <1>7 DEF WriteTerms, FlushTerms, IInv, PriceTypeOK, OfferTypeOK
  <2>4. \/ puts'[r].phase = "done"
        \/ puts'[r].phase = "flushed" /\ puts'[r].loaded = puts[r].loaded
    <3>1. DonePut.phase = "done"
      BY DEF DonePut
    <3> QED
      BY <2>3, <3>1
  <2>5. Open(r)
    BY <2>1 DEF Open
  <2>6. \A s \in Requests : s # r => ~Open(s)'
    BY <1>b, <2>2, <2>5 DEF Open
  <2>7. \A s \in Requests :
           /\ Open(s)' => s = r /\ puts'[s].loaded = accountTerms
           /\ puts'[s].phase # "offers read"
    <3>1. Open(r)' => puts'[r].phase = "flushed"
      BY <2>4 DEF Open
    <3>2. puts[r].loaded = accountTerms
      BY <1>b, <2>5
    <3>3. puts'[r].phase # "offers read"
      BY <2>4
    <3>4. Open(r)' => puts'[r].loaded = accountTerms
      BY <2>4, <3>1, <3>2
    <3>5. \A s \in Requests : s # r => puts'[s].phase # "offers read"
      BY <2>6 DEF Open
    <3> QED
      BY <2>6, <3>3, <3>4, <3>5
  <2>8. pricing = NotPricing
    BY <1>b, <2>5
  <2> QED
    BY <1>b, <1>c, <2>1, <2>7, <2>8 DEF SerialInv, IsCurrent
<1>8. ASSUME NEW r \in Requests, LoadOffers(r)
      PROVE  SerialInv'
  <2>1. /\ UNCHANGED <<offers, accountTerms, pricing>>
        /\ puts[r].phase = "flushed"
        /\ puts' = [puts EXCEPT ![r] =
                      [phase |-> "offers read", terms |-> puts[r].terms,
                       loaded |-> puts[r].loaded, rows |-> offers, at |-> clock]]
    BY <1>8 DEF LoadOffers, ReadOffers
  <2>2. /\ \A s \in Requests : s # r => puts'[s] = puts[s]
        /\ puts'[r] = [phase |-> "offers read", terms |-> puts[r].terms,
                       loaded |-> puts[r].loaded, rows |-> offers, at |-> clock]
    BY <2>1 DEF IInv, PriceTypeOK, OfferTypeOK
  <2>3. puts'[r].loaded = puts[r].loaded /\ puts'[r].rows = offers
    <3>1. PICK put : /\ put = [phase |-> "offers read", terms |-> puts[r].terms,
                              loaded |-> puts[r].loaded, rows |-> offers, at |-> clock]
                     /\ puts'[r] = put
      BY <2>2
    <3>2. put = [phase |-> "offers read", terms |-> puts[r].terms,
                 loaded |-> puts[r].loaded, rows |-> offers, at |-> clock]
      BY <3>1
    <3>3. put.loaded = puts[r].loaded
      BY <3>2
    <3>4. put.rows = offers
      BY <3>2
    <3> QED
      BY <3>1, <3>3, <3>4
  <2>4. Open(r)
    BY <2>1 DEF Open
  <2>5. \A s \in Requests : s # r => ~Open(s)'
    BY <1>b, <2>2, <2>4 DEF Open
  <2>6. \A s \in Requests : s # r => puts'[s].phase # "offers read"
    BY <2>5 DEF Open
  <2> QED
    BY <1>b, <1>c, <2>1, <2>2, <2>3, <2>4, <2>5, <2>6 DEF SerialInv, IsCurrent
<1>9. ASSUME NEW r \in Requests, Reprice(r)
      PROVE  SerialInv'
  <2>1. CommitTerms(r)
    BY <1>9 DEF Reprice
  <2>2. /\ puts[r].phase = "offers read" /\ Open(r)
        /\ accountTerms' = TermsWritten(puts[r])
        /\ \A s \in Requests : s # r => puts'[s] = puts[s]
        /\ puts'[r].phase = "done"
        /\ pricing' = pricing
    BY <2>1, CommitTermsEffect
  <2>3. /\ puts[r].terms \in Terms /\ puts[r].loaded \in Terms \cup {NoTerms}
        /\ puts[r].loaded = accountTerms /\ puts[r].rows = offers
    BY <1>b, <2>2, PutFields DEF IInv, PriceTypeOK, OfferTypeOK
  <2>4. accountTerms' = puts[r].terms
    BY <2>2, <2>3, TermsWrittenWhole
  <2>5. TermsOf(accountTerms') = puts[r].terms
    BY <2>3, <2>4, PriceFlowAssumption DEF TermsOf
  <2>6. ASSUME NEW o \in Offers
        PROVE  IsCurrent(o)'
    <3>1. CASE offers[o] = NoOffer
      <4>1. offers'[o] = NoOffer
        BY <2>1, <2>3, <3>1, CommitTermsEffect, PriceFlowAssumption
      <4> QED
        BY <4>1 DEF IsCurrent
    <3>2. CASE offers[o] # NoOffer
      <4> DEFINE old == puts[r].rows[o].effective
                 new == EffectivePrice(puts[r].rows[o].price, puts[r].terms)
      <4>1. /\ offers'[o].price = offers[o].price
            /\ offers'[o].effective = Written(offers[o].effective, old, new)
        BY <2>1, <2>3, <3>2, CommitTermsEffect
      <4>2. old = offers[o].effective /\ new = EffectivePrice(offers[o].price, puts[r].terms)
        BY <2>3
      <4> HIDE DEF old, new
      <4>3. offers'[o].effective = new
        BY <4>1, <4>2 DEF Written
      <4> QED
        BY <2>5, <4>1, <4>2, <4>3 DEF IsCurrent
    <3> QED
      BY <3>1, <3>2
  <2>7. pricing = NotPricing
    BY <1>b, <2>2
  <2>8. \A s \in Requests : ~Open(s)'
    BY <1>b, <2>2 DEF Open
  <2>9. \A s \in Requests : puts'[s].phase # "offers read"
    BY <2>8 DEF Open
  <2> QED
    BY <1>c, <2>2, <2>6, <2>7, <2>8, <2>9 DEF SerialInv
<1>10. ASSUME NEW o \in Offers, TakePrice(o)
       PROVE  SerialInv'
  BY <1>2, <1>10, TakeIsHandle
<1>11. CASE ReplayPrice
  BY <1>2, <1>11, ReplayIsHandle DEF ReplayPrice
<1>14. ASSUME NEW r \in Requests, FailTerms(r)
       PROVE  SerialInv'
  <2>1. puts \in [Requests -> Puts]
    BY DEF IInv, PriceTypeOK, OfferTypeOK
  <2>2. /\ UNCHANGED <<offers, accountTerms, pricing>>
        /\ \A s \in Requests : s # r => puts'[s] = puts[s]
        /\ puts'[r].phase = "done"
        /\ Open(r)
    BY <1>14, <2>1, FailTermsEffect
  <2>3. pricing = NotPricing
    BY <1>b, <2>2
  <2>4. \A s \in Requests : ~Open(s)'
    BY <1>b, <2>2 DEF Open
  <2>5. \A s \in Requests : puts'[s].phase # "offers read"
    BY <2>4 DEF Open
  <2> QED
    BY <1>b, <1>c, <2>2, <2>3, <2>4, <2>5 DEF SerialInv, IsCurrent
<1>12. ASSUME NEW o \in Offers, Observe(o) \/ (\E i \in DOMAIN observed[o] : RecordPrice(o, i))
                                  \/ (\E i \in DOMAIN announced[o] : RecordEffective(o, i))
       PROVE  SerialInv'
  BY <1>1, <1>12 DEF Observe, RecordPrice, RecordEffective, offerVars
<1>13. CASE UNCHANGED flowVars
  BY <1>1, <1>13 DEF flowVars, offerVars
<1> QED
  BY <1>3, <1>4, <1>5, <1>6, <1>7, <1>8, <1>9, <1>10, <1>11, <1>12, <1>13, <1>14 DEF Next

\* As long as price events and changes of terms have taken turns, every offer's
\* effective price is its price under the account's terms.
THEOREM SerialPricesCurrent == Spec => []SerialPricesAreCurrent
<1>1. Init => SerialInv
  <2>1. NotPricing.phase = "none" /\ NewPut.phase = "new"
    BY DEF NotPricing, NewPut
  <2> QED
    BY <2>1 DEF Init, OfferInit, SerialInv, IsCurrent, Open
<1>2. IInv /\ SerialInv /\ [Next]_flowVars => SerialInv'
  BY StepSerial
<1>3. SerialInv => SerialPricesAreCurrent
  BY DEF SerialInv, SerialPricesAreCurrent
<1> QED
  BY <1>1, <1>2, <1>3, InvariantHolds, PTL DEF Spec

-----------------------------------------------------------------------------
(* The last price.                                                          *)

\* An observation adds an event to the end of its offer's.
LEMMA ObserveEffect ==
    ASSUME IInv, NEW o \in Offers, Observe(o)
    PROVE  /\ UNCHANGED <<offers, accountTerms, announced, pricing, puts>>
           /\ UNCHANGED <<recorded, priceOffset, parked, parksLeft, taken>>
           /\ clock' = clock + 1
           /\ \A q \in Offers : q # o => observed'[q] = observed[q]
           /\ Len(observed'[o]) = Len(observed[o]) + 1
           /\ \A i \in 1..Len(observed[o]) : observed'[o][i] = observed[o][i]
           /\ observed'[o][Len(observed[o]) + 1].at = clock
<1>1. PICK p \in Prices :
         observed' = [observed EXCEPT ![o] = Append(@, [price |-> p, at |-> clock])]
  BY DEF Observe
<1>2. /\ UNCHANGED <<offers, accountTerms, announced, pricing, puts>>
      /\ UNCHANGED <<recorded, priceOffset, parked, parksLeft, taken>>
      /\ clock' = clock + 1
  BY DEF Observe, offerVars, Tick
<1>3. [price |-> p, at |-> clock] \in Observations
  BY DEF IInv, PriceTypeOK, Observations
<1>4. observed[o] \in Seq(Observations)
  BY DEF IInv, PriceTypeOK
<1>5. /\ \A q \in Offers : q # o => observed'[q] = observed[q]
      /\ observed'[o] = Append(observed[o], [price |-> p, at |-> clock])
  BY <1>1 DEF IInv, PriceTypeOK
<1>6. /\ Len(observed'[o]) = Len(observed[o]) + 1
      /\ \A i \in 1..Len(observed[o]) : observed'[o][i] = observed[o][i]
      /\ observed'[o][Len(observed[o]) + 1] = [price |-> p, at |-> clock]
  BY <1>3, <1>4, <1>5
<1> QED
  BY <1>2, <1>5, <1>6

LEMMA StepInOrder ==
    ASSUME IInv, InOrderInv, [Next]_flowVars
    PROVE  InOrderInv'
<1>1. CASE UNCHANGED <<offers, observed, priceOffset, parked, parksLeft, taken, pricing>>
  BY <1>1 DEF InOrderInv
<1>2. ASSUME NEW o \in Offers, Observe(o)
      PROVE  InOrderInv'
  <2>1. /\ UNCHANGED <<offers, priceOffset, parked, parksLeft, taken, pricing>>
        /\ \A q \in Offers : \A i \in 1..Len(observed[q]) : observed'[q][i] = observed[q][i]
    BY <1>2, ObserveEffect
  <2>2. \A q \in Offers : priceOffset[q] # 0 => priceOffset[q] \in 1..Len(observed[q])
    BY DEF IInv, PriceTypeOK, PositionInv
  <2> QED
    BY <2>1, <2>2 DEF InOrderInv
<1>3. ASSUME NEW o \in Offers, TakePrice(o)
      PROVE  InOrderInv'
  <2>1. /\ UNCHANGED <<offers, observed, priceOffset, parked, parksLeft>>
        /\ taken' = <<o, priceOffset[o] + 1>>
    BY <1>3, TakeIsHandle, HandleEffect
  <2> QED
    BY <2>1 DEF InOrderInv
<1>4. CASE ReplayPrice
  <2>1. PICK e \in parked : Handle(e[1], e[2])
    BY <1>4 DEF ReplayPrice
  <2>2. parksLeft' = parksLeft
    BY <2>1, ReplayIsHandle, HandleEffect
  <2> QED
    BY <2>2 DEF InOrderInv
<1>5. CASE ContinuePrice
  <2>1. /\ UNCHANGED <<offers, observed, priceOffset, parked, parksLeft, taken>>
        /\ pricing.phase = "terms read"
    BY <1>5 DEF ContinuePrice, ReadOffer, delivery
  <2>2. pricing # NotPricing
    <3>1. pricing = NotPricing => pricing.phase = "none"
      BY DEF NotPricing
    <3> QED
      BY <2>1, <3>1
  <2> QED
    BY <2>1, <2>2 DEF InOrderInv
<1>6. CASE FinishPrice
  <2>1. CommitPrice
    BY <1>6 DEF FinishPrice
  <2>2. pricing # NotPricing /\ pricing' = NotPricing
    BY <2>1, CommitPriceEffect
  <2>3. PICK o \in Offers : o = pricing.offer
    BY <2>1, CommitPriceEffect
  <2>4. PICK i \in Nat \ {0} : taken = <<o, i>>
    BY <2>2, <2>3 DEF IInv, PositionInv
  <2>5. /\ pricing.price = observed[o][i].price
        /\ i <= Len(observed[o])
    BY <2>2, <2>4 DEF IInv, PositionInv
  <2>6. /\ \A q \in Offers : q # o => offers'[q] = offers[q]
        /\ offers'[o] # NoOffer
        /\ offers'[o].price = pricing.price
    BY <2>1, <2>3, CommitPriceEffect, PriceFlowAssumption
  <2>7. /\ priceOffset' = [priceOffset EXCEPT ![o] = IF i > @ THEN i ELSE @]
        /\ parked' = parked \ {taken}
        /\ UNCHANGED <<observed, parksLeft>>
    BY <1>6, <2>4 DEF FinishPrice
  <2>8. priceOffset \in [Offers -> Nat]
    BY DEF IInv, PriceTypeOK
  <2>9. CASE parksLeft = MaxParked
    <3>1. i = priceOffset[o] + 1
      BY <2>2, <2>4, <2>9 DEF InOrderInv
    <3>2. priceOffset'[o] = i /\ \A q \in Offers : q # o => priceOffset'[q] = priceOffset[q]
      BY <2>7, <2>8, <3>1
    <3> QED
      BY <2>2, <2>5, <2>6, <2>7, <2>9, <3>2 DEF InOrderInv
  <2>10. CASE parksLeft # MaxParked
    BY <2>7, <2>10 DEF InOrderInv
  <2> QED
    BY <2>9, <2>10
<1>7. CASE FailPrice
  <2>1. /\ UNCHANGED <<offers, observed, priceOffset, parked, parksLeft>>
        /\ pricing' = NotPricing
    BY <1>7 DEF FailPrice, AbandonPrice
  <2> QED
    BY <2>1 DEF InOrderInv
<1>8. CASE ParkPrice
  <2>1. parksLeft' = parksLeft - 1 /\ parksLeft \in 0..MaxParked
    BY <1>8 DEF ParkPrice, IInv, PriceTypeOK
  <2>2. parksLeft' # MaxParked
    BY <2>1, PriceFlowAssumption
  <2> QED
    BY <2>2 DEF InOrderInv
<1>9. ASSUME NEW r \in Requests, Reprice(r)
      PROVE  InOrderInv'
  <2>1. /\ CommitTerms(r)
        /\ UNCHANGED <<observed, priceOffset, parked, parksLeft, taken>>
    BY <1>9 DEF Reprice, delivery
  <2>2. pricing' = pricing
    BY <2>1, CommitTermsEffect
  <2>3. \A o \in Offers :
           offers[o] # NoOffer => offers'[o] # NoOffer /\ offers'[o].price = offers[o].price
    BY <2>1, CommitTermsEffect, PriceFlowAssumption
  <2> QED
    BY <2>1, <2>2, <2>3 DEF InOrderInv
<1>10. ASSUME NEW r \in Requests, BeginTerms(r) \/ WriteTerms(r) \/ LoadOffers(r) \/ FailTerms(r)
       PROVE  InOrderInv'
  BY <1>1, <1>10
  DEF BeginTerms, ReadAccount, WriteTerms, FlushTerms, FailTerms, AbandonTerms, LoadOffers,
      ReadOffers, delivery
<1>11. ASSUME NEW o \in Offers, (\E i \in DOMAIN observed[o] : RecordPrice(o, i))
                                \/ (\E i \in DOMAIN announced[o] : RecordEffective(o, i))
       PROVE  InOrderInv'
  BY <1>1, <1>11 DEF RecordPrice, RecordEffective, offerVars, delivery
<1>12. CASE UNCHANGED flowVars
  BY <1>1, <1>12 DEF flowVars, offerVars, delivery
<1> QED
  BY <1>2, <1>3, <1>4, <1>5, <1>6, <1>7, <1>8, <1>9, <1>10, <1>11, <1>12 DEF Next

\* Without dead letters, an offer whose events are handled has the price that was
\* observed last, whatever changes of terms came in between.
THEOREM LatestStands == Spec => []LatestPriceStands
<1>1. Init => InOrderInv
  BY DEF Init, OfferInit, InOrderInv
<1>2. IInv /\ InOrderInv /\ [Next]_flowVars => InOrderInv'
  BY StepInOrder
<1>3. IInv /\ InOrderInv => LatestPriceStands
  <2> SUFFICES ASSUME IInv, InOrderInv, parksLeft = MaxParked, NEW o \in Offers,
                      observed[o] # <<>>, priceOffset[o] = Len(observed[o])
               PROVE  offers[o].price = observed[o][Len(observed[o])].price
    BY DEF LatestPriceStands
  <2>1. observed[o] \in Seq(Observations)
    BY DEF IInv, PriceTypeOK
  <2>2. priceOffset[o] # 0
    BY <2>1
  <2> QED
    BY <2>2 DEF InOrderInv
<1> QED
  BY <1>1, <1>2, <1>3, InvariantHolds, PTL DEF Spec

-----------------------------------------------------------------------------
(* Times and points.                                                        *)

\* The step announces nothing about o, or one change with time t.
Announces(o, t) ==
    \/ announced'[o] = announced[o]
    \/ \E e \in Announcements : e.at = t /\ announced'[o] = Append(announced[o], e)

LEMMA AnnouncesEffect ==
    ASSUME NEW o \in Offers, NEW t, announced[o] \in Seq(Announcements), Announces(o, t)
    PROVE  /\ \A k \in 1..Len(announced[o]) :
                 k \in 1..Len(announced'[o]) /\ announced'[o][k] = announced[o][k]
           /\ \A k \in 1..Len(announced'[o]) :
                 \/ k \in 1..Len(announced[o]) /\ announced'[o][k] = announced[o][k]
                 \/ k = Len(announced[o]) + 1 /\ announced'[o][k].at = t
<1>1. CASE announced'[o] = announced[o]
  BY <1>1
<1>2. ASSUME NEW e \in Announcements, e.at = t, announced'[o] = Append(announced[o], e)
      PROVE  /\ \A k \in 1..Len(announced[o]) :
                   k \in 1..Len(announced'[o]) /\ announced'[o][k] = announced[o][k]
             /\ \A k \in 1..Len(announced'[o]) :
                   \/ k \in 1..Len(announced[o]) /\ announced'[o][k] = announced[o][k]
                   \/ k = Len(announced[o]) + 1 /\ announced'[o][k].at = t
  <2>1. /\ Len(announced'[o]) = Len(announced[o]) + 1
        /\ Len(announced[o]) \in Nat
        /\ \A k \in 1..Len(announced[o]) : announced'[o][k] = announced[o][k]
        /\ announced'[o][Len(announced[o]) + 1] = e
    BY <1>2
  <2> QED
    BY <1>2, <2>1
<1> QED
  BY <1>1, <1>2 DEF Announces

\* Emit is such a step.
LEMMA EmitAnnounces ==
    ASSUME NEW o \in Offers, announced[o] \in Seq(Announcements),
           NEW old, NEW new \in EffectivePrices, NEW at \in Nat,
           announced'[o] = Emit(o, old, new, at)
    PROVE  Announces(o, at)
<1>1. CASE new = NoPrice \/ new = old
  BY <1>1 DEF Emit, Announces
<1>2. CASE new # NoPrice /\ new # old
  <2> DEFINE e == [effective |-> new, at |-> at]
  <2>1. e \in Announcements /\ e.at = at
    BY <1>2 DEF Announcements
  <2>2. announced'[o] = Append(announced[o], e)
    BY <1>2 DEF Emit
  <2> HIDE DEF e
  <2> QED
    BY <2>1, <2>2 DEF Announces
<1> QED
  BY <1>1, <1>2

\* A change announced with a time that nothing of o was announced with.
LEMMA AnnouncedTimesKept ==
    ASSUME IInv, NEW o \in Offers, NEW t \in Nat, t < clock, Announces(o, t), AnnouncedTimes(o),
           \A k \in 1..Len(announced[o]) : announced[o][k].at # t,
           UNCHANGED <<clock, observed>>,
           \A i \in 1..Len(observed[o]) : Pending(o, i)' => Pending(o, i) /\ observed[o][i].at # t
    PROVE  AnnouncedTimes(o)'
<1>1. announced[o] \in Seq(Announcements)
  BY DEF IInv, PriceTypeOK, OfferTypeOK
<1>2. \A k \in 1..Len(announced'[o]) :
         \/ k \in 1..Len(announced[o]) /\ announced'[o][k] = announced[o][k]
         \/ k = Len(announced[o]) + 1 /\ announced'[o][k].at = t
  BY <1>1, AnnouncesEffect
<1>3. ASSUME NEW k \in 1..Len(announced'[o])
      PROVE  announced'[o][k].at < clock
  BY <1>2, <1>3 DEF AnnouncedTimes
<1>4. ASSUME NEW k \in 1..Len(announced'[o]), NEW l \in 1..Len(announced'[o]),
             announced'[o][k].at = announced'[o][l].at
      PROVE  k = l
  BY <1>2, <1>4 DEF AnnouncedTimes
<1>5. ASSUME NEW i \in 1..Len(observed[o]), Pending(o, i)', NEW k \in 1..Len(announced'[o])
      PROVE  announced'[o][k].at # observed[o][i].at
  BY <1>2, <1>5 DEF AnnouncedTimes
<1> QED
  BY <1>3, <1>4, <1>5 DEF AnnouncedTimes

\* A put's time is still its own when another change has been announced.
LEMMA PutTimesKept ==
    ASSUME IInv, NEW r \in Requests, PutTimes(r), NEW t,
           puts[r].phase = "offers read" => puts[r].at # t,
           \A o \in Offers : Announces(o, t),
           UNCHANGED <<clock, observed>>, puts'[r] = puts[r],
           \A s \in Requests : puts'[s].phase = "offers read" => puts'[s] = puts[s]
    PROVE  PutTimes(r)'
<1>1. \A o \in Offers : announced[o] \in Seq(Announcements)
  BY DEF IInv, PriceTypeOK, OfferTypeOK
<1>2. \A o \in Offers : \A k \in 1..Len(announced'[o]) :
         \/ k \in 1..Len(announced[o]) /\ announced'[o][k] = announced[o][k]
         \/ k = Len(announced[o]) + 1 /\ announced'[o][k].at = t
  BY <1>1, AnnouncesEffect
<1> QED
  BY ZenonT(30), <1>2 DEF PutTimes

\* What the two kinds of commit announce, and when.
LEMMA FinishAnnounces ==
    ASSUME IInv, FinishPrice
    PROVE  \E o \in Offers, i \in Nat \ {0} :
              /\ taken = <<o, i>>
              /\ i \in 1..Len(observed[o])
              /\ Announces(o, observed[o][i].at)
              /\ \A q \in Offers : q # o => announced'[q] = announced[q]
<1>1. CommitPrice
  BY DEF FinishPrice
<1>2. pricing # NotPricing
  BY <1>1, CommitPriceEffect
<1>3. PICK o \in Offers : o = pricing.offer
  BY <1>1, CommitPriceEffect
<1>4. PICK i \in Nat \ {0} : taken = <<o, i>>
  BY <1>2, <1>3 DEF IInv, PositionInv
<1>5. /\ pricing.at = observed[o][i].at
      /\ i <= Len(observed[o])
  BY <1>2, <1>4 DEF IInv, PositionInv
<1>6. /\ \A q \in Offers : q # o => announced'[q] = announced[q]
      /\ announced'[o] = Emit(o, OldEffective(pricing.row), pricing.effective, pricing.at)
  BY <1>1, <1>3, CommitPriceEffect
<1>7. /\ announced[o] \in Seq(Announcements)
      /\ observed[o] \in Seq(Observations)
  BY DEF IInv, PriceTypeOK, OfferTypeOK
<1>8. pricing.at \in Nat /\ pricing.effective \in EffectivePrices
  BY <1>1, <1>2, CommitPriceEffect, PricingFields DEF IInv, PriceTypeOK, OfferTypeOK
<1>9. Announces(o, observed[o][i].at)
  BY <1>5, <1>6, <1>7, <1>8, EmitAnnounces
<1> QED
  BY <1>4, <1>5, <1>6, <1>7, <1>9

LEMMA RepriceAnnounces ==
    ASSUME IInv, NEW r \in Requests, Reprice(r)
    PROVE  /\ puts[r].phase = "offers read"
           /\ puts[r].at \in Nat
           /\ \A o \in Offers : Announces(o, puts[r].at)
<1>1. CommitTerms(r)
  BY DEF Reprice
<1>2. puts[r].phase = "offers read" /\ puts[r].at \in Nat
  BY <1>1, CommitTermsEffect, PutFields DEF IInv, PriceTypeOK, OfferTypeOK
<1>3. ASSUME NEW o \in Offers
      PROVE  Announces(o, puts[r].at)
  <2>1. CASE announced'[o] = announced[o]
    BY <2>1 DEF Announces
  <2>2. CASE announced'[o] # announced[o]
    <3> DEFINE old == puts[r].rows[o].effective
               new == EffectivePrice(puts[r].rows[o].price, puts[r].terms)
    <3>1. new \in EffectivePrices /\ announced'[o] = Emit(o, old, new, puts[r].at)
      BY <1>1, <2>2, CommitTermsEffect
    <3>2. announced[o] \in Seq(Announcements)
      BY DEF IInv, PriceTypeOK, OfferTypeOK
    <3> HIDE DEF old, new
    <3> QED
      BY <1>2, <3>1, <3>2, EmitAnnounces
  <2> QED
    BY <2>1, <2>2
<1> QED
  BY <1>2, <1>3

\* Times are numbers.
LEMMA TimesTyped ==
    ASSUME IInv
    PROVE  /\ \A q \in Offers : \A i \in 1..Len(observed[q]) : observed[q][i].at \in Nat
           /\ \A q \in Offers : \A k \in 1..Len(announced[q]) : announced[q][k].at \in Nat
           /\ \A r \in Requests : puts[r].phase = "offers read" => puts[r].at \in Nat
<1>1. ASSUME NEW q \in Offers, NEW i \in 1..Len(observed[q])
      PROVE  observed[q][i].at \in Nat
  <2>1. observed[q] \in Seq(Observations)
    BY DEF IInv, PriceTypeOK
  <2>2. observed[q][i] \in Observations
    BY <2>1
  <2> QED
    BY <2>2 DEF Observations
<1>2. ASSUME NEW q \in Offers, NEW k \in 1..Len(announced[q])
      PROVE  announced[q][k].at \in Nat
  <2>1. announced[q] \in Seq(Announcements)
    BY DEF IInv, PriceTypeOK, OfferTypeOK
  <2>2. announced[q][k] \in Announcements
    BY <2>1
  <2> QED
    BY <2>2 DEF Announcements
<1>3. ASSUME NEW r \in Requests, puts[r].phase = "offers read"
      PROVE  puts[r].at \in Nat
  BY <1>3, PutFields DEF IInv, PriceTypeOK, OfferTypeOK
<1> QED
  BY <1>1, <1>2, <1>3

LEMMA StepTime ==
    ASSUME IInv, TimeInv, [Next]_flowVars
    PROVE  TimeInv'
<1>a. /\ ObservedTimes
      /\ \A o \in Offers : AnnouncedTimes(o)
      /\ \A r \in Requests : PutTimes(r)
      /\ TakenPending
  BY DEF TimeInv
<1>b. /\ \A o \in Offers : observed[o] \in Seq(Observations) /\ announced[o] \in Seq(Announcements)
      /\ clock \in Nat
      /\ priceOffset \in [Offers -> Nat]
  BY DEF IInv, PriceTypeOK, OfferTypeOK
<1>c. clock \in Nat
  BY <1>b
<1>t. /\ \A q \in Offers : \A i \in 1..Len(observed[q]) : observed[q][i].at \in Nat
      /\ \A q \in Offers : \A k \in 1..Len(announced[q]) : announced[q][k].at \in Nat
      /\ \A r \in Requests : puts[r].phase = "offers read" => puts[r].at \in Nat
  BY TimesTyped
<1>1. CASE UNCHANGED <<clock, observed, priceOffset, parked, announced, puts, taken, pricing>>
  <2>1. \A q : \A j : Pending(q, j)' = Pending(q, j)
    BY <1>1 DEF Pending
  <2>2. ObservedTimes' /\ \A q \in Offers : AnnouncedTimes(q)'
    BY <1>a, <1>1, <2>1 DEF ObservedTimes, AnnouncedTimes
  <2>3. \A r \in Requests : PutTimes(r)'
    BY <1>a, <1>1 DEF PutTimes
  <2>4. TakenPending'
    BY <1>a, <1>1, <2>1 DEF TakenPending
  <2> QED
    BY <2>2, <2>3, <2>4 DEF TimeInv
<1>2. ASSUME NEW o \in Offers, Observe(o)
      PROVE  TimeInv'
  <2>1. /\ UNCHANGED <<announced, pricing, puts, priceOffset, parked, taken>>
        /\ clock' = clock + 1
        /\ \A q \in Offers : q # o => observed'[q] = observed[q]
        /\ Len(observed'[o]) = Len(observed[o]) + 1
        /\ \A i \in 1..Len(observed[o]) : observed'[o][i] = observed[o][i]
        /\ observed'[o][Len(observed[o]) + 1].at = clock
    BY <1>2, ObserveEffect
  <2>2. \A q \in Offers : \A i \in 1..Len(observed'[q]) :
           \/ i \in 1..Len(observed[q]) /\ observed'[q][i] = observed[q][i]
           \/ q = o /\ i = Len(observed[o]) + 1 /\ observed'[q][i].at = clock
    <3>1. ASSUME NEW q \in Offers, q # o, NEW i \in 1..Len(observed'[q])
          PROVE  i \in 1..Len(observed[q]) /\ observed'[q][i] = observed[q][i]
      BY <2>1, <3>1
    <3>2. Len(observed[o]) \in Nat
      BY <1>b
    <3>3. ASSUME NEW i \in 1..Len(observed'[o])
          PROVE  \/ i \in 1..Len(observed[o]) /\ observed'[o][i] = observed[o][i]
                 \/ i = Len(observed[o]) + 1 /\ observed'[o][i].at = clock
      BY <2>1, <3>2
    <3> QED
      BY <3>1, <3>3
  <2>t. \A q \in Offers : \A i \in 1..Len(observed[q]) : observed[q][i].at \in Nat
    BY <1>t
  <2>3. ObservedTimes'
    <3>1. ASSUME NEW q \in Offers, NEW i \in 1..Len(observed'[q])
          PROVE  observed'[q][i].at < clock'
      <4>1. \A n \in Nat : n < clock => n < clock'
        BY <1>c, <2>1
      <4>2. CASE observed'[q][i].at = clock
        BY <1>c, <2>1, <4>2
      <4>3. CASE i \in 1..Len(observed[q]) /\ observed'[q][i] = observed[q][i]
        BY <1>a, <2>t, <4>1, <4>3 DEF ObservedTimes
      <4> QED
        BY <2>2, <4>2, <4>3
    <3>2. ASSUME NEW q \in Offers, NEW i \in 1..Len(observed'[q]), NEW j \in 1..Len(observed'[q]),
                 observed'[q][i].at = observed'[q][j].at
          PROVE  i = j
      <4>1. \A h \in 1..Len(observed[q]) : observed[q][h].at # clock
        BY <1>a, <1>c, <2>t DEF ObservedTimes
      <4>2. \A h \in 1..Len(observed'[q]) :
               \/ h \in 1..Len(observed[q]) /\ observed'[q][h].at = observed[q][h].at
               \/ h = Len(observed[o]) + 1 /\ observed'[q][h].at = clock
        BY <2>2
      <4> QED
        BY <1>a, <3>2, <4>1, <4>2 DEF ObservedTimes
    <3> QED
      BY <3>1, <3>2 DEF ObservedTimes
  <2>s. \A q \in Offers : \A k \in 1..Len(announced[q]) : announced[q][k].at \in Nat
    BY <1>t
  <2>4. ASSUME NEW q \in Offers
        PROVE  AnnouncedTimes(q)'
    <3>1. \A k \in 1..Len(announced[q]) : announced[q][k].at < clock /\ announced[q][k].at < clock'
      BY <1>a, <1>b, <2>1, <2>s DEF AnnouncedTimes
    <3>2. \A i : Pending(q, i)' = Pending(q, i)
      BY <2>1 DEF Pending
    <3>3. ASSUME NEW i \in 1..Len(observed'[q]), Pending(q, i)', NEW k \in 1..Len(announced[q])
          PROVE  announced[q][k].at # observed'[q][i].at
      <4>1. CASE i \in 1..Len(observed[q]) /\ observed'[q][i] = observed[q][i]
        BY <1>a, <3>2, <3>3, <4>1 DEF AnnouncedTimes
      <4>2. CASE observed'[q][i].at = clock
        BY <1>b, <2>s, <3>1, <4>2
      <4> QED
        BY <2>2, <4>1, <4>2
    <3> QED
      BY <1>a, <2>1, <3>1, <3>3 DEF AnnouncedTimes
  <2>5. ASSUME NEW r \in Requests
        PROVE  PutTimes(r)'
    <3>a. \A n \in Nat : n < clock => n # clock /\ n < clock + 1
      BY <1>c
    <3> SUFFICES ASSUME puts[r].phase = "offers read"
                 PROVE  PutTimes(r)'
      BY <2>1 DEF PutTimes
    <3>0. PICK t \in Nat : t = puts[r].at
      BY <1>t
    <3>1. puts[r].at = t /\ t < clock
      BY <1>a, <3>0 DEF PutTimes
    <3>2. \A q \in Offers : \A i \in 1..Len(observed'[q]) : observed'[q][i].at # puts[r].at
      <4>1. \A q \in Offers : \A i \in 1..Len(observed[q]) : observed[q][i].at # t
        BY <1>a, <3>1 DEF PutTimes
      <4>2. clock # t
        BY <3>a, <3>0, <3>1
      <4> QED
        BY <2>2, <3>1, <4>1, <4>2
    <3>3. puts[r].at < clock'
      <4>1. t < clock + 1
        BY <3>a, <3>0, <3>1
      <4> QED
        BY <2>1, <3>1, <4>1
    <3>4. puts' = puts /\ announced' = announced /\ PutTimes(r)
      BY <1>a, <2>1
    <3> QED
      BY <3>2, <3>3, <3>4 DEF PutTimes
  <2>6. TakenPending'
    BY <1>a, <2>1 DEF TakenPending, Pending
  <2> QED
    BY <2>3, <2>4, <2>5, <2>6 DEF TimeInv
<1>3. ASSUME NEW o \in Offers, NEW i \in Nat \ {0}, i <= Len(observed[o]), Pending(o, i), Handle(o, i)
      PROVE  TimeInv'
  <2>1. /\ UNCHANGED <<clock, observed, priceOffset, parked, announced, puts>>
        /\ taken' = <<o, i>>
    BY <1>3, HandleEffect
  <2>2. \A q : \A j : Pending(q, j)' = Pending(q, j)
    BY <2>1 DEF Pending
  <2>3. ObservedTimes' /\ \A q \in Offers : AnnouncedTimes(q)'
    BY <1>a, <2>1, <2>2 DEF ObservedTimes, AnnouncedTimes
  <2>4. \A r \in Requests : PutTimes(r)'
    BY <1>a, <2>1 DEF PutTimes
  <2>5. TakenPending'
    BY <1>3, <2>1, <2>2 DEF TakenPending
  <2> QED
    BY <2>3, <2>4, <2>5 DEF TimeInv
<1>4. ASSUME NEW o \in Offers, TakePrice(o)
      PROVE  TimeInv'
  <2>1. Pending(o, priceOffset[o] + 1)
    BY <1>b DEF Pending
  <2> QED
    BY <1>3, <1>4, <2>1, TakeIsHandle
<1>5. CASE ReplayPrice
  <2>1. PICK e \in parked : Handle(e[1], e[2])
    BY <1>5 DEF ReplayPrice
  <2>2. Pending(e[1], e[2])
    BY ReplayIsHandle DEF Pending
  <2> QED
    BY <1>3, <2>1, <2>2, ReplayIsHandle
<1>6. CASE ContinuePrice
  <2>1. /\ UNCHANGED <<clock, observed, priceOffset, parked, announced, puts, taken>>
        /\ pricing.phase = "terms read"
    BY <1>6 DEF ContinuePrice, ReadOffer, delivery
  <2>2. pricing # NotPricing
    <3>1. pricing = NotPricing => pricing.phase = "none"
      BY DEF NotPricing
    <3> QED
      BY <2>1, <3>1
  <2> QED
    <3>1. \A q : \A j : Pending(q, j)' = Pending(q, j)
      BY <2>1 DEF Pending
    <3>2. ObservedTimes' /\ \A q \in Offers : AnnouncedTimes(q)'
      BY <1>a, <2>1, <3>1 DEF ObservedTimes, AnnouncedTimes
    <3>3. \A r \in Requests : PutTimes(r)'
      BY <1>a, <2>1 DEF PutTimes
    <3>4. TakenPending'
      BY <1>a, <2>1, <2>2, <3>1 DEF TakenPending
    <3> QED
      BY <3>2, <3>3, <3>4 DEF TimeInv
<1>7. CASE FailPrice \/ ParkPrice
  <2>1. /\ UNCHANGED <<clock, observed, announced, puts>>
        /\ pricing # NotPricing /\ pricing' = NotPricing
    BY <1>7 DEF FailPrice, ParkPrice, AbandonPrice
  <2>2. PICK o \in Offers, i \in Nat \ {0} : taken = <<o, i>>
    BY <2>1 DEF IInv, PositionInv
  <2>3. Pending(o, i)
    BY <1>a, <2>1, <2>2 DEF TakenPending
  <2>4. \A q \in Offers : \A j \in Nat : Pending(q, j)' => Pending(q, j)
    <3>1. CASE FailPrice
      BY <3>1 DEF FailPrice, Pending
    <3>2. CASE ParkPrice
      <4>1. /\ priceOffset' = [priceOffset EXCEPT ![o] = IF i > @ THEN i ELSE @]
            /\ parked' = parked \cup {<<o, i>>}
        BY <2>2, <3>2 DEF ParkPrice
      <4>2. ASSUME NEW q \in Offers, NEW j \in Nat, Pending(q, j)'
            PROVE  Pending(q, j)
        <5>1. CASE q = o /\ j = i
          BY <2>3, <5>1
        <5>2. CASE <<q, j>> # <<o, i>> /\ <<q, j>> \in parked'
          BY <4>1, <5>2 DEF Pending
        <5>3. CASE j > priceOffset'[q]
          <6>0. priceOffset[q] \in Nat
            BY <1>b
          <6>1. \/ priceOffset'[q] = priceOffset[q]
                \/ priceOffset'[q] = i /\ i > priceOffset[q] /\ q = o
            <7>1. CASE q = o
              BY <1>b, <4>1, <7>1
            <7>2. CASE q # o
              BY <1>b, <4>1, <7>2
            <7> QED
              BY <7>1, <7>2
          <6> QED
            BY <5>3, <6>0, <6>1 DEF Pending
        <5> QED
          BY <4>2, <5>1, <5>2, <5>3 DEF Pending
      <4> QED
        BY <4>2
    <3> QED
      BY <1>7, <3>1, <3>2
  <2>5. \A q \in Offers : \A j \in 1..Len(observed[q]) : Pending(q, j)' => Pending(q, j)
    BY <1>b, <2>4
  <2> QED
    <3>1. ObservedTimes' /\ TakenPending'
      BY <1>a, <2>1 DEF ObservedTimes, TakenPending
    <3>2. \A q \in Offers : AnnouncedTimes(q)'
      BY <1>a, <2>1, <2>5 DEF AnnouncedTimes
    <3>3. \A r \in Requests : PutTimes(r)'
      BY <1>a, <2>1 DEF PutTimes
    <3> QED
      BY <3>1, <3>2, <3>3 DEF TimeInv
<1>8. CASE FinishPrice
  <2>1. PICK o \in Offers, i \in Nat \ {0} :
           /\ taken = <<o, i>>
           /\ i \in 1..Len(observed[o])
           /\ Announces(o, observed[o][i].at)
           /\ \A q \in Offers : q # o => announced'[q] = announced[q]
    BY <1>8, FinishAnnounces
  <2>2. PICK t \in Nat : t = observed[o][i].at
    BY <1>t, <2>1
  <2>3. /\ UNCHANGED <<clock, observed, puts>>
        /\ priceOffset' = [priceOffset EXCEPT ![o] = IF i > @ THEN i ELSE @]
        /\ parked' = parked \ {<<o, i>>}
    BY <1>8, <2>1 DEF FinishPrice, CommitPrice
  <2>4. pricing # NotPricing /\ pricing' = NotPricing
    BY <1>8, CommitPriceEffect DEF FinishPrice
  <2>5. Pending(o, i)
    BY <1>a, <2>1, <2>4 DEF TakenPending
  <2>6. \A q \in Offers : \A j \in Nat : Pending(q, j)' => Pending(q, j) /\ ~(q = o /\ j = i)
    BY <1>b, <2>3 DEF Pending
  <2>7. t < clock /\ \A k \in 1..Len(announced[o]) : announced[o][k].at # t
    BY <1>a, <2>1, <2>2, <2>5 DEF ObservedTimes, AnnouncedTimes
  <2>8. AnnouncedTimes(o)'
    <3>1. \A j \in 1..Len(observed[o]) : Pending(o, j)' => Pending(o, j) /\ observed[o][j].at # t
      BY <1>a, <1>b, <2>1, <2>2, <2>6 DEF ObservedTimes
    <3>2. Announces(o, t)
      BY <2>1, <2>2
    <3> QED
      BY <1>a, <2>3, <2>7, <3>1, <3>2, AnnouncedTimesKept
  <2>9. ASSUME NEW q \in Offers, q # o
        PROVE  AnnouncedTimes(q)'
    <3>1. announced'[q] = announced[q] /\ observed' = observed /\ clock' = clock
      BY <2>1, <2>3, <2>9
    <3>2. \A j \in 1..Len(observed[q]) : Pending(q, j)' => Pending(q, j)
      BY <1>b, <2>6
    <3> QED
      BY <1>a, <3>1, <3>2 DEF AnnouncedTimes
  <2>10. ASSUME NEW r \in Requests
         PROVE  PutTimes(r)'
    <3>1. puts[r].phase = "offers read" => puts[r].at # t
      BY <1>a, <2>1, <2>2 DEF PutTimes
    <3>2. \A q \in Offers : Announces(q, t)
      BY <2>1, <2>2 DEF Announces
    <3>3. PutTimes(r)
      BY <1>a
    <3> QED
      BY <2>3, <3>1, <3>2, <3>3, PutTimesKept
  <2>11. ObservedTimes' /\ TakenPending'
    BY <1>a, <2>3, <2>4 DEF ObservedTimes, TakenPending
  <2> QED
    BY <2>8, <2>9, <2>10, <2>11 DEF TimeInv
<1>9. ASSUME NEW r \in Requests, BeginTerms(r) \/ WriteTerms(r) \/ FailTerms(r)
      PROVE  TimeInv'
  <2>1. UNCHANGED <<clock, observed, priceOffset, parked, announced, taken, pricing>>
    BY <1>9
    DEF BeginTerms, ReadAccount, WriteTerms, FlushTerms, FailTerms, AbandonTerms, delivery
  <2>2. /\ \A s \in Requests : s # r => puts'[s] = puts[s]
        /\ puts'[r].phase # "offers read"
    <3>1. CASE BeginTerms(r)
      <4>1. PICK t \in Terms :
               puts' = [puts EXCEPT ![r] =
                           [phase |-> "account read", terms |-> t, loaded |-> accountTerms]]
        BY <3>1 DEF BeginTerms, ReadAccount
      <4> QED
        BY <4>1 DEF IInv, PriceTypeOK, OfferTypeOK
    <3>2. CASE WriteTerms(r)
      <4>1. PICK put \in {DonePut, [phase |-> "flushed", terms |-> puts[r].terms,
                                    loaded |-> puts[r].loaded]} :
               puts' = [puts EXCEPT ![r] = put]
        BY <3>2 DEF WriteTerms, FlushTerms
      <4>2. put.phase # "offers read"
        <5>1. CASE put = DonePut
          <6>1. DonePut.phase = "done"
            BY DEF DonePut
          <6> QED
            BY <5>1, <6>1
        <5>2. CASE put = [phase |-> "flushed", terms |-> puts[r].terms, loaded |-> puts[r].loaded]
          BY <5>2
        <5> QED
          BY <5>1, <5>2
      <4> QED
        BY <4>1, <4>2 DEF IInv, PriceTypeOK, OfferTypeOK
    <3>3. CASE FailTerms(r)
      <4>1. puts \in [Requests -> Puts]
        BY DEF IInv, PriceTypeOK, OfferTypeOK
      <4> QED
        BY <3>3, <4>1, FailTermsEffect
    <3> QED
      BY <1>9, <3>1, <3>2, <3>3
  <2>3. ASSUME NEW s \in Requests
        PROVE  PutTimes(s)'
    <3>1. CASE s = r
      BY <2>2, <3>1 DEF PutTimes
    <3>2. CASE s # r
      <4>1. PutTimes(s) /\ puts'[s] = puts[s]
        BY <1>a, <2>2, <3>2
      <4>2. \A u \in Requests : puts'[u].phase = "offers read" => puts'[u] = puts[u]
        BY <2>2
      <4> QED
        BY <2>1, <4>1, <4>2 DEF PutTimes
    <3> QED
      BY <3>1, <3>2
  <2>4. ObservedTimes' /\ (\A o \in Offers : AnnouncedTimes(o)') /\ TakenPending'
    BY <1>a, <2>1 DEF ObservedTimes, AnnouncedTimes, TakenPending, Pending
  <2> QED
    BY <2>3, <2>4 DEF TimeInv
<1>10. ASSUME NEW r \in Requests, LoadOffers(r)
       PROVE  TimeInv'
  <2>1. /\ UNCHANGED <<observed, priceOffset, parked, announced, taken, pricing>>
        /\ clock' = clock + 1
    BY <1>10 DEF LoadOffers, ReadOffers, Tick, delivery
  <2>2. /\ \A s \in Requests : s # r => puts'[s] = puts[s]
        /\ puts'[r] = [phase |-> "offers read", terms |-> puts[r].terms,
                       loaded |-> puts[r].loaded, rows |-> offers, at |-> clock]
    BY <1>10 DEF LoadOffers, ReadOffers, IInv, PriceTypeOK, OfferTypeOK
  <2>3. puts'[r].at = clock
    <3> DEFINE put == [phase |-> "offers read", terms |-> puts[r].terms,
                       loaded |-> puts[r].loaded, rows |-> offers, at |-> clock]
    <3>1. put.at = clock
      OBVIOUS
    <3> HIDE DEF put
    <3>2. puts'[r] = put
      BY <2>2 DEF put
    <3> QED
      BY <3>1, <3>2
  <2>4. \A q \in Offers :
           /\ \A i \in 1..Len(observed[q]) :
                 observed[q][i].at \in Nat /\ observed[q][i].at < clock
           /\ \A k \in 1..Len(announced[q]) :
                 announced[q][k].at \in Nat /\ announced[q][k].at < clock
    BY <1>a, <1>t DEF ObservedTimes, AnnouncedTimes
  <2>5. \A s \in Requests : puts[s].phase = "offers read" => puts[s].at \in Nat /\ puts[s].at < clock
    BY <1>a, <1>t DEF PutTimes
  <2>6. ASSUME NEW s \in Requests
        PROVE  PutTimes(s)'
    <3>0. /\ \A u \in Requests : u # r /\ puts[u].phase = "offers read" => puts[u].at # clock
          /\ \A q \in Offers : \A i \in 1..Len(observed[q]) : observed[q][i].at # clock
          /\ \A q \in Offers : \A k \in 1..Len(announced[q]) : announced[q][k].at # clock
      <4>1. \A n \in Nat : n < clock => n # clock
        BY <1>c
      <4> QED
        BY <2>4, <2>5, <4>1
    <3>1. CASE s = r
      <4>1. clock < clock'
        BY <1>c, <2>1
      <4>2. \A u \in Requests : puts'[u].phase = "offers read" /\ puts'[u].at = clock => u = r
        BY <2>2, <3>0
      <4> QED
        BY <2>1, <2>3, <3>0, <3>1, <4>1, <4>2 DEF PutTimes
    <3>a. \A n \in Nat : n < clock => n < clock + 1
      BY <1>c
    <3>2. CASE s # r
      <4> SUFFICES ASSUME puts[s].phase = "offers read"
                   PROVE  PutTimes(s)'
        BY <2>2, <3>2 DEF PutTimes
      <4>1. puts'[s] = puts[s] /\ PutTimes(s)
        BY <1>a, <2>2, <3>2
      <4>2. puts[s].at < clock'
        BY <2>1, <2>5, <3>a
      <4>3. \A u \in Requests : puts'[u].phase = "offers read" /\ puts'[u].at = puts[s].at => u = s
        <5>1. ASSUME NEW u \in Requests, puts'[u].phase = "offers read", puts'[u].at = puts[s].at
              PROVE  u = s
          <6>1. CASE u = r
            BY <2>3, <3>0, <3>2, <5>1, <6>1
          <6>2. CASE u # r
            BY <2>2, <4>1, <5>1, <6>2 DEF PutTimes
          <6> QED
            BY <6>1, <6>2
        <5> QED
          BY <5>1
      <4> QED
        BY <2>1, <4>1, <4>2, <4>3 DEF PutTimes
    <3> QED
      BY <3>1, <3>2
  <2>7. ObservedTimes'
    BY <1>a, <1>b, <2>1, <2>4 DEF ObservedTimes
  <2>8. ASSUME NEW o \in Offers
        PROVE  AnnouncedTimes(o)'
    <3>1. \A i : Pending(o, i)' = Pending(o, i)
      BY <2>1 DEF Pending
    <3>2. \A k \in 1..Len(announced[o]) : announced[o][k].at < clock'
      BY <1>c, <2>1, <2>4
    <3>3. announced' = announced /\ observed' = observed /\ AnnouncedTimes(o)
      BY <1>a, <2>1
    <3> QED
      BY <3>1, <3>2, <3>3 DEF AnnouncedTimes
  <2>9. TakenPending'
    BY <1>a, <2>1 DEF TakenPending, Pending
  <2> QED
    BY <2>6, <2>7, <2>8, <2>9 DEF TimeInv
<1>11. ASSUME NEW r \in Requests, Reprice(r)
       PROVE  TimeInv'
  <2>1. PICK t \in Nat : t = puts[r].at
    BY <1>11, RepriceAnnounces
  <2>2. puts[r].phase = "offers read" /\ \A o \in Offers : Announces(o, t)
    BY <1>11, <2>1, RepriceAnnounces
  <2>3. /\ UNCHANGED <<clock, observed, priceOffset, parked, taken, pricing>>
        /\ \A s \in Requests : s # r => puts'[s] = puts[s]
        /\ puts'[r].phase = "done"
    BY <1>11, CommitTermsEffect DEF Reprice, delivery
  <2>4. PutTimes(r)
    BY <1>a
  <2>5. /\ t < clock
        /\ \A o \in Offers : \A i \in 1..Len(observed[o]) : observed[o][i].at # t
        /\ \A o \in Offers : \A k \in 1..Len(announced[o]) : announced[o][k].at # t
        /\ \A s \in Requests : puts[s].phase = "offers read" /\ puts[s].at = t => r = s
    BY <2>1, <2>2, <2>4 DEF PutTimes
  <2>6. ASSUME NEW o \in Offers
        PROVE  AnnouncedTimes(o)'
    <3>1. \A i \in 1..Len(observed[o]) : Pending(o, i)' => Pending(o, i) /\ observed[o][i].at # t
      BY <2>3, <2>5 DEF Pending
    <3>2. Announces(o, t) /\ AnnouncedTimes(o)
      BY <1>a, <2>2
    <3> QED
      BY <2>3, <2>5, <3>1, <3>2, AnnouncedTimesKept
  <2>7. ASSUME NEW s \in Requests
        PROVE  PutTimes(s)'
    <3>1. CASE s = r
      BY <2>3, <3>1 DEF PutTimes
    <3>2. CASE s # r
      <4>1. puts[s].phase = "offers read" => puts[s].at # t
        BY <2>5, <3>2
      <4>2. \A u \in Requests : puts'[u].phase = "offers read" => puts'[u] = puts[u]
        BY <2>3
      <4>3. PutTimes(s) /\ puts'[s] = puts[s]
        BY <1>a, <2>3, <3>2
      <4> QED
        BY <2>2, <2>3, <4>1, <4>2, <4>3, PutTimesKept
    <3> QED
      BY <3>1, <3>2
  <2>8. ObservedTimes' /\ TakenPending'
    BY <1>a, <2>3 DEF ObservedTimes, TakenPending, Pending
  <2> QED
    BY <2>6, <2>7, <2>8 DEF TimeInv
<1>12. ASSUME NEW o \in Offers, (\E i \in DOMAIN observed[o] : RecordPrice(o, i))
                                \/ (\E i \in DOMAIN announced[o] : RecordEffective(o, i))
       PROVE  TimeInv'
  BY <1>1, <1>12 DEF RecordPrice, RecordEffective, offerVars, delivery
<1>13. CASE UNCHANGED flowVars
  BY <1>1, <1>13 DEF flowVars, offerVars, delivery
<1> QED
  BY <1>2, <1>4, <1>5, <1>6, <1>7, <1>8, <1>9, <1>10, <1>11, <1>12, <1>13 DEF Next
-----------------------------------------------------------------------------
(* The points of the history.                                               *)

\* Events are only ever appended.
Extends(events) ==
    \A o \in Offers : \A i \in 1..Len(events[o]) :
        i \in 1..Len(events'[o]) /\ events'[o][i] = events[o][i]

\* Steps of the other actors leave the points what they were.
LEMMA PointsKept ==
    ASSUME PointInv, UNCHANGED recorded, Extends(observed), Extends(announced)
    PROVE  PointInv'
<1>1. ASSUME NEW o \in Offers, NEW i \in 1..Len(observed[o])
      PROVE  i \in 1..Len(observed'[o]) /\ PricePoint(o, i)' = PricePoint(o, i)
  BY <1>1 DEF PricePoint, Extends
<1>2. ASSUME NEW o \in Offers, NEW i \in 1..Len(announced[o])
      PROVE  i \in 1..Len(announced'[o]) /\ EffectivePoint(o, i)' = EffectivePoint(o, i)
  BY <1>2 DEF EffectivePoint, Extends
<1>3. /\ pricePoints' = pricePoints /\ effectivePoints' = effectivePoints
      /\ pricesRecorded' = pricesRecorded /\ effectivesRecorded' = effectivesRecorded
  BY DEF recorded
<1>4. ASSUME NEW o \in Offers
      PROVE  /\ pricesRecorded[o] \subseteq 1..Len(observed'[o])
             /\ \A i \in pricesRecorded[o] : PricePoint(o, i)' \in pricePoints[o]
             /\ \A q \in pricePoints[o] : \E i \in pricesRecorded[o] : q = PricePoint(o, i)'
  <2>1. \A i \in pricesRecorded[o] : i \in 1..Len(observed[o])
    BY DEF PointInv
  <2>2. \A i \in pricesRecorded[o] : i \in 1..Len(observed'[o]) /\ PricePoint(o, i)' = PricePoint(o, i)
    BY <1>1, <2>1
  <2> QED
    BY <2>2 DEF PointInv
<1>5. ASSUME NEW o \in Offers
      PROVE  /\ effectivesRecorded[o] \subseteq 1..Len(announced'[o])
             /\ \A i \in effectivesRecorded[o] : EffectivePoint(o, i)' \in effectivePoints[o]
             /\ \A q \in effectivePoints[o] :
                   \E i \in effectivesRecorded[o] : q = EffectivePoint(o, i)'
  <2>1. \A i \in effectivesRecorded[o] : i \in 1..Len(announced[o])
    BY DEF PointInv
  <2>2. \A i \in effectivesRecorded[o] :
           i \in 1..Len(announced'[o]) /\ EffectivePoint(o, i)' = EffectivePoint(o, i)
    BY <1>2, <2>1
  <2> QED
    BY <2>2 DEF PointInv
<1> QED
  BY <1>3, <1>4, <1>5 DEF PointInv

\* What every step but the history's own does to the events.
LEMMA StepExtends ==
    ASSUME IInv, [Next]_flowVars
    PROVE  Extends(observed) /\ Extends(announced)
<1>a. \A o \in Offers : announced[o] \in Seq(Announcements)
  BY DEF IInv, PriceTypeOK, OfferTypeOK
<1>1. CASE UNCHANGED <<observed, announced>>
  BY <1>1 DEF Extends
<1>2. ASSUME NEW o \in Offers, Observe(o)
      PROVE  Extends(observed) /\ Extends(announced)
  <2>1. /\ announced' = announced
        /\ \A q \in Offers : q # o => observed'[q] = observed[q]
        /\ Len(observed'[o]) = Len(observed[o]) + 1
        /\ \A i \in 1..Len(observed[o]) : observed'[o][i] = observed[o][i]
    BY <1>2, ObserveEffect
  <2>2. Len(observed[o]) \in Nat
    BY DEF IInv, PriceTypeOK
  <2>3. \A i \in 1..Len(observed[o]) : i \in 1..Len(observed'[o])
    BY <2>1, <2>2
  <2> QED
    BY <2>1, <2>3 DEF Extends
<1>3. ASSUME NEW t, \A o \in Offers : Announces(o, t), observed' = observed
      PROVE  Extends(observed) /\ Extends(announced)
  BY <1>a, <1>3, AnnouncesEffect DEF Extends
<1>4. CASE FinishPrice
  <2>1. PICK o \in Offers, i \in Nat \ {0} :
           /\ Announces(o, observed[o][i].at)
           /\ \A q \in Offers : q # o => announced'[q] = announced[q]
    BY <1>4, FinishAnnounces
  <2>2. \A q \in Offers : Announces(q, observed[o][i].at)
    BY <2>1 DEF Announces
  <2>3. observed' = observed
    BY <1>4 DEF FinishPrice
  <2> QED
    BY <1>3, <2>2, <2>3
<1>5. ASSUME NEW r \in Requests, Reprice(r)
      PROVE  Extends(observed) /\ Extends(announced)
  <2>1. observed' = observed
    BY <1>5 DEF Reprice, delivery
  <2> QED
    BY <1>3, <1>5, <2>1, RepriceAnnounces
<1>6. ASSUME NEW o \in Offers, TakePrice(o)
      PROVE  Extends(observed) /\ Extends(announced)
  BY <1>1, <1>6 DEF TakePrice, Handle, ReadTerms
<1>7. CASE ReplayPrice
  BY <1>1, <1>7 DEF ReplayPrice, Handle, ReadTerms
<1>8. CASE ContinuePrice
  BY <1>1, <1>8 DEF ContinuePrice, ReadOffer, delivery
<1>9. CASE FailPrice \/ ParkPrice
  BY <1>1, <1>9 DEF FailPrice, ParkPrice, AbandonPrice
<1>10. ASSUME NEW r \in Requests, BeginTerms(r) \/ WriteTerms(r) \/ LoadOffers(r) \/ FailTerms(r)
       PROVE  Extends(observed) /\ Extends(announced)
  BY <1>1, <1>10
     DEF BeginTerms, WriteTerms, LoadOffers, ReadAccount, FlushTerms, ReadOffers, FailTerms,
         AbandonTerms, delivery
<1>11. ASSUME NEW o \in Offers, (\E i \in DOMAIN observed[o] : RecordPrice(o, i))
                                \/ (\E i \in DOMAIN announced[o] : RecordEffective(o, i))
       PROVE  Extends(observed) /\ Extends(announced)
  BY <1>1, <1>11 DEF RecordPrice, RecordEffective, offerVars, delivery
<1>12. CASE UNCHANGED flowVars
  BY <1>1, <1>12 DEF flowVars, offerVars, delivery
<1> QED
  BY <1>2, <1>4, <1>5, <1>6, <1>7, <1>8, <1>9, <1>10, <1>11, <1>12 DEF Next
\* A point joins the points of its offer: none has its time yet.
LEMMA StepPoint ==
    ASSUME IInv, TimeInv, PointInv, [Next]_flowVars
    PROVE  PointInv'
<1>0. Extends(observed) /\ Extends(announced)
  BY StepExtends
<1>1. ASSUME NEW o \in Offers, NEW i \in DOMAIN observed[o], RecordPrice(o, i)
      PROVE  PointInv'
  <2>1. /\ UNCHANGED <<observed, announced, effectivePoints, effectivesRecorded>>
        /\ i \notin pricesRecorded[o]
        /\ pricePoints' = [pricePoints EXCEPT ![o] = History!WithPoint(@, PricePoint(o, i))]
        /\ pricesRecorded' = [pricesRecorded EXCEPT ![o] = @ \cup {i}]
    BY <1>1 DEF RecordPrice, History!AppendPricePoint, PricePoint, offerVars, delivery
  <2>2. i \in 1..Len(observed[o])
    BY DEF IInv, PriceTypeOK
  <2>3. \A q \in pricePoints[o] : q.ts # PricePoint(o, i).ts
    <3>1. ASSUME NEW q \in pricePoints[o], q.ts = observed[o][i].at
          PROVE  FALSE
      <4>1. PICK j \in pricesRecorded[o] : q = PricePoint(o, j)
        BY DEF PointInv
      <4>2. j \in 1..Len(observed[o]) /\ q.ts = observed[o][j].at
        BY <4>1 DEF PointInv, PricePoint
      <4>3. i = j
        BY <2>2, <3>1, <4>2 DEF TimeInv, ObservedTimes, AnnouncedTimes
      <4> QED
        BY <2>1, <4>3
    <3> QED
      BY <3>1 DEF PricePoint
  <2>4. pricePoints' = [pricePoints EXCEPT ![o] = @ \cup {PricePoint(o, i)}]
    BY <2>1, <2>3 DEF History!WithPoint
  <2>5. /\ pricePoints'[o] = pricePoints[o] \cup {PricePoint(o, i)}
        /\ pricesRecorded'[o] = pricesRecorded[o] \cup {i}
        /\ \A q \in Offers : q # o =>
              pricePoints'[q] = pricePoints[q] /\ pricesRecorded'[q] = pricesRecorded[q]
    BY <2>1, <2>4 DEF IInv, PriceTypeOK, History!HistoryTypeOK
  <2>6. \A q \in Offers : \A j : PricePoint(q, j)' = PricePoint(q, j)
    BY <2>1 DEF PricePoint
  <2>7. ASSUME NEW q \in Offers
        PROVE  /\ pricesRecorded'[q] \subseteq 1..Len(observed[q])
               /\ \A j \in pricesRecorded'[q] : PricePoint(q, j) \in pricePoints'[q]
               /\ \A p \in pricePoints'[q] : \E j \in pricesRecorded'[q] : p = PricePoint(q, j)
    <3>1. CASE q = o
      BY <2>2, <2>5, <3>1 DEF PointInv
    <3>2. CASE q # o
      BY <2>5, <3>2 DEF PointInv
    <3> QED
      BY <3>1, <3>2
  <2>8. \A q \in Offers : \A j : EffectivePoint(q, j)' = EffectivePoint(q, j)
    BY <2>1 DEF EffectivePoint
  <2> QED
    BY <2>1, <2>6, <2>7, <2>8 DEF PointInv
<1>2. ASSUME NEW o \in Offers, NEW i \in DOMAIN announced[o], RecordEffective(o, i)
      PROVE  PointInv'
  <2>1. /\ UNCHANGED <<observed, announced, pricePoints, pricesRecorded>>
        /\ i \notin effectivesRecorded[o]
        /\ effectivePoints' =
              [effectivePoints EXCEPT ![o] = History!WithPoint(@, EffectivePoint(o, i))]
        /\ effectivesRecorded' = [effectivesRecorded EXCEPT ![o] = @ \cup {i}]
    BY <1>2 DEF RecordEffective, History!AppendEffectivePoint, EffectivePoint, offerVars, delivery
  <2>2. i \in 1..Len(announced[o])
    BY DEF IInv, PriceTypeOK, OfferTypeOK
  <2>3. \A q \in effectivePoints[o] : q.ts # EffectivePoint(o, i).ts
    <3>1. ASSUME NEW q \in effectivePoints[o], q.ts = announced[o][i].at
          PROVE  FALSE
      <4>1. PICK j \in effectivesRecorded[o] : q = EffectivePoint(o, j)
        BY DEF PointInv
      <4>2. j \in 1..Len(announced[o]) /\ q.ts = announced[o][j].at
        BY <4>1 DEF PointInv, EffectivePoint
      <4>3. i = j
        BY <2>2, <3>1, <4>2 DEF TimeInv, ObservedTimes, AnnouncedTimes
      <4> QED
        BY <2>1, <4>3
    <3> QED
      BY <3>1 DEF EffectivePoint
  <2>4. effectivePoints' = [effectivePoints EXCEPT ![o] = @ \cup {EffectivePoint(o, i)}]
    BY <2>1, <2>3 DEF History!WithPoint
  <2>5. /\ effectivePoints'[o] = effectivePoints[o] \cup {EffectivePoint(o, i)}
        /\ effectivesRecorded'[o] = effectivesRecorded[o] \cup {i}
        /\ \A q \in Offers : q # o =>
              /\ effectivePoints'[q] = effectivePoints[q]
              /\ effectivesRecorded'[q] = effectivesRecorded[q]
    BY <2>1, <2>4 DEF IInv, PriceTypeOK, History!HistoryTypeOK
  <2>6. \A q \in Offers : \A j : EffectivePoint(q, j)' = EffectivePoint(q, j)
    BY <2>1 DEF EffectivePoint
  <2>7. ASSUME NEW q \in Offers
        PROVE  /\ effectivesRecorded'[q] \subseteq 1..Len(announced[q])
               /\ \A j \in effectivesRecorded'[q] : EffectivePoint(q, j) \in effectivePoints'[q]
               /\ \A p \in effectivePoints'[q] :
                     \E j \in effectivesRecorded'[q] : p = EffectivePoint(q, j)
    <3>1. CASE q = o
      BY <2>2, <2>5, <3>1 DEF PointInv
    <3>2. CASE q # o
      BY <2>5, <3>2 DEF PointInv
    <3> QED
      BY <3>1, <3>2
  <2>8. \A q \in Offers : \A j : PricePoint(q, j)' = PricePoint(q, j)
    BY <2>1 DEF PricePoint
  <2> QED
    BY <2>1, <2>6, <2>7, <2>8 DEF PointInv
<1>3. CASE UNCHANGED recorded
  BY <1>0, <1>3, PointsKept
<1>4. CASE FinishPrice \/ FailPrice \/ ParkPrice \/ ContinuePrice \/ ReplayPrice
  BY <1>3, <1>4 DEF FinishPrice, FailPrice, ParkPrice, ContinuePrice, ReplayPrice, Handle, recorded
<1>5. ASSUME NEW r \in Requests, BeginTerms(r) \/ WriteTerms(r) \/ LoadOffers(r) \/ FailTerms(r)
                              \/ Reprice(r)
      PROVE  PointInv'
  BY <1>3, <1>5 DEF BeginTerms, WriteTerms, LoadOffers, FailTerms, Reprice, recorded
<1>6. ASSUME NEW o \in Offers, Observe(o) \/ TakePrice(o)
      PROVE  PointInv'
  BY <1>3, <1>6 DEF Observe, TakePrice, Handle, recorded
<1>7. CASE UNCHANGED flowVars
  BY <1>3, <1>7 DEF flowVars, recorded
<1> QED
  BY <1>1, <1>2, <1>4, <1>5, <1>6, <1>7 DEF Next

\* The price history holds every event it has handled, whatever order its consumers
\* and the offer service come to theirs in: no two events of an offer share a time.
THEOREM HistoryComplete == Spec => []HistoryIsComplete
<1>1. Init => TimeInv /\ PointInv
  <2> SUFFICES ASSUME Init
               PROVE  TimeInv /\ PointInv
    OBVIOUS
  <2>1. /\ \A o \in Offers : observed[o] = <<>> /\ announced[o] = <<>>
        /\ \A o \in Offers : pricesRecorded[o] = {} /\ effectivesRecorded[o] = {}
        /\ \A o \in Offers : pricePoints[o] = {} /\ effectivePoints[o] = {}
        /\ pricing = NotPricing
    BY DEF Init, OfferInit, History!HistoryInit
  <2>2. \A r \in Requests : puts[r].phase = "new"
    BY DEF Init, OfferInit, NewPut
  <2>3. TimeInv
    <3>1. \A o \in Offers : 1..Len(observed[o]) = {} /\ 1..Len(announced[o]) = {}
      BY <2>1
    <3>2. \A r \in Requests : puts[r].phase # "offers read"
      BY <2>2
    <3> QED
      BY <2>1, <3>1, <3>2, Zenon
      DEF TimeInv, ObservedTimes, AnnouncedTimes, PutTimes, TakenPending
  <2>4. PointInv
    BY <2>1 DEF PointInv
  <2> QED
    BY <2>3, <2>4
<1>2. IInv /\ TimeInv /\ [Next]_flowVars => TimeInv'
  BY StepTime
<1>3. IInv /\ TimeInv /\ PointInv /\ [Next]_flowVars => PointInv'
  BY StepPoint
<1>4. PointInv => HistoryIsComplete
  BY DEF PointInv, HistoryIsComplete, PricePoint, EffectivePoint
<1> QED
  BY <1>1, <1>2, <1>3, <1>4, InvariantHolds, PTL DEF Spec
=============================================================================
