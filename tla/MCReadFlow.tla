------------------------------ MODULE MCReadFlow ------------------------------
(***************************************************************************)
(* Small tables for TLC.                                                   *)
(***************************************************************************)
EXTENDS ReadFlow, TLC

CONSTANTS unpriced

\* Offer i prices product i, and the last one product 1 too.
FourOffers == <<1, 2, 3, 1>>

Quote(uah, effective) == [uah |-> uah, effective |-> effective]

\* Not priced, dear, cheap, cheap under terms only, or by a rate of the account's.
FewQuotes ==
    {Quote(unpriced, unpriced), Quote(1, 1), Quote(2, 2), Quote(2, 1), Quote(unpriced, 1)}
=============================================================================
