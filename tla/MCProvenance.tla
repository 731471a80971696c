---------------------------- MODULE MCProvenance ----------------------------
(* A small instance of Provenance for TLC. *)
EXTENDS Provenance

CONSTANTS e1, primary, retry, fallback, USD, EUR

Number == [a \in Attempts |-> IF a = primary THEN 1 ELSE IF a = retry THEN 2 ELSE 3]
Kind == [a \in Attempts |-> IF a = primary THEN "PRIMARY"
                            ELSE IF a = retry THEN "RETRY" ELSE "FALLBACK"]

Reported == [tokens |-> 1, amount |-> 1, currency |-> USD]
InEuro == [tokens |-> 1, amount |-> 1, currency |-> EUR]
Unreported == [tokens |-> NULL, amount |-> NULL, currency |-> NULL]
InDollars == {Reported, Unreported}
SomeUsages == {Reported, InEuro, Unreported}
=============================================================================
