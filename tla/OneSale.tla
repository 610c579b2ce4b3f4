------------------------------- MODULE OneSale -------------------------------
(***************************************************************************)
(* What the market of lzt-testnet promises, with none of its machinery: a  *)
(* lot is offered, may be repriced while it is on sale, and is sold at     *)
(* most once.  A sale leaves a receipt for the price that was asked, or -  *)
(* the deliberate reconcile trap of the code - none at all.  A sold lot is *)
(* never offered again, until a reset forgets everything.                  *)
(***************************************************************************)
EXTENDS Naturals

CONSTANTS Items, Buyers, Asks

VARIABLES
    asking,    \* lots on sale, with the price asked
    sold,      \* lots sold since the reset
    receipts   \* what buyers can show for them

vars == <<asking, sold, receipts>>

Init ==
    /\ asking = [i \in {} |-> i]
    /\ sold = {}
    /\ receipts = {}

\* Several lots may come on sale at once (a page of the lazy listing).
Offer ==
    /\ \E more \in SUBSET (Items \ (sold \cup DOMAIN asking)) :
          \E ask \in [more -> Asks] :
             asking' = [i \in DOMAIN asking \cup more |->
                           IF i \in more THEN ask[i] ELSE asking[i]]
    /\ UNCHANGED <<sold, receipts>>

Reprice(i, ask) ==
    /\ i \in DOMAIN asking
    /\ asking' = [asking EXCEPT ![i] = ask]
    /\ UNCHANGED <<sold, receipts>>

Take(i) ==
    /\ i \in DOMAIN asking
    /\ asking' = [j \in DOMAIN asking \ {i} |-> asking[j]]
    /\ sold' = sold \cup {i}

Sell(i, b) ==
    /\ Take(i)
    /\ receipts' = receipts \cup
           {[item |-> i, buyer |-> b, amount |-> asking[i]]}

SellWithoutReceipt(i) ==
    /\ Take(i)
    /\ UNCHANGED receipts

Forget ==
    /\ asking' = [i \in {} |-> i]
    /\ sold' = {}
    /\ receipts' = {}

Next ==
    \/ Offer
    \/ \E i \in Items, ask \in Asks : Reprice(i, ask)
    \/ \E i \in Items, b \in Buyers : Sell(i, b)
    \/ \E i \in Items : SellWithoutReceipt(i)
    \/ Forget

Spec == Init /\ [][Next]_vars

=============================================================================
