----------------------------- MODULE MCLotMarket -----------------------------
(* Small instances of LotMarket for TLC: an honest seller and a SPAM one,    *)
(* one or two slots of one category, none or one lot created by a user.      *)
EXTENDS LotMarket

CONSTANTS alice, mallory

MCTokens     == {alice, mallory}
MCSpamTokens == {mallory}
MCCategories == {"steam"}

\* Arbitrary ids above the small ones; the first slot is the SPAM seller's.
MCStableId == [s \in Categories \X Indices |-> 101 + s[2]]
MCWorldLot ==
    [i \in WorldIds |->
        [seller |-> IF i = 101 THEN mallory ELSE alice, price |-> "p1"]]

\* What a step depends on.  No step reads the last answer: states that differ
\* in nothing else have the same steps, and TLC keeps one of them.
MarketView == <<stores, revoked, nextLot, nextPayment, ticks>>
=============================================================================
