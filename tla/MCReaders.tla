------------------------------ MODULE MCReaders ------------------------------
(* Small instances of Readers for TLC: an honest seller and a SPAM one, one  *)
(* slot of one category, one lot created by a user, pages of none to two.    *)
EXTENDS Readers

CONSTANTS alice, mallory

MCTokens     == {alice, mallory}
MCSpamTokens == {mallory}
MCCategories == {"steam"}

\* Arbitrary ids above the small ones; the first slot is the SPAM seller's.
MCStableId == [s \in Categories \X Indices |-> 101 + s[2]]
MCWorldLot ==
    [i \in WorldIds |->
        [seller |-> IF i = 101 THEN mallory ELSE alice, price |-> "p1"]]

\* What a step depends on.  No step reads the last answer, a price or a date:
\* states that differ in nothing else have the same steps, and TLC keeps one.
ReaderView ==
    <<[i \in DOMAIN lots |-> lots[i].seller],
      [k \in DOMAIN payments |->
          [payments[k] EXCEPT !.amount = NoPrice]],
      bought, charged, revoked, nextLot, nextPayment, ticks, walk>>
=============================================================================
