------------------------------ MODULE MCCatalog ------------------------------
(* Pages of two and three items over prices below, in and above the windows   *)
(* asked, and queries that combine a window, two rules and an order.         *)
EXTENDS Catalog, TLC

Item(n, price, origin, ban) ==
    [id |-> n, price |-> price, origin |-> origin, ban |-> ban]

MCDrawn ==
    {<<Item(1, 9, "brute", 1), Item(2, 3, "stealer", 0)>>,
     <<Item(1, 9, "brute", 1), Item(2, 6, "brute", 0), Item(3, 0, "self", 1)>>}

Windows == {<<{}, {}>>, <<{4}, {}>>, <<{}, {4}>>, <<{}, {1}>>, <<{4}, {5}>>,
            <<{5}, {5}>>, <<{5}, {4}>>}

MCRules ==
    {<<>>,
     <<[name |-> "not_origin", values |-> <<"brute", "stealer">>],
       [name |-> "origin", values |-> <<"self">>]>>,
     <<[name |-> "origin", values |-> <<"brute">>],
       [name |-> "not_origin", values |-> <<"brute">>]>>}

Query(low, high, rules, order) ==
    [low |-> low, high |-> high, rules |-> rules, order |-> order]

Exclude == <<[name |-> "not_origin", values |-> <<"brute", "stealer">>],
             [name |-> "no_vac", values |-> <<>>]>>

\* Every window with the rules, both orders, every rule with no window.
MCQueries ==
    {Query(w[1], w[2], Exclude, "price_to_up") : w \in Windows} \cup
    {Query({4}, {5}, <<>>, "price_to_down")} \cup
    {Query({}, {}, r, "none") : r \in MCRules}

\* No guard, no invariant and no assignment of another variable reads pushed;
\* an action property is evaluated on a step before its state is merged.
CatalogView == <<sample, injected, nextId, seen, answer, given>>

\* Nothing tells one category from another.
CategorySymmetry == Permutations(Categories)

\* For the run about the upper end at nought.
ZeroQueries == {Plain, [Plain EXCEPT !.high = {0}]}
=============================================================================
