------------------------------- MODULE Catalog -------------------------------
(***************************************************************************)
(* The generated catalog of lzt-testnet: a listing of a category is a page *)
(* FakeGenerator draws once and copies for every request, which            *)
(* apply_query_filters folds until it honours the query, and which         *)
(* _prepend_injected heads with the lots pushed into the category by       *)
(* POST /testnet/inject-lot.  One poller watches the listings and compares *)
(* them with what it has seen before.                                      *)
(*                                                                         *)
(* An item keeps one field of each kind the filters tell apart: a price (a *)
(* number with a window), an origin (a string chosen or excluded) and a    *)
(* ban (a flag).  A query keeps the window of the price, the rules in the  *)
(* order the parameters came, and the ordering; a parameter that does not  *)
(* parse is one that is not there.                                         *)
(***************************************************************************)
EXTENDS Integers, Sequences, FiniteSets, SequencesExt

CONSTANTS
    Categories,      \* url segments with a listing
    Origins,         \* words of the origin of an item
    Drawn,           \* pages the generator may draw: sequences of items
    Queries,         \* queries clients send
    Pushed,          \* prices of the lots pushed into a listing
    GivenIds,        \* item ids pushers name: a drawn item's or the band's, too
    FirstMinted,     \* 900_000_001, the first id next_item_id returns
    MaxPushed        \* bound: ids minted, and lots of a category named by hand

VARIABLES
    sample,     \* FakeGenerator._samples: the page of a category, once drawn
    injected,   \* InjectionStore._by_category
    nextId,     \* InjectionStore._ids
    seen,       \* ids and prices the poller has noted, by category
    answer,     \* the last listing
    pushed,     \* category and id of the last pushed lot
    given       \* history: the ids pushers have named, resets included

cvars == <<sample, injected, nextId, seen, answer, pushed, given>>

\* An item of a page, and the type of a rule of a query.
ItemType == [id : Nat, price : Int, origin : Origins, ban : Nat]
RuleType == [name : {"origin", "not_origin", "no_vac"}, values : Seq(Origins)]

NotDrawn == <<>>
Plain    == [low |-> {}, high |-> {}, rules |-> <<>>, order |-> "none"]

ASSUME CatalogAssumption ==
    /\ FirstMinted \in Nat
    /\ MaxPushed \in Nat
    /\ Pushed \subseteq Int
    /\ "generated" \in Origins
    /\ Plain \in Queries
    /\ GivenIds \subseteq Nat

\* A drawn page has at least one item; ids are drawn at random from a range
\* below the minted band, wide enough that none is drawn twice.
ASSUME DrawnAssumption ==
    \A page \in Drawn :
        /\ page \in Seq(ItemType) /\ page # NotDrawn
        /\ \A k \in DOMAIN page : page[k].id < FirstMinted
        /\ \A j, k \in DOMAIN page : page[j].id = page[k].id => j = k

\* An end of a window is one number or not there; Starlette's mapping of the
\* parameters has each name once.
ASSUME QueryAssumption ==
    \A q \in Queries :
        /\ \A end \in {q.low, q.high} : end \subseteq Int /\ \A m, n \in end : m = n
        /\ q.rules \in Seq(RuleType)
        /\ \A j, k \in DOMAIN q.rules : q.rules[j].name = q.rules[k].name => j = k

Only(s) == CHOOSE x \in s : TRUE

-----------------------------------------------------------------------------
(* apply_query_filters *)

\* Mutant: the two ends of a window are folded one after the other.
FoldEachEnd(value, low, high) ==
    LET up == IF low # {} /\ value < Only(low) THEN Only(low) ELSE value
    IN IF high # {} /\ up > Only(high) THEN up % Only(high) ELSE up

\* _fold_into_window; low and high are empty or hold the one bound asked.
FoldIntoWindow(value, low, high) ==
    LET l == Only(low)
        h == Only(high)
    IN CASE low # {} /\ high # {} /\ h >= l -> l + (value % (h - l + 1))
         [] high # {} /\ ~(low # {} /\ h >= l) ->
               IF value <= h THEN value ELSE 1 + (value % (IF h > 1 THEN h ELSE 1))
         [] low # {} /\ high = {} ->
               IF value >= l THEN value ELSE l + (value % (IF l > 1 THEN l ELSE 1))
         [] OTHER -> value

\* One rule folds one field: _exact, _exclude and _flag_off.
Rule(item, rule) ==
    CASE rule.name = "origin" /\ rule.values # <<>> ->
            [item EXCEPT !.origin = Head(rule.values)]
      [] rule.name = "not_origin" /\ item.origin \in ToSet(rule.values) ->
            [item EXCEPT !.origin = "generated"]
      [] rule.name = "no_vac" -> [item EXCEPT !.ban = 0]
      [] OTHER -> item

Folded(item, query) ==
    FoldLeft(Rule,
             [item EXCEPT !.price = FoldIntoWindow(@, query.low, query.high)],
             query.rules)

\* list.sort: stable, ascending or descending by price.
Sorted(items, order) ==
    LET Before(j, k) == CASE order = "price_to_up"   -> items[j].price < items[k].price
                          [] order = "price_to_down" -> items[j].price > items[k].price
                          [] OTHER                   -> FALSE
        Rank(k) == Cardinality({j \in DOMAIN items :
                      Before(j, k) \/ (~Before(k, j) /\ j <= k)})
    IN [n \in DOMAIN items |-> items[CHOOSE k \in DOMAIN items : Rank(k) = n]]

\* Mutant: the page is put in order before its prices are folded.
FilteredSortedFirst(items, query) ==
    LET page == Sorted(items, query.order)
    IN [k \in DOMAIN items |-> Folded(page[k], query)]

Filtered(items, query) ==
    Sorted([k \in DOMAIN items |-> Folded(items[k], query)], query.order)

-----------------------------------------------------------------------------
(* _prepend_injected and the listing *)

Row(template, lot) == [template EXCEPT !.id = lot.id, !.price = lot.price]

Prepended(items, lots) ==
    [k \in DOMAIN lots |-> Row(Head(items), lots[k])] \o items

\* Mutant: the filters run over the injected lots, too.
ListingFilteredLast(page, query, lots) == Filtered(Prepended(page, lots), query)

Listing(page, query, lots) == Prepended(Filtered(page, query), lots)

Ids(items) == {items[k].id : k \in DOMAIN items}

\* What a poller, which asks for everything, has noted of a listing.
Noted(category, query, items) ==
    IF query = Plain
    THEN [seen EXCEPT ![category] = @ \cup
             {[id |-> items[k].id, price |-> items[k].price] : k \in DOMAIN items}]
    ELSE seen

\* FakeGenerator.build: a page is drawn once.
Pages(category) ==
    IF sample[category] = NotDrawn THEN Drawn ELSE {sample[category]}

Answered(category, query, items) ==
    /\ answer' = [category |-> category, query |-> query, items |-> items]
    /\ seen' = Noted(category, query, items)
    /\ UNCHANGED <<injected, nextId, pushed, given>>

\* Mutant: the filters fold the sample itself, not a copy of it (build and the
\* catch-all each make one: the mutant leaves out both).
RequestFoldsSample(category, query) ==
    \E page \in Pages(category) :
        /\ sample' = [sample EXCEPT ![category] = Filtered(page, query)]
        /\ Answered(category, query, Listing(page, query, injected[category]))

\* GET /<category>?<query>
Request(category, query) ==
    \E page \in Pages(category) :
        /\ sample' = [sample EXCEPT ![category] = page]
        /\ Answered(category, query, Listing(page, query, injected[category]))

NoListing == [category |-> "none", query |-> Plain, items |-> <<>>]

\* POST /testnet/inject-lot: with an id of its own, or the next one minted.
\* A push makes the last listing stale: it is forgotten.
Push(category, price, id) ==
    /\ injected' = [injected EXCEPT ![category] =
                       Append(@, [id |-> id, price |-> price])]
    /\ pushed' = [category |-> category, id |-> id]
    /\ answer' = NoListing
    /\ UNCHANGED <<sample, seen>>

InjectMinted(category, price) ==
    /\ nextId < FirstMinted + MaxPushed
    /\ nextId' = nextId + 1
    /\ Push(category, price, nextId)
    /\ UNCHANGED given

InjectGiven(category, price, id) ==
    /\ Len(injected[category]) < MaxPushed
    /\ given' = given \cup {id}
    /\ Push(category, price, id)
    /\ UNCHANGED nextId

\* Mutant: a reset makes a new store, with a new id counter.
ResetNewStore ==
    /\ injected' = [c \in Categories |-> <<>>]
    /\ nextId' = FirstMinted
    /\ answer' = NoListing
    /\ UNCHANGED <<sample, seen, pushed, given>>

\* InjectionStore.reset: the ids go on, the samples stay.
ResetInjected ==
    /\ injected' = [c \in Categories |-> <<>>]
    /\ answer' = NoListing
    /\ UNCHANGED <<sample, nextId, seen, pushed, given>>

-----------------------------------------------------------------------------
CInit ==
    /\ sample = [c \in Categories |-> NotDrawn]
    /\ injected = [c \in Categories |-> <<>>]
    /\ nextId = FirstMinted
    /\ seen = [c \in Categories |-> {}]
    /\ answer = NoListing
    /\ pushed = [category |-> "none", id |-> 0]
    /\ given = {}

CNext ==
    \/ \E c \in Categories, q \in Queries : Request(c, q)
    \/ \E c \in Categories, n \in Pushed : InjectMinted(c, n)
    \/ \E c \in Categories, n \in Pushed, id \in GivenIds : InjectGiven(c, n, id)
    \/ ResetInjected

CSpec == CInit /\ [][CNext]_cvars

-----------------------------------------------------------------------------
(* Properties *)

CTypeOK ==
    /\ \A c \in Categories : sample[c] = NotDrawn \/ sample[c] \in Drawn
    /\ nextId \in FirstMinted .. FirstMinted + MaxPushed
    /\ given \subseteq GivenIds

Asked   == answer.query
\* The rows of the last listing that were injected, and those of its own page.
Heading == IF answer = NoListing THEN 0 ELSE Len(injected[answer.category])
Own     == SubSeq(answer.items, Heading + 1, Len(answer.items))

InWindow(value, low, high) ==
    /\ \A l \in low : value >= l
    /\ \A h \in high : value <= h

\* A window no price can be in, or with the upper end at nought (see below).
Unsatisfiable(low, high) ==
    \/ \E h \in high : h < 1
    \/ \E l \in low, h \in high : h < l

Excluded(rules) ==
    UNION {ToSet(rules[k].values) : k \in {j \in DOMAIN rules : rules[j].name = "not_origin"}}
Demanded(rules) ==
    {Head(rules[k].values) : k \in {j \in DOMAIN rules :
                                     rules[j].name = "origin" /\ rules[j].values # <<>>}}

\* Rules that contradict each other, or exclude the word an excluded value is
\* replaced by.
Contradictory(rules) ==
    "generated" \in Excluded(rules) \/ Demanded(rules) \cap Excluded(rules) # {}

\* A filtered search returns only matching items: whatever the generator drew,
\* every item of its page honours the window, the exclusions and the flags of
\* the query together, if they do not contradict each other.
EveryItemHonoursTheQuery ==
    \A k \in DOMAIN Own :
        /\ Unsatisfiable(Asked.low, Asked.high)
              \/ InWindow(Own[k].price, Asked.low, Asked.high)
        /\ ~Contradictory(Asked.rules) =>
              /\ Own[k].origin \notin Excluded(Asked.rules)
              /\ \A o \in Demanded(Asked.rules) : Own[k].origin = o
        /\ (\E j \in DOMAIN Asked.rules : Asked.rules[j].name = "no_vac") => Own[k].ban = 0

InOrder(items, order) ==
    \A j, k \in DOMAIN items : j < k =>
        /\ order = "price_to_up"   => items[j].price <= items[k].price
        /\ order = "price_to_down" => items[j].price >= items[k].price

\* The generated page is in the order asked, by the prices it shows, and is
\* full: it shows each item drawn.
PageIsFullAndInOrder ==
    /\ InOrder(Own, Asked.order)
    /\ answer # NoListing => Ids(Own) = Ids(sample[answer.category])

\* A lot pushed into a category heads its listings with the price it was
\* pushed at, whatever was asked.
InjectedLotsHeadTheListing ==
    answer # NoListing =>
        [k \in 1 .. Heading |-> [id |-> answer.items[k].id, price |-> answer.items[k].price]]
            = injected[answer.category]

\* Every listing of a category is the same forever: whatever other clients
\* filter for in between, a poller never sees a generated item change - unless
\* somebody pushed a lot under the item's own id.
PollerSeesAStableWorld ==
    \A c \in Categories : \A one, two \in seen[c] :
        one.id = two.id /\ one.id \in Ids(sample[c]) \ given => one = two

\* A lot that gets the next minted id is news, after a reset, too: the poller
\* has seen that id in no category, and cannot take the lot for an old one.
\* The ids pushers have named are excepted: they may lie in the minted band,
\* and next_item_id does not skip them.
InjectedLotIsNews ==
    [][nextId' > nextId /\ pushed'.id \notin given =>
          \A c \in Categories : \A row \in seen[c] : row.id # pushed'.id]_cvars

-----------------------------------------------------------------------------
(* What comments of the repository say, and the code does not *)

\* fake/query_filters.py: every item honours the query - with pmax=0, too.
PriceNeverAboveMax ==
    \A k \in DOMAIN Own : \A h \in Asked.high : Own[k].price <= h

=============================================================================
