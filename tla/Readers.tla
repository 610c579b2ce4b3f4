------------------------------- MODULE Readers -------------------------------
(***************************************************************************)
(* A client that walks GET /lots or GET /payments while the market goes    *)
(* on.  It asks for page after page with the id of the last row it was     *)
(* shown as the cursor, and stops at the first page that is not full: the  *)
(* routes throw the next_cursor of the stores away, so a client has        *)
(* nothing else to go by.                                                  *)
(***************************************************************************)
EXTENDS LotMarket

CONSTANTS
    AnySeller,       \* GET /lots without the seller_token parameter
    Limits           \* values of the limit parameter the client sends

ASSUME ReaderAssumption ==
    /\ Limits \subseteq Nat
    /\ AnySeller \notin Tokens

VARIABLE walk

rvars == <<vars, walk>>

NoCursor == 0        \* below every id

\* A walk: the route, whose rows it asks for, the cursor, the rows seen, and
\* what the client cannot know: the lots that have been listed all along.
Idle == [of |-> "nothing", who |-> AnySeller, cursor |-> NoCursor,
         seen |-> {}, stayed |-> {}]

Reading == walk.of # "nothing"

\* The lots and the payments that pass the filters of the two routes.
OnSale(who)    == {i \in DOMAIN lots : who \in {AnySeller, lots[i].seller}}
PaymentsOf(who) == {k \in DOMAIN payments : payments[k].account = who}

LotRow(i)     == [id |-> i, item |-> i]
PaymentRow(k) == [id |-> payments[k].op, item |-> payments[k].item]

Rows == IF walk.of = "lots" THEN {LotRow(i) : i \in OnSale(walk.who)}
        ELSE {PaymentRow(k) : k \in PaymentsOf(walk.who)}

\* page = the first limit of rows, by id
IsHead(page, rows, limit) ==
    /\ page \subseteq rows
    /\ \A r \in page, s \in rows : s.id < r.id => s \in page
    /\ \/ Cardinality(page) = limit
       \/ Cardinality(page) < limit /\ page = rows

\* Mutants: the cursor drops rows from the page instead of from the listing;
\* the row at the cursor is served again.
IsPageCutFirst(page, limit) ==
    \E head \in SUBSET Rows :
        IsHead(head, Rows, limit) /\ page = {r \in head : r.id > walk.cursor}

IsPageInclusive(page, limit) ==
    IsHead(page, {r \in Rows : r.id >= walk.cursor}, limit)

\* LotStore.list and PaymentStore.list: filter, sort by id, drop what is not
\* above the cursor, cut at limit.
IsPage(page, limit) == IsHead(page, {r \in Rows : r.id > walk.cursor}, limit)

-----------------------------------------------------------------------------
Begin(of, who) ==
    /\ ~Reading
    /\ of = "payments" => who # AnySeller
    /\ walk' = [Idle EXCEPT !.of = of, !.who = who,
                            !.stayed = IF of = "lots" THEN OnSale(who) ELSE {}]
    /\ UNCHANGED vars

\* GET /payments reads the caller's token, GET /lots needs none.
Caller == IF walk.of = "payments" THEN walk.who ELSE NoToken

Served(page, limit) ==
    /\ Reading
    /\ limit > 0
    /\ IsPage(page, limit)
    /\ Reply(walk.of, Caller, NoItem, 200, "none")
    /\ UNCHANGED <<stores, revoked, nextLot, nextPayment, ticks>>

FullPage(page, limit) ==
    /\ Served(page, limit)
    /\ Cardinality(page) = limit
    /\ \E last \in page :
          /\ \A r \in page : r.id <= last.id
          /\ walk' = [walk EXCEPT !.cursor = last.id, !.seen = @ \cup page]

LastPage(page, limit) ==
    /\ Served(page, limit)
    /\ Cardinality(page) < limit
    /\ walk' = Idle

\* A forced error; or limit=0, for which the stores index an empty page.
ListRefused(limit, force) ==
    /\ Reading
    /\ \/ Forced(walk.of, Caller, NoItem, force)
       \/ /\ Unforced(force)
          /\ limit = 0
          /\ Refuse(walk.of, Caller, NoItem, 500)
    /\ UNCHANGED walk

\* A write, or another client's read, under the walk.
Meanwhile ==
    /\ Next
    /\ walk' = [walk EXCEPT !.stayed = @ \cap DOMAIN lots']

RInit == Init /\ walk = Idle

RNext ==
    \/ \E of \in {"lots", "payments"}, t \in Tokens \cup {AnySeller} : Begin(of, t)
    \/ \E page \in SUBSET Rows, n \in Limits :
          FullPage(page, n) \/ LastPage(page, n)
    \/ \E n \in Limits, h \in ForceHeaders : ListRefused(n, h)
    \/ Meanwhile

RSpec == RInit /\ [][RNext]_rvars

-----------------------------------------------------------------------------
(* Properties *)

SeenWith(page) == walk.seen \cup page

\* A client that walks the market sees every lot that was on sale from its
\* first request to its last, whatever is created, bought, bumped and
\* materialized in between, in the band of small ids or in that of the world.
LotsWalkShowsWhatStayed ==
    [][\A page \in SUBSET Rows, n \in Limits :
          LastPage(page, n) /\ walk.of = "lots" =>
              {LotRow(i) : i \in walk.stayed} \subseteq SeenWith(page)]_rvars

\* A client that walks its payments has seen, when the walk ends, every
\* payment the ledger holds for it: none is recorded behind its cursor, not
\* even those made after a reset that emptied the ledger under the walk.
PaymentsWalkMissesNothing ==
    [][\A page \in SUBSET Rows, n \in Limits :
          LastPage(page, n) /\ walk.of = "payments" =>
              {PaymentRow(k) : k \in PaymentsOf(walk.who)} \subseteq
                  SeenWith(page)]_rvars

\* No row comes twice and none comes late: each page is wholly above all that
\* was seen, so the cursor a client takes from a page never moves back.
SeenOnceInOrder ==
    [][\A page \in SUBSET Rows, n \in Limits :
          FullPage(page, n) \/ LastPage(page, n) =>
              \A r \in page, s \in walk.seen : s.id < r.id]_rvars

=============================================================================
