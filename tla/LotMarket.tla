------------------------------ MODULE LotMarket ------------------------------
(***************************************************************************)
(* The stateful market of lzt-testnet: LotStore, PaymentStore and          *)
(* ScenarioStore, the id counters of SeedController, the tick counters of  *)
(* the domain faults, and every handler that reads or writes them          *)
(* (api/stateful.py, the lot routes of api/forum.py, the market part of    *)
(* api/control.py).                                                        *)
(*                                                                         *)
(* A handler runs on one event loop and awaits nothing between its first   *)
(* read and its last write, so it is one action.  What surrounds it - the  *)
(* chaos middleware, which does await - is module Gauntlet.                *)
(*                                                                         *)
(* A lot is the part of LotRecord the handlers act on: seller, price and   *)
(* published_at ("base" for the constant a world lot is born with, "now"   *)
(* for a clock reading).  An answer (variable resp) is the route, the      *)
(* caller, the lot, the HTTP status and a note: the domain outcome the buy *)
(* resolved, or the verdict of a lot check.                                *)
(***************************************************************************)
EXTENDS Naturals, Sequences, FiniteSets, Faults

CONSTANTS
    Tokens,          \* bearer tokens; sellers of the world roster included
    SpamTokens,      \* tokens of roster sellers whose quality is SPAM
    NoToken,         \* a request that carries no token
    Prices,          \* non-empty price strings
    NoPrice,         \* the empty price string
    Categories,      \* categories of the world's lazy listing
    Indices,         \* slot indices of the lazy listing
    StableId,        \* Materializer.stable_id, by category and index
    WorldLot,        \* seller and price _materialize draws for an id
    TransientCount,  \* retry_storm: transient answers before it converges
    DelayTicks,      \* delayed_settlement: pending answers before it settles
    Armed,           \* domain faults the fault planner may choose for a buy
    ForceHeaders,    \* values of X-Testnet-Force-Error clients send
    MaxLots,         \* bound: lots created through POST /lots
    MaxPayments      \* bound: payments recorded

WorldIds == {StableId[s] : s \in Categories \X Indices}
Items    == 1 .. MaxLots \cup WorldIds

ASSUME TokenAssumption ==
    /\ SpamTokens \subseteq Tokens
    /\ NoToken \notin Tokens
    /\ NoPrice \notin Prices

ASSUME ArmedAssumption == Armed \subseteq DomainFaults

ASSUME BoundAssumption ==
    /\ MaxLots \in Nat
    /\ MaxPayments \in Nat
    /\ TransientCount \in Nat
    /\ DelayTicks \in Nat
    /\ Indices \subseteq Nat

\* stable_id is 48 bits of a digest; its docstring claims that at world scale
\* it is collision-free and above every id next_id mints.
ASSUME StableIdAssumption ==
    /\ StableId \in [Categories \X Indices -> Nat]
    /\ \A s, t \in Categories \X Indices : StableId[s] = StableId[t] => s = t
    /\ \A i \in WorldIds : i > MaxLots

ASSUME WorldLotAssumption ==
    WorldLot \in [WorldIds -> [seller : Tokens, price : Prices]]

VARIABLES
    lots,         \* LotStore._records: item id -> lot
    payments,     \* PaymentStore._records
    bought,       \* ScenarioStore.bought_item_ids
    revoked,      \* ScenarioStore.revoked_tokens
    nextLot,      \* SeedController._ids[LOT]: the id next_id returns next
    nextPayment,  \* SeedController._ids[PAYMENT]
    ticks,        \* app.state.chaos_counters
    charged,      \* history: lots taken by charge_then_fail since the reset
    resp          \* the last answer

stores == <<lots, payments, bought, charged>>
vars   == <<lots, payments, bought, revoked, nextLot, nextPayment, ticks,
            charged, resp>>

Lot     == [seller : Tokens, price : Prices \cup {NoPrice},
            published : {"base", "now"}]
Payment == [op : Nat, account : Tokens, item : Nat,
            amount : Prices \cup {NoPrice}]

-----------------------------------------------------------------------------
(* Answers *)

NoItem == 0

Reply(route, token, item, status, note) ==
    resp' = [route |-> route, token |-> token, item |-> item,
             status |-> status, note |-> note]

\* Mutant: the forced error is raised below the writes of the buy.
ForcedTooLate(route, token, item, force) ==
    /\ force \in DOMAIN ForcedStatus
    /\ Reply(route, token, item, ForcedStatus[force], "none")
    /\ bought' = IF route = "buy" THEN bought \cup {item} ELSE bought
    /\ UNCHANGED <<lots, payments, charged, revoked, nextLot, nextPayment,
                   ticks>>

Forced(route, token, item, force) ==
    /\ force \in DOMAIN ForcedStatus
    /\ Reply(route, token, item, ForcedStatus[force], "none")
    /\ UNCHANGED <<stores, revoked, nextLot, nextPayment, ticks>>

Unforced(force) == force \notin DOMAIN ForcedStatus

Refuse(route, token, item, status) ==
    /\ Reply(route, token, item, status, "none")
    /\ UNCHANGED <<stores, revoked, nextLot, nextPayment, ticks>>

-----------------------------------------------------------------------------
(* POST /lots, /lots/{id}/bump, /lots/{id}/price *)

Put(item, lot) ==
    lots' = [i \in DOMAIN lots \cup {item} |->
                 IF i = item THEN lot ELSE lots[i]]

CreateLot(token, price, force) ==
    \/ Forced("create", token, NoItem, force)
    \/ /\ Unforced(force)
       /\ nextLot <= MaxLots
       /\ nextLot' = nextLot + 1
       /\ Put(nextLot, [seller |-> token, price |-> price,
                        published |-> "now"])
       /\ Reply("create", token, nextLot, 200, "none")
       /\ UNCHANGED <<payments, bought, charged, revoked, nextPayment, ticks>>

\* Mutant: any token may edit any lot.
OwnedByAnyone(item, token) == item \in DOMAIN lots

Owned(item, token) == item \in DOMAIN lots /\ lots[item].seller = token

Bump(token, item, force) ==
    \/ Forced("bump", token, item, force)
    \/ /\ Unforced(force)
       /\ ~Owned(item, token)
       /\ Refuse("bump", token, item, 404)
    \/ /\ Unforced(force)
       /\ Owned(item, token)
       /\ Put(item, [lots[item] EXCEPT !.published = "now"])
       /\ Reply("bump", token, item, 200, "none")
       /\ UNCHANGED <<payments, bought, charged, revoked, nextLot,
                      nextPayment, ticks>>

SetPrice(token, item, price, force) ==
    \/ Forced("price", token, item, force)
    \/ /\ Unforced(force)
       /\ price = NoPrice
       /\ Refuse("price", token, item, 400)
    \/ /\ Unforced(force)
       /\ price # NoPrice
       /\ ~Owned(item, token)
       /\ Refuse("price", token, item, 404)
    \/ /\ Unforced(force)
       /\ price # NoPrice
       /\ Owned(item, token)
       /\ Put(item, [lots[item] EXCEPT !.price = price])
       /\ Reply("price", token, item, 200, "none")
       /\ UNCHANGED <<payments, bought, charged, revoked, nextLot,
                      nextPayment, ticks>>

-----------------------------------------------------------------------------
(* The domain faults: which outcome a buy gets, and the tick it advances *)

\* The faults that count, and how many calls the count is compared with.
TickLimit == [already_sold |-> 1, retry_storm |-> TransientCount,
              delayed_settlement |-> DelayTicks]

\* Mutant: the tick runs backwards.
TickBack(fault, item) ==
    IF fault \in DOMAIN TickLimit
    THEN ticks' = [ticks EXCEPT ![fault][item] = @ - 1]
    ELSE UNCHANGED ticks

\* Only seen < limit is ever tested, so a counter stops at its limit.
Tick(fault, item) ==
    IF fault \in DOMAIN TickLimit /\ ticks[fault][item] < TickLimit[fault]
    THEN ticks' = [ticks EXCEPT ![fault][item] = @ + 1]
    ELSE UNCHANGED ticks

\* Mutant: seen <= limit where the code has seen < limit.
SpentTooLate(fault, item) == ticks[fault][item] > TickLimit[fault]

Spent(fault, item) == ticks[fault][item] >= TickLimit[fault]

\* maybe_inject.  already_sold lets the first call proceed; the other two
\* counters let every call proceed once the transient ones are spent.
Outcome(fault, item) ==
    CASE fault \in {"account_invalid", "bad_lot_check"} -> "fail_invalid"
      [] fault = "charge_then_fail" -> "charge_then_fail"
      [] fault = "already_sold" /\ Spent(fault, item) -> "already_sold"
      [] fault = "retry_storm" /\ ~Spent(fault, item) -> "transient_retry"
      [] fault = "delayed_settlement" /\ ~Spent(fault, item) -> "pending"
      [] OTHER -> "proceed"

\* The outcomes that leave the lot where it is, with the answer they give.
KeepsLot == [already_sold |-> 404, transient_retry |-> 429, pending |-> 200]

-----------------------------------------------------------------------------
(* POST /lots/{id}/buy *)

Available(item) == item \in DOMAIN lots /\ item \notin bought

\* Mutants: the buy forgets mark_bought; the buy forgets lot_store.delete.
ConsumeUnmarked(item) ==
    /\ lots' = [i \in DOMAIN lots \ {item} |-> lots[i]]
    /\ UNCHANGED bought

ConsumeUndeleted(item) ==
    /\ UNCHANGED lots
    /\ bought' = bought \cup {item}

Consume(item) ==
    /\ lots' = [i \in DOMAIN lots \ {item} |-> lots[i]]
    /\ bought' = bought \cup {item}

\* Mutants: the payment is booked on the seller's account; the operation id
\* is read but not advanced.
ChargeSeller(token, item) ==
    /\ nextPayment <= MaxPayments
    /\ nextPayment' = nextPayment + 1
    /\ payments' = Append(payments,
           [op |-> nextPayment, account |-> lots[item].seller, item |-> item,
            amount |-> lots[item].price])

ChargeSameId(token, item) ==
    /\ nextPayment <= MaxPayments
    /\ UNCHANGED nextPayment
    /\ Len(payments) < MaxPayments
    /\ payments' = Append(payments,
           [op |-> nextPayment, account |-> token, item |-> item,
            amount |-> lots[item].price])

Charge(token, item) ==
    /\ nextPayment <= MaxPayments
    /\ nextPayment' = nextPayment + 1
    /\ payments' = Append(payments,
           [op |-> nextPayment, account |-> token, item |-> item,
            amount |-> lots[item].price])

FastBuy(token, item, fault, force) ==
    \/ Forced("buy", token, item, force)
    \/ /\ Unforced(force)
       /\ ~Available(item)
       /\ Refuse("buy", token, item, 404)
    \/ /\ Unforced(force)
       /\ Available(item)
       /\ Outcome(fault, item) \in DOMAIN KeepsLot
       /\ Tick(fault, item)
       /\ Reply("buy", token, item, KeepsLot[Outcome(fault, item)],
                Outcome(fault, item))
       /\ UNCHANGED <<stores, revoked, nextLot, nextPayment>>
    \/ /\ Unforced(force)
       /\ Available(item)
       /\ Outcome(fault, item) = "charge_then_fail"
       /\ Consume(item)
       /\ charged' = charged \cup {item}
       /\ Reply("buy", token, item, 402, "charge_then_fail")
       /\ UNCHANGED <<payments, revoked, nextLot, nextPayment, ticks>>
    \/ /\ Unforced(force)
       /\ Available(item)
       /\ Outcome(fault, item) \in {"proceed", "fail_invalid"}
       /\ Tick(fault, item)
       /\ Consume(item)
       /\ Charge(token, item)
       /\ Reply("buy", token, item, 200, Outcome(fault, item))
       /\ UNCHANGED <<charged, revoked, nextLot>>

-----------------------------------------------------------------------------
(* GET /testnet/world/lots and /testnet/world/lots/{id}/check *)

\* Mutant: a slot whose lot is gone from the store is materialized again.
PageIdsSoldToo(category, first, last) ==
    {StableId[<<category, n>>] : n \in {k \in Indices : first <= k /\ k <= last}}

\* The ids of slots first .. last of a category (limit = last - first + 1)
\* that a page shows: bought slots are skipped.
PageIds(category, first, last) ==
    {StableId[<<category, n>>] :
        n \in {k \in Indices : first <= k /\ k <= last}} \ bought

Materialized(item) ==
    [seller |-> WorldLot[item].seller, price |-> WorldLot[item].price,
     published |-> "base"]

\* Stored lots are served as they are, the others materialized and stored.
WorldPage(category, first, last) ==
    /\ lots' = [i \in DOMAIN lots \cup PageIds(category, first, last) |->
                   IF i \in DOMAIN lots THEN lots[i] ELSE Materialized(i)]
    /\ Reply("page", NoToken, NoItem, 200, "none")
    /\ UNCHANGED <<payments, bought, charged, revoked, nextLot,
                   nextPayment, ticks>>

LotCheckFails(item) ==
    item \in DOMAIN lots /\ lots[item].seller \in SpamTokens

CheckLot(item) ==
    /\ Reply("check", NoToken, item, 200,
             IF LotCheckFails(item) THEN "invalid" ELSE "valid")
    /\ UNCHANGED <<stores, revoked, nextLot, nextPayment, ticks>>

-----------------------------------------------------------------------------
(* The generic catalog route, and the control plane *)

CatchAll(token, force) ==
    \/ Forced("catalog", token, NoItem, force)
    \/ /\ Unforced(force)
       /\ Refuse("catalog", token, NoItem,
                 IF token \in revoked THEN 401 ELSE 200)

RevokeToken(token) ==
    /\ revoked' = revoked \cup {token}
    /\ Reply("revoke", token, NoItem, 200, "none")
    /\ UNCHANGED <<stores, nextLot, nextPayment, ticks>>

\* Mutant: a reset starts the operation ids again.
ResetRestartsIds ==
    /\ lots' = [i \in {} |-> i]
    /\ payments' = <<>>
    /\ bought' = {}
    /\ revoked' = {}
    /\ charged' = {}
    /\ nextPayment' = 1
    /\ Reply("reset", NoToken, NoItem, 200, "none")
    /\ UNCHANGED <<nextLot, ticks>>

\* The id counters and the ticks are not among the things a reset clears.
ResetState ==
    /\ lots' = [i \in {} |-> i]
    /\ payments' = <<>>
    /\ bought' = {}
    /\ revoked' = {}
    /\ charged' = {}
    /\ Reply("reset", NoToken, NoItem, 200, "none")
    /\ UNCHANGED <<nextLot, nextPayment, ticks>>

-----------------------------------------------------------------------------
Init ==
    /\ lots = [i \in {} |-> i]
    /\ payments = <<>>
    /\ bought = {}
    /\ revoked = {}
    /\ nextLot = 1
    /\ nextPayment = 1
    /\ ticks = [f \in DOMAIN TickLimit |-> [i \in Items |-> 0]]
    /\ charged = {}
    /\ resp = [route |-> "none", token |-> NoToken, item |-> NoItem,
               status |-> 200, note |-> "none"]

Next ==
    \/ \E t \in Tokens, p \in Prices \cup {NoPrice}, h \in ForceHeaders :
          CreateLot(t, p, h)
    \/ \E t \in Tokens, i \in Items, h \in ForceHeaders : Bump(t, i, h)
    \/ \E t \in Tokens, i \in Items, p \in Prices \cup {NoPrice},
          h \in ForceHeaders : SetPrice(t, i, p, h)
    \/ \E t \in Tokens, i \in Items, f \in Armed \cup {NoFault},
          h \in ForceHeaders : FastBuy(t, i, f, h)
    \/ \E c \in Categories, a, b \in Indices : WorldPage(c, a, b)
    \/ \E i \in Items : CheckLot(i)
    \/ \E t \in Tokens, h \in ForceHeaders : CatchAll(t, h)
    \/ \E t \in Tokens : RevokeToken(t)
    \/ ResetState

Spec == Init /\ [][Next]_vars

-----------------------------------------------------------------------------
(* Properties *)

Notes == {"none", "valid", "invalid", "proceed", "fail_invalid",
          "charge_then_fail"} \cup DOMAIN KeepsLot

Routes == {"none", "create", "bump", "price", "buy", "page", "check",
           "catalog", "revoke", "reset", "lots", "payments"}

\* Every store holds what its record type says, and the lots carry ids that
\* next_id has handed out or that belong to the world.
TypeOK ==
    /\ DOMAIN lots \subseteq Items
    /\ \A i \in DOMAIN lots : lots[i] \in Lot
    /\ payments \in Seq(Payment)
    /\ bought \subseteq Items
    /\ charged \subseteq Items
    /\ revoked \subseteq Tokens
    /\ nextLot \in Nat \ {0}
    /\ nextPayment \in Nat \ {0}
    /\ ticks \in [DOMAIN TickLimit -> [Items -> Nat]]
    /\ resp \in [route : Routes, token : Tokens \cup {NoToken},
                 item : Nat, status : Nat, note : Notes]

\* A bought lot is in no listing: neither the buy handler's failure paths nor
\* a world page materializing the slot again puts a sold account back on sale.
NothingSoldIsOnSale == DOMAIN lots \cap bought = {}

Paid == {payments[k].item : k \in DOMAIN payments}

\* Since the last reset each bought lot has left exactly one trace: one
\* payment, or one charge_then_fail.  No lot is paid for twice, none that was
\* paid for can still be bought, none was taken by both paths.
OneTracePerSale ==
    /\ bought = Paid \cup charged
    /\ Paid \cap charged = {}
    /\ \A k, l \in DOMAIN payments :
          payments[k].item = payments[l].item => k = l

\* The ledger is in operation-id order and ids are unique, so the cursor of
\* GET /payments, which sorts by that id, walks it in the order of purchase.
LedgerAscends ==
    /\ \A k, l \in DOMAIN payments : k < l => payments[k].op < payments[l].op
    /\ \A k \in DOMAIN payments : payments[k].op < nextPayment

\* What a lot says is changed by nobody but its seller: a page that serves a
\* stored lot, a refused request or another token's call leaves it as it was.
OnlyItsSellerChangesALot ==
    [][\A i \in DOMAIN lots \cap DOMAIN lots' :
          lots'[i] # lots[i] =>
              /\ resp'.route \in {"bump", "price"}
              /\ resp'.item = i
              /\ resp'.token = lots[i].seller]_vars

Transient == {429, 500}

\* An answer a client retries after (429, 5xx) took nothing, recorded nothing
\* and changed no lot: a retry of the same call starts from the same market.
TransientAnswerIsHarmless ==
    [][resp'.status \in Transient => UNCHANGED <<stores, nextPayment>>]_vars

\* The market is a seller that sells each lot once: every step is a step of
\* the abstract specification OneSale, or changes nothing it speaks of.
Sale == INSTANCE OneSale WITH
            Buyers   <- Tokens,
            Asks     <- Prices \cup {NoPrice},
            asking   <- [i \in DOMAIN lots |-> lots[i].price],
            sold     <- bought,
            receipts <- {[item   |-> payments[k].item,
                          buyer  |-> payments[k].account,
                          amount |-> payments[k].amount] :
                             k \in DOMAIN payments}

\* What a client takes for a purchase: a 200 of the buy that is not "pending".
SaleTold(item, buyer) ==
    /\ resp.route = "buy" /\ resp.item = item /\ resp.token = buyer
    /\ resp.status = 200 /\ resp.note # "pending"

\* A listed lot is sold at most once, at the price it asks; until a reset it
\* never comes back on sale.  A caller is told of a purchase in the step that
\* makes out its receipt to that caller and in no other, and a sale with no
\* receipt is answered as a failed payment.
SellsEachLotOnce ==
    /\ Sale!Spec
    /\ [][\A i \in Items :
             /\ \A b \in Tokens : Sale!Sell(i, b) <=> SaleTold(i, b)'
             /\ Sale!SellWithoutReceipt(i) =>
                   resp'.route = "buy" /\ resp'.item = i /\ resp'.status = 402]_vars

-----------------------------------------------------------------------------
(* What comments and documents of the repository say, and the code does not *)

\* chaos/domain.py: already_sold lets the first buyer win, "every later one is
\* sold out".  So a lot answered "sold out" has a buyer.
SoldOutHasAWinner == resp.note = "already_sold" => resp.item \in bought

\* README: after revoke-token "every later request with that token" is a 401.
RevokedTokenGets401 ==
    resp.token \in revoked /\ resp.route # "revoke" => resp.status = 401

=============================================================================
