---------------------------- MODULE OneSaleProofs ----------------------------
(***************************************************************************)
(* LotMarket implements OneSale: every step of the handlers is a step of   *)
(* the abstract market, or changes nothing the abstract market speaks of.  *)
(***************************************************************************)
EXTENDS LotMarketProofs

\* The refinement mapping of SellsEachLotOnce.
Asking   == [i \in DOMAIN lots |-> lots[i].price]
Receipts == {[item   |-> payments[k].item,
              buyer  |-> payments[k].account,
              amount |-> payments[k].amount] : k \in DOMAIN payments}

\* An empty market offers nothing and has sold nothing.
LEMMA SaleInit == Init => Sale!Init
<1> SUFFICES ASSUME Init PROVE Sale!Init
  OBVIOUS
<1>1. Asking = [i \in {} |-> i]
  BY DEF Init, Asking
<1>2. Receipts = {}
  <2>1. DOMAIN payments = {}
    BY DEF Init
  <2>2. QED
    BY <2>1 DEF Receipts
<1>3. QED
  BY <1>1, <1>2 DEF Init, Sale!Init, Asking, Receipts

\* A step that leaves prices, sales and ledger alone is a stutter.
LEMMA SaleStutter ==
    ASSUME Asking' = Asking, UNCHANGED <<bought, payments>>
    PROVE  UNCHANGED Sale!vars
BY DEF Sale!vars, Asking, Receipts

\* Putting lots on sale that are neither on sale nor sold is an offer.
LEMMA SaleOffer ==
    ASSUME NEW more \in SUBSET Items, more \cap (bought \cup DOMAIN lots) = {},
           DOMAIN lots' = DOMAIN lots \cup more,
           \A i \in DOMAIN lots : lots'[i] = lots[i],
           \A i \in more : lots'[i].price \in Prices \cup {NoPrice},
           UNCHANGED <<bought, payments>>
    PROVE  Sale!Next
<1> DEFINE ask == [i \in more |-> lots'[i].price]
<1>1. DOMAIN Asking = DOMAIN lots /\ DOMAIN Asking' = DOMAIN lots'
  BY DEF Asking
<1>2. more \in SUBSET (Items \ (bought \cup DOMAIN Asking))
  BY <1>1
<1>3. ask \in [more -> Prices \cup {NoPrice}]
  OBVIOUS
<1>4. Asking' = [i \in DOMAIN Asking \cup more |->
                    IF i \in more THEN ask[i] ELSE Asking[i]]
  BY <1>1 DEF Asking
<1>5. Receipts' = Receipts
  BY DEF Receipts
<1> HIDE DEF ask
<1>6. Sale!Offer
  BY <1>2, <1>3, <1>4, <1>5 DEF Sale!Offer, Asking, Receipts
<1>7. QED
  BY <1>6 DEF Sale!Next

\* Taking an available lot off sale is the abstract Take.
LEMMA SaleTake ==
    ASSUME NEW i \in Items, Available(i), Consume(i)
    PROVE  Sale!Take(i)
<1>1. i \in DOMAIN Asking
  BY DEF Available, Asking
<1>2. Asking' = [j \in DOMAIN Asking \ {i} |-> Asking[j]]
  BY DEF Consume, Asking
<1>3. bought' = bought \cup {i}
  BY DEF Consume
<1>4. QED
  BY <1>1, <1>2, <1>3 DEF Sale!Take, Asking

\* A payment adds its receipt to those there are, for the price asked.
LEMMA SaleReceipt ==
    ASSUME TypeOK, NEW t \in Tokens, NEW i \in Items, Available(i), Charge(t, i)
    PROVE  Receipts' = Receipts \cup
               {[item |-> i, buyer |-> t, amount |-> Asking[i]]}
<1> DEFINE n   == Len(payments)
           new == [op |-> nextPayment, account |-> t, item |-> i,
                   amount |-> lots[i].price]
           new_receipt == [item |-> i, buyer |-> t, amount |-> Asking[i]]
<1>1. new \in Payment
  BY ItemsAreIds DEF Available, TypeOK, Lot, Payment
<1>2. payments' = Append(payments, new)
  BY DEF Charge
<1>3. Asking[i] = lots[i].price
  BY DEF Available, Asking
<1>4. new.item = i /\ new.account = t /\ new.amount = Asking[i]
  BY <1>3
<1> HIDE DEF new
<1>5. /\ n \in Nat
      /\ DOMAIN payments = 1 .. n
      /\ DOMAIN payments' = 1 .. n + 1
      /\ \A k \in 1 .. n : payments'[k] = payments[k]
      /\ payments'[n + 1] = new
  BY <1>1, <1>2, AppendProperties, LenProperties DEF TypeOK
<1> DEFINE R(p, k) == [item |-> p[k].item, buyer |-> p[k].account,
                       amount |-> p[k].amount]
<1>6. R(payments', n + 1) = new_receipt
  BY <1>4, <1>5
<1>7. \A k \in 1 .. n : R(payments', k) = R(payments, k)
  BY <1>5
<1>8. Receipts = {R(payments, k) : k \in 1 .. n}
  BY <1>5 DEF Receipts
<1>9. Receipts' = {R(payments', k) : k \in 1 .. n + 1}
  BY <1>5 DEF Receipts
<1> HIDE DEF n, R, new_receipt
<1>10. Receipts' = Receipts \cup {new_receipt}
  BY <1>5, <1>6, <1>7, <1>8, <1>9
<1>11. QED
  BY <1>10 DEF new_receipt

\* A buy is a sale with a receipt if it pays, one without if charge_then_fail
\* takes the lot, and nothing to the abstract market otherwise.
LEMMA BuyIsASale ==
    ASSUME TypeOK, NEW t \in Tokens, NEW i \in Items, NEW f, NEW h,
           FastBuy(t, i, f, h)
    PROVE  \/ Charge(t, i) /\ Sale!Sell(i, t)
           \/ Outcome(f, i) = "charge_then_fail" /\ Sale!SellWithoutReceipt(i)
              /\ UNCHANGED payments
           \/ UNCHANGED <<lots, bought, payments>> /\ UNCHANGED Sale!vars
<1>1. CASE UNCHANGED <<lots, bought, payments>>
  <2>1. Asking' = Asking
    BY <1>1 DEF Asking
  <2> QED  BY <1>1, <2>1, SaleStutter
<1>2. CASE /\ Available(i) /\ Consume(i) /\ UNCHANGED payments
           /\ Outcome(f, i) = "charge_then_fail"
  <2>1. Receipts' = Receipts
    BY <1>2 DEF Receipts
  <2>2. Sale!SellWithoutReceipt(i)
    BY <1>2, <2>1, SaleTake DEF Sale!SellWithoutReceipt, Receipts
  <2> QED  BY <1>2, <2>2
<1>3. CASE Available(i) /\ Consume(i) /\ Charge(t, i)
  <2>1. Receipts' = Receipts \cup
            {[item |-> i, buyer |-> t, amount |-> Asking[i]]}
    BY <1>3, SaleReceipt
  <2>2. Sale!Sell(i, t)
    BY <1>3, <2>1, SaleTake DEF Sale!Sell, Receipts, Asking
  <2> QED  BY <1>3, <2>2
<1> QED  BY <1>1, <1>2, <1>3 DEF FastBuy, Forced, Refuse, stores

\* Every handler is a step of OneSale under the mapping, or a stutter.
LEMMA SaleStep ==
    TypeOK /\ MarketInv /\ [Next]_vars => [Sale!Next]_(Sale!vars)
<1> SUFFICES ASSUME TypeOK, MarketInv, [Next]_vars
             PROVE  Sale!Next \/ UNCHANGED Sale!vars
  OBVIOUS
<1> DEFINE Goal == Sale!Next \/ UNCHANGED Sale!vars
<1>1. CASE UNCHANGED <<lots, bought, payments>>
  <2>1. Asking' = Asking
    BY <1>1 DEF Asking
  <2>2. QED
    BY <1>1, <2>1, SaleStutter
<1>2. ASSUME NEW t \in Tokens, NEW p \in Prices \cup {NoPrice},
             NEW h \in ForceHeaders, CreateLot(t, p, h)
      PROVE  Goal
  <2> DEFINE lot == [seller |-> t, price |-> p, published |-> "now"]
  <2>1. CASE Forced("create", t, NoItem, h)
    BY <2>1, <1>1 DEF Forced, stores
  <2>2. CASE nextLot <= MaxLots /\ Put(nextLot, lot) /\ UNCHANGED <<payments, bought>>
    <3>1. nextLot \in Items /\ nextLot \notin WorldIds /\ ~(nextLot < nextLot)
      BY <2>2, StableIdAssumption, BoundAssumption DEF TypeOK, Items
    <3>2. nextLot \notin DOMAIN lots \cup bought
      BY <3>1 DEF MarketInv, IdsIssued
    <3>3. /\ DOMAIN lots' = DOMAIN lots \cup {nextLot}
          /\ \A i \in DOMAIN lots : lots'[i] = lots[i]
          /\ lots'[nextLot].price = p
      BY <2>2, <3>2 DEF Put
    <3>4. {nextLot} \in SUBSET Items /\ {nextLot} \cap (bought \cup DOMAIN lots) = {}
      BY <3>1, <3>2
    <3>5. Sale!Next
      BY <2>2, <3>3, <3>4, SaleOffer
    <3>6. QED
      BY <3>5
  <2>3. QED
    BY <1>2, <2>1, <2>2 DEF CreateLot
<1>3. ASSUME NEW t \in Tokens, NEW i \in Items, NEW h \in ForceHeaders,
             Bump(t, i, h)
      PROVE  Goal
  <2>1. CASE Owned(i, t) /\ Put(i, [lots[i] EXCEPT !.published = "now"])
             /\ UNCHANGED <<payments, bought>>
    <3>1. DOMAIN lots' = DOMAIN lots
      BY <2>1 DEF Owned, Put
    <3>2. \A j \in DOMAIN lots : lots'[j].price = lots[j].price
      BY <2>1 DEF Owned, Put, TypeOK, Lot
    <3>3. Asking' = Asking
      BY <3>1, <3>2 DEF Asking
    <3>4. QED
      BY <2>1, <3>3, SaleStutter
  <2>2. QED
    BY <1>1, <1>3, <2>1 DEF Bump, Forced, Refuse, stores
<1>4. ASSUME NEW t \in Tokens, NEW i \in Items, NEW p \in Prices \cup {NoPrice},
             NEW h \in ForceHeaders, SetPrice(t, i, p, h)
      PROVE  Goal
  <2>1. CASE Owned(i, t) /\ Put(i, [lots[i] EXCEPT !.price = p])
             /\ UNCHANGED <<payments, bought>>
    <3>1. DOMAIN lots' = DOMAIN lots
      BY <2>1 DEF Owned, Put
    <3>2. \A j \in DOMAIN lots : lots'[j].price = IF j = i THEN p ELSE lots[j].price
      BY <2>1 DEF Owned, Put, TypeOK, Lot
    <3>3. Asking' = [Asking EXCEPT ![i] = p]
      BY <3>1, <3>2 DEF Asking
    <3>4. i \in DOMAIN Asking
      BY <2>1 DEF Owned, Asking
    <3>5. Receipts' = Receipts
      BY <2>1 DEF Receipts
    <3>6. Sale!Reprice(i, p)
      BY <2>1, <3>3, <3>4, <3>5 DEF Sale!Reprice, Asking, Receipts
    <3>7. QED
      BY <3>6 DEF Sale!Next
  <2>2. QED
    BY <1>1, <1>4, <2>1 DEF SetPrice, Forced, Refuse, stores
<1>5. ASSUME NEW t \in Tokens, NEW i \in Items, NEW f \in Armed \cup {NoFault},
             NEW h \in ForceHeaders, FastBuy(t, i, f, h)
      PROVE  Goal
  BY <1>5, BuyIsASale DEF Sale!Next
<1>6. ASSUME NEW c \in Categories, NEW a \in Indices, NEW b \in Indices,
             WorldPage(c, a, b)
      PROVE  Goal
  <2> DEFINE wanted == PageIds(c, a, b)
             more == wanted \ DOMAIN lots
  <2>1. wanted \subseteq WorldIds /\ wanted \subseteq Items /\ wanted \cap bought = {}
    BY SlotIds DEF PageIds
  <2>2. /\ lots' = [i \in DOMAIN lots \cup wanted |->
                       IF i \in DOMAIN lots THEN lots[i] ELSE Materialized(i)]
        /\ UNCHANGED <<payments, bought>>
    BY <1>6 DEF WorldPage
  <2>3. \A i \in WorldIds : Materialized(i).price \in Prices \cup {NoPrice}
    BY WorldLotAssumption DEF Materialized
  <2> HIDE DEF wanted
  <2>4. /\ more \in SUBSET Items
        /\ more \cap (bought \cup DOMAIN lots) = {}
        /\ DOMAIN lots' = DOMAIN lots \cup more
        /\ \A i \in DOMAIN lots : lots'[i] = lots[i]
        /\ \A i \in more : lots'[i].price \in Prices \cup {NoPrice}
    BY <2>1, <2>2, <2>3
  <2> HIDE DEF more
  <2>5. Sale!Next
    BY <2>2, <2>4, SaleOffer
  <2>6. QED
    BY <2>5
<1>7. ASSUME ResetState
      PROVE  Goal
  <2>1. DOMAIN payments' = {} /\ DOMAIN lots' = {} /\ bought' = {}
    BY <1>7 DEF ResetState
  <2>2. Asking' = [i \in {} |-> i] /\ Receipts' = {}
    BY <2>1 DEF Asking, Receipts
  <2>3. Sale!Forget
    BY <2>1, <2>2 DEF Sale!Forget, Asking, Receipts
  <2>4. QED
    BY <2>3 DEF Sale!Next
<1>8. QED
  BY <1>1, <1>2, <1>3, <1>4, <1>5, <1>6, <1>7
     DEF Next, vars, stores, CheckLot, CatchAll, RevokeToken, Forced, Refuse

\* What the abstract market sells has left the store, and only a buy takes a
\* lot off sale and marks it sold.
LEMMA OnlyABuyTakes ==
    ASSUME Next, NEW i \in Items, Sale!Take(i)
    PROVE  \E t \in Tokens, f \in Armed \cup {NoFault}, h \in ForceHeaders :
               FastBuy(t, i, f, h)
<1>1. i \in DOMAIN lots /\ i \notin DOMAIN lots' /\ i \in bought'
  <2>1. DOMAIN Asking = DOMAIN lots /\ DOMAIN Asking' = DOMAIN lots'
    BY DEF Asking
  <2>2. /\ i \in DOMAIN Asking /\ i \in bought'
        /\ Asking' = [j \in DOMAIN Asking \ {i} |-> Asking[j]]
    BY DEF Sale!Take, Asking
  <2> QED  BY <2>1, <2>2
<1>2. \A j, lot : Put(j, lot) => i \in DOMAIN lots'
  BY <1>1 DEF Put
<1>3. /\ \A t, p, h : ~CreateLot(t, p, h)
      /\ \A t, j, h : ~Bump(t, j, h)
  BY <1>1, <1>2 DEF CreateLot, Bump, Forced, Refuse, stores
<1>4. \A t, j, p, h : ~SetPrice(t, j, p, h)
  BY <1>1, <1>2 DEF SetPrice, Forced, Refuse, stores
<1>5. \A c, first, last : ~WorldPage(c, first, last)
  BY <1>1 DEF WorldPage
<1>6. /\ \A j : ~CheckLot(j)
      /\ \A t, h : ~CatchAll(t, h)
  BY <1>1 DEF CheckLot, CatchAll, Forced, Refuse, stores
<1>7. (\A t : ~RevokeToken(t)) /\ ~ResetState
  BY <1>1 DEF RevokeToken, ResetState, stores
<1>8. PICK t \in Tokens, j \in Items, f \in Armed \cup {NoFault}, h \in ForceHeaders :
          FastBuy(t, j, f, h)
  BY <1>3, <1>4, <1>5, <1>6, <1>7 DEF Next
<1>9. Consume(j)
  <2>1. lots' # lots
    BY <1>1
  <2>2. ~Forced("buy", t, j, h)
    BY <2>1 DEF Forced, stores
  <2>3. ~Refuse("buy", t, j, 404)
    BY <2>1 DEF Refuse, stores
  <2>4. ~UNCHANGED stores
    BY <2>1 DEF stores
  <2> QED  BY <1>8, <2>2, <2>3, <2>4 DEF FastBuy
<1>10. j = i
  BY <1>1, <1>9 DEF Consume
<1> QED  BY <1>8, <1>10

\* A step that tells of a purchase is a buy.
LEMMA OnlyABuyTells ==
    ASSUME Next, NEW i \in Items, NEW b \in Tokens, SaleTold(i, b)'
    PROVE  \E f \in Armed \cup {NoFault}, h \in ForceHeaders : FastBuy(b, i, f, h)
<1>1. resp'.route = "buy" /\ resp'.item = i /\ resp'.token = b
  BY DEF SaleTold
<1>2. \A route, t, j, status, note :
         Reply(route, t, j, status, note) => route = "buy" /\ t = b /\ j = i
  <2> TAKE route, t, j, status, note
  <2> DEFINE said == [route |-> route, token |-> t, item |-> j, status |-> status, note |-> note]
  <2>1. said.route = route /\ said.token = t /\ said.item = j
    OBVIOUS
  <2> HIDE DEF said
  <2>2. Reply(route, t, j, status, note) => resp' = said
    BY DEF Reply, said
  <2> QED  BY <1>1, <2>1, <2>2
<1> DEFINE Said(route, t, j) == route = "buy" /\ t = b /\ j = i
<1>3. /\ \A route, t, j, h : Forced(route, t, j, h) => Said(route, t, j)
      /\ \A route, t, j, status : Refuse(route, t, j, status) => Said(route, t, j)
  BY <1>2 DEF Forced, Refuse
<1>4. /\ \A t, p, h : ~CreateLot(t, p, h)
      /\ \A t, j, h : ~Bump(t, j, h)
  BY <1>2, <1>3 DEF CreateLot, Bump
<1>5. \A t, j, p, h : ~SetPrice(t, j, p, h)
  BY <1>2, <1>3 DEF SetPrice
<1>6. /\ \A c, first, last : ~WorldPage(c, first, last)
      /\ \A j : ~CheckLot(j)
      /\ \A t, h : ~CatchAll(t, h)
  BY <1>2, <1>3 DEF WorldPage, CheckLot, CatchAll
<1>7. (\A t : ~RevokeToken(t)) /\ ~ResetState
  BY <1>2 DEF RevokeToken, ResetState
<1>8. PICK t \in Tokens, j \in Items, f \in Armed \cup {NoFault}, h \in ForceHeaders :
          FastBuy(t, j, f, h)
  BY <1>4, <1>5, <1>6, <1>7 DEF Next
<1>9. t = b /\ j = i
  BY <1>2, <1>3, <1>8 DEF FastBuy
<1> QED  BY <1>8, <1>9

\* A sale takes the lot from the store, and adds to the ledger: there is no
\* receipt yet for a lot that is on sale.
LEMMA SellAdds ==
    ASSUME TypeOK, MarketInv, NEW i \in Items, NEW b \in Tokens, Available(i),
           Sale!Sell(i, b)
    PROVE  LET sale == [item |-> i, buyer |-> b, amount |-> Asking[i]]
           IN /\ sale \notin Receipts
              /\ Receipts' = Receipts \cup {sale}
              /\ payments' # payments
<1> DEFINE sale == [item |-> i, buyer |-> b, amount |-> Asking[i]]
<1>1. \A r \in Receipts : r.item \in Paid
  BY DEF Receipts, Paid
<1>2. sale.item = i /\ sale.item \notin Paid
  BY DEF Available, MarketInv, OneTracePerSale
<1>3. Receipts' = Receipts \cup {sale}
  BY DEF Sale!Sell, Receipts, Asking
<1> HIDE DEF sale
<1>4. sale \notin Receipts
  BY <1>1, <1>2
<1>5. payments' = payments => Receipts' = Receipts
  BY DEF Receipts
<1>6. payments' # payments
  BY <1>3, <1>4, <1>5
<1> QED  BY <1>3, <1>4, <1>6 DEF sale

\* So the one who is sold the lot is the one who pays.
LEMMA SoldToItsCaller ==
    ASSUME TypeOK, MarketInv, NEW t \in Tokens, NEW b \in Tokens, NEW i \in Items,
           Available(i), Charge(t, i), Sale!Sell(i, b)
    PROVE  b = t
<1> DEFINE sale == [item |-> i, buyer |-> b, amount |-> Asking[i]]
           paid == [item |-> i, buyer |-> t, amount |-> Asking[i]]
<1>1. Receipts' = Receipts \cup {paid}
  BY SaleReceipt
<1>2. Receipts' = Receipts \cup {sale} /\ sale \notin Receipts
  BY SellAdds
<1>3. sale.buyer = b /\ paid.buyer = t
  OBVIOUS
<1> HIDE DEF sale, paid
<1> QED  BY <1>1, <1>2, <1>3

\* A buy sells to its caller exactly if it tells the caller so, and refuses
\* the caller it charges without a receipt.
LEMMA BuyTellsOfItsSale ==
    ASSUME TypeOK, MarketInv, NEW t \in Tokens, NEW i \in Items, NEW f, NEW h,
           FastBuy(t, i, f, h)
    PROVE  /\ \A b \in Tokens : Sale!Sell(i, b) <=> SaleTold(i, b)'
           /\ Sale!SellWithoutReceipt(i) =>
                 resp'.route = "buy" /\ resp'.item = i /\ resp'.status = 402
<1> DEFINE Said(status, note) == resp' = [route |-> "buy", token |-> t, item |-> i,
                                          status |-> status, note |-> note]
<1>1. \A status, note : Said(status, note) =>
         /\ resp'.route = "buy" /\ resp'.token = t /\ resp'.item = i
         /\ resp'.status = status /\ resp'.note = note
  OBVIOUS
<1>2. \A status, note : Reply("buy", t, i, status, note) => Said(status, note)
  BY DEF Reply
<1> HIDE DEF Said
<1>3. \A b \in Tokens : Sale!Sell(i, b) =>
         i \in DOMAIN lots /\ i \notin DOMAIN lots'
  <2> SUFFICES ASSUME NEW b \in Tokens, Sale!Sell(i, b)
               PROVE  i \in DOMAIN lots /\ i \notin DOMAIN lots'
    OBVIOUS
  <2>1. DOMAIN Asking = DOMAIN lots /\ DOMAIN Asking' = DOMAIN lots'
    BY DEF Asking
  <2>2. i \in DOMAIN Asking /\ Asking' = [j \in DOMAIN Asking \ {i} |-> Asking[j]]
    BY DEF Sale!Sell, Sale!Take, Asking
  <2> QED  BY <2>1, <2>2
<1>4. Sale!SellWithoutReceipt(i) => bought' = bought \cup {i} /\ Receipts' = Receipts
  BY DEF Sale!SellWithoutReceipt, Sale!Take, Receipts
<1>5. ASSUME Available(i), Charge(t, i), Consume(i), Said(200, Outcome(f, i)),
             Outcome(f, i) # "pending"
      PROVE  /\ \A b \in Tokens : Sale!Sell(i, b) <=> SaleTold(i, b)'
             /\ ~Sale!SellWithoutReceipt(i)
  <2>1. Sale!Sell(i, t)
    <3>1. Receipts' = Receipts \cup {[item |-> i, buyer |-> t, amount |-> Asking[i]]}
      BY <1>5, SaleReceipt
    <3> QED  BY <1>5, <3>1, SaleTake DEF Sale!Sell, Receipts, Asking
  <2>2. \A b \in Tokens : Sale!Sell(i, b) => b = t
    BY <1>5, SoldToItsCaller
  <2>3. \A b \in Tokens : SaleTold(i, b)' <=> b = t
    BY <1>1, <1>5 DEF SaleTold
  <2>4. Receipts' # Receipts
    BY <1>5, <2>1, SellAdds
  <2> QED  BY <1>4, <2>1, <2>2, <2>3, <2>4
<1>6. ASSUME Available(i), Consume(i), UNCHANGED payments, Said(402, "charge_then_fail")
      PROVE  /\ \A b \in Tokens : ~Sale!Sell(i, b) /\ ~SaleTold(i, b)'
             /\ resp'.route = "buy" /\ resp'.item = i /\ resp'.status = 402
  <2>1. \A b \in Tokens : ~Sale!Sell(i, b)
    BY <1>6, SellAdds
  <2> QED  BY <1>1, <1>6, <2>1 DEF SaleTold
<1>7. ASSUME UNCHANGED <<lots, bought>>, NEW status, NEW note, Said(status, note),
             status = 200 => note = "pending"
      PROVE  /\ \A b \in Tokens : ~Sale!Sell(i, b) /\ ~SaleTold(i, b)'
             /\ ~Sale!SellWithoutReceipt(i)
  <2>1. ~Sale!SellWithoutReceipt(i)
    <3> SUFFICES ASSUME Sale!SellWithoutReceipt(i) PROVE FALSE
      OBVIOUS
    <3>1. DOMAIN Asking = DOMAIN lots /\ DOMAIN Asking' = DOMAIN lots'
      BY DEF Asking
    <3>2. i \in DOMAIN Asking /\ Asking' = [j \in DOMAIN Asking \ {i} |-> Asking[j]]
      BY DEF Sale!SellWithoutReceipt, Sale!Take, Asking
    <3> QED  BY <1>7, <3>1, <3>2
  <2> QED  BY <1>1, <1>3, <1>7, <2>1 DEF SaleTold
<1>8. CASE Forced("buy", t, i, h)
  <2>1. h \in DOMAIN ForcedStatus /\ Said(ForcedStatus[h], "none")
    BY <1>2, <1>8 DEF Forced
  <2>2. ForcedStatus[h] # 200
    BY <2>1 DEF ForcedStatus
  <2>3. UNCHANGED <<lots, bought>>
    BY <1>8 DEF Forced, stores
  <2> QED  BY <1>7, <2>1, <2>2, <2>3
<1>9. CASE Refuse("buy", t, i, 404)
  <2>1. Said(404, "none") /\ UNCHANGED <<lots, bought>>
    BY <1>2, <1>9 DEF Refuse, stores
  <2> QED  BY <1>7, <2>1
<1>10. CASE /\ Outcome(f, i) \in DOMAIN KeepsLot
            /\ Reply("buy", t, i, KeepsLot[Outcome(f, i)], Outcome(f, i))
            /\ UNCHANGED stores
  <2>1. KeepsLot[Outcome(f, i)] = 200 => Outcome(f, i) = "pending"
    BY <1>10 DEF KeepsLot
  <2>2. Said(KeepsLot[Outcome(f, i)], Outcome(f, i)) /\ UNCHANGED <<lots, bought>>
    BY <1>2, <1>10 DEF stores
  <2> QED  BY <1>7, <2>1, <2>2
<1> QED
  BY <1>2, <1>5, <1>6, <1>8, <1>9, <1>10 DEF FastBuy

\* Every step tells of the sale it makes, and of none that it does not make.
LEMMA SaleIsTold ==
    ASSUME TypeOK, MarketInv, Next, NEW i \in Items
    PROVE  /\ \A b \in Tokens : Sale!Sell(i, b) <=> SaleTold(i, b)'
           /\ Sale!SellWithoutReceipt(i) =>
                 resp'.route = "buy" /\ resp'.item = i /\ resp'.status = 402
<1>1. CASE \E t \in Tokens, f \in Armed \cup {NoFault}, h \in ForceHeaders :
              FastBuy(t, i, f, h)
  BY <1>1, BuyTellsOfItsSale
<1>2. CASE ~\E t \in Tokens, f \in Armed \cup {NoFault}, h \in ForceHeaders :
              FastBuy(t, i, f, h)
  <2>1. ~Sale!Take(i)
    BY <1>2, OnlyABuyTakes
  <2>2. \A b \in Tokens : ~SaleTold(i, b)'
    BY <1>2, OnlyABuyTells
  <2> QED  BY <2>1, <2>2 DEF Sale!Sell, Sale!SellWithoutReceipt
<1> QED  BY <1>1, <1>2

\* The market is a seller that sells each lot once and tells its buyer so,
\* whatever requests, faults and resets arrive in whatever order.
THEOREM MarketImplementsOneSale == Spec => SellsEachLotOnce
<1> DEFINE Told == \A i \in Items :
               /\ \A b \in Tokens : Sale!Sell(i, b) <=> SaleTold(i, b)'
               /\ Sale!SellWithoutReceipt(i) =>
                     resp'.route = "buy" /\ resp'.item = i /\ resp'.status = 402
<1>1. TypeOK /\ MarketInv /\ [Next]_vars => [Told]_vars
  BY SaleIsTold
<1> QED
  BY <1>1, SaleInit, SaleStep, TypeCorrect, MarketInvariant, PTL
     DEF Spec, SellsEachLotOnce, Sale!Spec

=============================================================================
