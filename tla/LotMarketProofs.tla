--------------------------- MODULE LotMarketProofs ---------------------------
(***************************************************************************)
(* Theorems about LotMarket, for every set of tokens, every catalog and    *)
(* every bound: its type invariant, the safety invariants the runs check   *)
(* on small instances, and their inductive strengthening.                  *)
(***************************************************************************)
EXTENDS LotMarket, SequenceTheorems, TLAPS

-----------------------------------------------------------------------------
(* Type correctness *)

\* The domain outcome of a buy is one of the outcomes of DomainOutcome, and
\* the outcomes that keep the lot are exactly those with an answer in KeepsLot.
LEMMA OutcomeType ==
    ASSUME NEW fault, NEW item
    PROVE  Outcome(fault, item) \in Notes
BY DEF Outcome, Notes, KeepsLot

\* A counter that is advanced stays a counter.
LEMMA TickType ==
    ASSUME TypeOK, NEW fault, NEW item \in Items, Tick(fault, item)
    PROVE  ticks' \in [DOMAIN TickLimit -> [Items -> Nat]]
<1> DEFINE T == DOMAIN TickLimit
<1>1. ticks \in [T -> [Items -> Nat]]
  BY DEF TypeOK
<1> HIDE DEF T
<1>2. CASE fault \in T /\ ticks[fault][item] < TickLimit[fault]
  <2>1. ticks[fault] \in [Items -> Nat] /\ ticks[fault][item] + 1 \in Nat
    BY <1>1, <1>2
  <2>2. ticks' = [ticks EXCEPT ![fault] =
                     [ticks[fault] EXCEPT ![item] = ticks[fault][item] + 1]]
    BY <1>2 DEF Tick, T
  <2>3. [ticks[fault] EXCEPT ![item] = ticks[fault][item] + 1] \in [Items -> Nat]
    BY <2>1
  <2>4. ticks' \in [T -> [Items -> Nat]]
    BY <1>1, <1>2, <2>2, <2>3
  <2>5. QED
    BY <2>4 DEF T
<1>3. CASE ~(fault \in T /\ ticks[fault][item] < TickLimit[fault])
  <2>1. ticks' = ticks
    BY <1>3 DEF Tick, T
  <2>2. QED
    BY <1>1, <2>1 DEF T
<1>4. QED
  BY <1>2, <1>3

\* The ids of a page are ids of the world.
LEMMA SlotIds ==
    ASSUME NEW category \in Categories, NEW n \in Indices
    PROVE  /\ StableId[<<category, n>>] \in WorldIds
           /\ StableId[<<category, n>>] \in Items
BY DEF WorldIds, Items

\* Every id a lot may carry is a number.
LEMMA ItemsAreIds == Items \subseteq Nat
BY StableIdAssumption, BoundAssumption DEF Items, WorldIds

\* Storing a well-typed lot under an issued id leaves LotStore well typed.
LEMMA PutType ==
    ASSUME TypeOK, NEW item \in Items, NEW lot \in Lot, Put(item, lot)
    PROVE  DOMAIN lots' \subseteq Items /\ \A i \in DOMAIN lots' : lots'[i] \in Lot
BY DEF TypeOK, Put

\* Every answer the handlers give is a well-typed one.
LEMMA ReplyType ==
    ASSUME NEW route \in Routes, NEW token \in Tokens \cup {NoToken},
           NEW item \in Nat, NEW status \in Nat, NEW note \in Notes,
           Reply(route, token, item, status, note)
    PROVE  resp' \in [route : Routes, token : Tokens \cup {NoToken},
                      item : Nat, status : Nat, note : Notes]
BY DEF Reply

\* A refused or forced request changes nothing but the answer.
LEMMA RefusalType ==
    ASSUME TypeOK,
           NEW route \in Routes, NEW token \in Tokens \cup {NoToken},
           NEW item \in Nat, NEW status \in Nat,
           Refuse(route, token, item, status)
    PROVE  TypeOK'
<1>1. resp' \in [route : Routes, token : Tokens \cup {NoToken},
                 item : Nat, status : Nat, note : Notes]
  BY ReplyType, "none" \in Notes DEF Refuse, Notes
<1>2. QED
  BY <1>1 DEF TypeOK, Refuse, stores

\* A forced error keeps every store and answers with a status.
LEMMA ForcedType ==
    ASSUME TypeOK,
           NEW route \in Routes, NEW token \in Tokens \cup {NoToken},
           NEW item \in Nat, NEW force,
           Forced(route, token, item, force)
    PROVE  TypeOK'
<1>1. ForcedStatus[force] \in Nat
  BY DEF Forced, ForcedStatus
<1>2. Refuse(route, token, item, ForcedStatus[force])
  BY DEF Forced, Refuse
<1>3. QED
  BY <1>1, <1>2, RefusalType

\* The stores create_app makes have their types.
LEMMA TypeInit == Init => TypeOK
<1> SUFFICES ASSUME Init PROVE TypeOK
  OBVIOUS
<1>1. ticks \in [DOMAIN TickLimit -> [Items -> Nat]]
  BY DEF Init
<1>2. resp \in [route : Routes, token : Tokens \cup {NoToken},
                item : Nat, status : Nat, note : Notes]
  BY DEF Init, NoItem, Notes, Routes
<1>3. payments \in Seq(Payment)
  BY DEF Init
<1>4. QED
  BY <1>1, <1>2, <1>3 DEF Init, TypeOK

\* Every handler keeps the types.
LEMMA TypeStep == TypeOK /\ [Next]_vars => TypeOK'
<1> SUFFICES ASSUME TypeOK, [Next]_vars PROVE TypeOK'
  OBVIOUS
<1> USE ItemsAreIds
<1> DEFINE Answer == [route : Routes, token : Tokens \cup {NoToken},
                      item : Nat, status : Nat, note : Notes]
<1>1. ASSUME NEW t \in Tokens, NEW p \in Prices \cup {NoPrice},
             NEW h \in ForceHeaders, CreateLot(t, p, h)
      PROVE  TypeOK'
  <2>1. CASE Forced("create", t, NoItem, h)
    BY <2>1, ForcedType DEF NoItem, Routes
  <2>2. CASE /\ nextLot <= MaxLots
             /\ nextLot' = nextLot + 1
             /\ Put(nextLot, [seller |-> t, price |-> p, published |-> "now"])
             /\ Reply("create", t, nextLot, 200, "none")
             /\ UNCHANGED <<payments, bought, charged, revoked, nextPayment,
                            ticks>>
    <3> DEFINE lot == [seller |-> t, price |-> p, published |-> "now"]
    <3>1. nextLot \in Nat /\ nextLot + 1 \in Nat \ {0} /\ nextLot \in Items
      BY <2>2, BoundAssumption DEF TypeOK, Items
    <3>2. lot \in Lot
      BY DEF Lot
    <3>3. DOMAIN lots' \subseteq Items /\ \A i \in DOMAIN lots' : lots'[i] \in Lot
      BY <2>2, <3>1, <3>2, PutType
    <3>4. resp' \in Answer
      BY <2>2, <3>1, ReplyType DEF Notes, Routes
    <3>5. QED
      BY <2>2, <3>1, <3>3, <3>4 DEF TypeOK
  <2>3. QED
    BY <1>1, <2>1, <2>2 DEF CreateLot
<1>2. ASSUME NEW t \in Tokens, NEW i \in Items, NEW h \in ForceHeaders,
             Bump(t, i, h)
      PROVE  TypeOK'
  <2>1. CASE Forced("bump", t, i, h)
    BY <2>1, ForcedType DEF Routes
  <2>2. CASE Refuse("bump", t, i, 404)
    BY <2>2, RefusalType DEF Routes
  <2>3. CASE /\ Owned(i, t)
             /\ Put(i, [lots[i] EXCEPT !.published = "now"])
             /\ Reply("bump", t, i, 200, "none")
             /\ UNCHANGED <<payments, bought, charged, revoked, nextLot,
                            nextPayment, ticks>>
    <3>1. [lots[i] EXCEPT !.published = "now"] \in Lot
      BY <2>3 DEF Owned, TypeOK, Lot
    <3>2. DOMAIN lots' \subseteq Items /\ \A j \in DOMAIN lots' : lots'[j] \in Lot
      BY <2>3, <3>1, PutType
    <3>3. resp' \in Answer
      BY <2>3, ReplyType DEF Notes, Routes
    <3>4. QED
      BY <2>3, <3>2, <3>3 DEF TypeOK
  <2>4. QED
    BY <1>2, <2>1, <2>2, <2>3 DEF Bump
<1>3. ASSUME NEW t \in Tokens, NEW i \in Items, NEW p \in Prices \cup {NoPrice},
             NEW h \in ForceHeaders, SetPrice(t, i, p, h)
      PROVE  TypeOK'
  <2>1. CASE Forced("price", t, i, h)
    BY <2>1, ForcedType DEF Routes
  <2>2. CASE Refuse("price", t, i, 400) \/ Refuse("price", t, i, 404)
    BY <2>2, RefusalType DEF Routes
  <2>3. CASE /\ Owned(i, t)
             /\ Put(i, [lots[i] EXCEPT !.price = p])
             /\ Reply("price", t, i, 200, "none")
             /\ UNCHANGED <<payments, bought, charged, revoked, nextLot,
                            nextPayment, ticks>>
    <3>1. [lots[i] EXCEPT !.price = p] \in Lot
      BY <2>3 DEF Owned, TypeOK, Lot
    <3>2. DOMAIN lots' \subseteq Items /\ \A j \in DOMAIN lots' : lots'[j] \in Lot
      BY <2>3, <3>1, PutType
    <3>3. resp' \in Answer
      BY <2>3, ReplyType DEF Notes, Routes
    <3>4. QED
      BY <2>3, <3>2, <3>3 DEF TypeOK
  <2>4. QED
    BY <1>3, <2>1, <2>2, <2>3 DEF SetPrice
<1>4. ASSUME NEW t \in Tokens, NEW i \in Items, NEW f \in Armed \cup {NoFault},
             NEW h \in ForceHeaders, FastBuy(t, i, f, h)
      PROVE  TypeOK'
  <2>1. CASE Forced("buy", t, i, h)
    BY <2>1, ForcedType DEF Routes
  <2>2. CASE Refuse("buy", t, i, 404)
    BY <2>2, RefusalType DEF Routes
  <2>3. CASE /\ Available(i)
             /\ Outcome(f, i) \in DOMAIN KeepsLot
             /\ Tick(f, i)
             /\ Reply("buy", t, i, KeepsLot[Outcome(f, i)], Outcome(f, i))
             /\ UNCHANGED <<stores, revoked, nextLot, nextPayment>>
    <3>1. ticks' \in [DOMAIN TickLimit -> [Items -> Nat]]
      BY <2>3, TickType
    <3>2. KeepsLot[Outcome(f, i)] \in Nat
      BY <2>3 DEF KeepsLot
    <3>3. resp' \in Answer
      BY <2>3, <3>2, ReplyType, OutcomeType DEF Routes
    <3>4. QED
      BY <2>3, <3>1, <3>3 DEF TypeOK, stores
  <2>4. CASE /\ Available(i)
             /\ Consume(i)
             /\ charged' = charged \cup {i}
             /\ Reply("buy", t, i, 402, "charge_then_fail")
             /\ UNCHANGED <<payments, revoked, nextLot, nextPayment, ticks>>
    <3>1. resp' \in Answer
      BY <2>4, ReplyType DEF Routes, Notes
    <3>2. QED
      BY <2>4, <3>1 DEF TypeOK, Consume
  <2>5. CASE /\ Available(i)
             /\ Tick(f, i)
             /\ Consume(i)
             /\ Charge(t, i)
             /\ Reply("buy", t, i, 200, Outcome(f, i))
             /\ UNCHANGED <<charged, revoked, nextLot>>
    <3>1. ticks' \in [DOMAIN TickLimit -> [Items -> Nat]]
      BY <2>5, TickType
    <3>2. resp' \in Answer
      BY <2>5, ReplyType, OutcomeType DEF Routes
    <3>3. lots[i].price \in Prices \cup {NoPrice}
      BY <2>5 DEF Available, TypeOK, Lot
    <3>4. [op |-> nextPayment, account |-> t, item |-> i,
           amount |-> lots[i].price] \in Payment
      BY <3>3 DEF TypeOK, Payment
    <3>5. payments' \in Seq(Payment)
      BY <2>5, <3>4, AppendProperties DEF Charge, TypeOK
    <3>6. QED
      BY <2>5, <3>1, <3>2, <3>5 DEF TypeOK, Consume, Charge
  <2>6. QED
    BY <1>4, <2>1, <2>2, <2>3, <2>4, <2>5 DEF FastBuy
<1>5. ASSUME NEW c \in Categories, NEW a \in Indices, NEW b \in Indices,
             WorldPage(c, a, b)
      PROVE  TypeOK'
  <2> DEFINE wanted == PageIds(c, a, b)
  <2>1. wanted \subseteq WorldIds /\ WorldIds \subseteq Items
    BY SlotIds DEF Items, PageIds
  <2>2. \A i \in WorldIds : Materialized(i) \in Lot
    BY WorldLotAssumption DEF Lot, Materialized
  <2>3. lots' = [i \in DOMAIN lots \cup wanted |->
                    IF i \in DOMAIN lots THEN lots[i] ELSE Materialized(i)]
    BY <1>5 DEF WorldPage
  <2> HIDE DEF wanted
  <2>4. DOMAIN lots' \subseteq Items /\ \A i \in DOMAIN lots' : lots'[i] \in Lot
    BY <2>1, <2>2, <2>3 DEF TypeOK
  <2>5. resp' \in Answer
    BY <1>5, ReplyType DEF WorldPage, Routes, Notes, NoItem
  <2>6. QED
    BY <1>5, <2>4, <2>5 DEF WorldPage, TypeOK
<1>6. ASSUME NEW i \in Items, CheckLot(i)
      PROVE  TypeOK'
  <2>1. resp' \in Answer
    BY <1>6, ReplyType DEF CheckLot, Routes, Notes
  <2>2. QED
    BY <1>6, <2>1 DEF CheckLot, TypeOK, stores
<1>7. ASSUME NEW t \in Tokens, NEW h \in ForceHeaders, CatchAll(t, h)
      PROVE  TypeOK'
  <2>1. CASE Forced("catalog", t, NoItem, h)
    BY <2>1, ForcedType DEF Routes, NoItem
  <2>2. CASE Refuse("catalog", t, NoItem, IF t \in revoked THEN 401 ELSE 200)
    BY <2>2, RefusalType DEF Routes, NoItem
  <2>3. QED
    BY <1>7, <2>1, <2>2 DEF CatchAll
<1>8. ASSUME NEW t \in Tokens, RevokeToken(t)
      PROVE  TypeOK'
  <2>1. resp' \in Answer
    BY <1>8, ReplyType DEF RevokeToken, Routes, Notes, NoItem
  <2>2. QED
    BY <1>8, <2>1 DEF RevokeToken, TypeOK, stores
<1>9. ASSUME ResetState
      PROVE  TypeOK'
  <2>1. resp' \in Answer
    BY <1>9, ReplyType DEF ResetState, Routes, Notes, NoItem
  <2>2. payments' \in Seq(Payment)
    BY <1>9 DEF ResetState
  <2>3. QED
    BY <1>9, <2>1, <2>2 DEF ResetState, TypeOK
<1>10. CASE UNCHANGED vars
  BY <1>10 DEF vars, TypeOK
<1>11. QED
  BY <1>1, <1>2, <1>3, <1>4, <1>5, <1>6, <1>7, <1>8, <1>9, <1>10 DEF Next

\* The stores, the counters and the answers of the market keep their types
\* whatever requests arrive, in whatever order.
THEOREM TypeCorrect == Spec => []TypeOK
BY TypeInit, TypeStep, PTL DEF Spec

-----------------------------------------------------------------------------
(* The market's invariant *)

\* An id that is on sale or sold is the world's or has been handed out before:
\* next_id never returns the id of a lot somebody has bought.  This is what
\* makes the safety invariants inductive: POST /lots puts a lot in the store
\* without asking was_bought.
IdsIssued == \A i \in DOMAIN lots \cup bought : i \in WorldIds \/ i < nextLot

MarketInv ==
    /\ NothingSoldIsOnSale
    /\ IdsIssued
    /\ OneTracePerSale
    /\ LedgerAscends

\* The empty market meets the invariant.
LEMMA MarketInit == Init => MarketInv
<1> SUFFICES ASSUME Init PROVE MarketInv
  OBVIOUS
<1>1. DOMAIN payments = {}
  BY DEF Init
<1>2. Paid = {}
  BY <1>1 DEF Paid
<1>3. QED
  BY <1>1, <1>2 DEF Init, MarketInv, NothingSoldIsOnSale, IdsIssued,
                    OneTracePerSale, LedgerAscends

\* A step that leaves the ledger, the bought ids and the history alone keeps
\* what is said about them.
LEMMA LedgerKept ==
    ASSUME MarketInv, UNCHANGED <<payments, bought, charged, nextPayment>>
    PROVE  OneTracePerSale' /\ LedgerAscends'
<1>1. Paid' = Paid
  BY DEF Paid
<1>2. QED
  BY <1>1 DEF MarketInv, OneTracePerSale, LedgerAscends

\* A step that changes no store and no id counter keeps the invariant.
LEMMA QuietStep ==
    ASSUME MarketInv, UNCHANGED <<stores, nextLot, nextPayment>>
    PROVE  MarketInv'
<1>1. OneTracePerSale' /\ LedgerAscends'
  BY LedgerKept DEF stores
<1>2. QED
  BY <1>1 DEF MarketInv, NothingSoldIsOnSale, IdsIssued, stores

\* A seller's change of a lot keeps the lot on sale under its id.
LEMMA OwnerStep ==
    ASSUME MarketInv, NEW item, NEW token, NEW lot,
           Owned(item, token), Put(item, lot),
           UNCHANGED <<payments, bought, charged, nextLot, nextPayment>>
    PROVE  MarketInv'
<1>1. DOMAIN lots' = DOMAIN lots
  BY DEF Owned, Put
<1>2. OneTracePerSale' /\ LedgerAscends'
  BY LedgerKept
<1>3. QED
  BY <1>1, <1>2 DEF MarketInv, NothingSoldIsOnSale, IdsIssued

\* Taking an available lot takes it off sale and marks it bought; nothing had
\* been paid or charged for it before.
LEMMA TakenLot ==
    ASSUME MarketInv, NEW item, Available(item), Consume(item),
           nextLot' = nextLot
    PROVE  /\ NothingSoldIsOnSale'
           /\ IdsIssued'
           /\ item \notin Paid
           /\ item \notin charged
BY DEF MarketInv, NothingSoldIsOnSale, IdsIssued, OneTracePerSale,
       Available, Consume

\* Every handler keeps the market's invariant.
LEMMA MarketStep == TypeOK /\ MarketInv /\ [Next]_vars => MarketInv'
<1> SUFFICES ASSUME TypeOK, MarketInv, [Next]_vars PROVE MarketInv'
  OBVIOUS
<1>1. ASSUME NEW t \in Tokens, NEW p \in Prices \cup {NoPrice},
             NEW h \in ForceHeaders, CreateLot(t, p, h)
      PROVE  MarketInv'
  <2>1. CASE Forced("create", t, NoItem, h)
    BY <2>1, QuietStep DEF Forced
  <2>2. CASE /\ nextLot <= MaxLots
             /\ nextLot' = nextLot + 1
             /\ Put(nextLot, [seller |-> t, price |-> p, published |-> "now"])
             /\ UNCHANGED <<payments, bought, charged, nextPayment>>
    <3>1. nextLot \notin WorldIds
      BY <2>2, StableIdAssumption, BoundAssumption DEF TypeOK
    <3>2. nextLot \notin bought
      BY <3>1 DEF MarketInv, IdsIssued, TypeOK
    <3>3. DOMAIN lots' = DOMAIN lots \cup {nextLot}
      BY <2>2 DEF Put
    <3>4. NothingSoldIsOnSale'
      BY <2>2, <3>2, <3>3 DEF MarketInv, NothingSoldIsOnSale
    <3>5. IdsIssued'
      <4>1. \A i \in DOMAIN lots \cup bought : i \in Nat
        BY ItemsAreIds DEF TypeOK
      <4>2. \A i \in Nat : i < nextLot => i < nextLot'
        BY <2>2 DEF TypeOK
      <4>3. nextLot < nextLot'
        BY <2>2 DEF TypeOK
      <4>4. QED
        BY <2>2, <3>3, <4>1, <4>2, <4>3 DEF MarketInv, IdsIssued
    <3>6. OneTracePerSale' /\ LedgerAscends'
      BY <2>2, LedgerKept
    <3>7. QED
      BY <3>4, <3>5, <3>6 DEF MarketInv
  <2>3. QED
    BY <1>1, <2>1, <2>2 DEF CreateLot
<1>2. ASSUME NEW t \in Tokens, NEW i \in Items, NEW h \in ForceHeaders,
             Bump(t, i, h)
      PROVE  MarketInv'
  <2>1. CASE UNCHANGED <<stores, nextLot, nextPayment>>
    BY <2>1, QuietStep
  <2>2. CASE /\ Owned(i, t)
             /\ Put(i, [lots[i] EXCEPT !.published = "now"])
             /\ UNCHANGED <<payments, bought, charged, nextLot, nextPayment>>
    BY <2>2, OwnerStep
  <2>3. QED
    BY <1>2, <2>1, <2>2 DEF Bump, Forced, Refuse
<1>3. ASSUME NEW t \in Tokens, NEW i \in Items, NEW p \in Prices \cup {NoPrice},
             NEW h \in ForceHeaders, SetPrice(t, i, p, h)
      PROVE  MarketInv'
  <2>1. CASE UNCHANGED <<stores, nextLot, nextPayment>>
    BY <2>1, QuietStep
  <2>2. CASE /\ Owned(i, t)
             /\ Put(i, [lots[i] EXCEPT !.price = p])
             /\ UNCHANGED <<payments, bought, charged, nextLot, nextPayment>>
    BY <2>2, OwnerStep
  <2>3. QED
    BY <1>3, <2>1, <2>2 DEF SetPrice, Forced, Refuse
<1>4. ASSUME NEW t \in Tokens, NEW i \in Items, NEW f \in Armed \cup {NoFault},
             NEW h \in ForceHeaders, FastBuy(t, i, f, h)
      PROVE  MarketInv'
  <2>1. CASE UNCHANGED <<stores, nextLot, nextPayment>>
    BY <2>1, QuietStep
  <2>2. CASE /\ Available(i)
             /\ Consume(i)
             /\ charged' = charged \cup {i}
             /\ UNCHANGED <<payments, nextLot, nextPayment>>
    <3>1. NothingSoldIsOnSale' /\ IdsIssued' /\ i \notin Paid
      BY <2>2, TakenLot
    <3>2. Paid' = Paid
      BY <2>2 DEF Paid
    <3>3. OneTracePerSale'
      BY <2>2, <3>1, <3>2 DEF MarketInv, OneTracePerSale, Consume
    <3>4. LedgerAscends'
      BY <2>2 DEF MarketInv, LedgerAscends
    <3>5. QED
      BY <3>1, <3>3, <3>4 DEF MarketInv
  <2>3. CASE /\ Available(i)
             /\ Consume(i)
             /\ Charge(t, i)
             /\ UNCHANGED <<charged, nextLot>>
    <3> DEFINE n == Len(payments)
               new == [op |-> nextPayment, account |-> t, item |-> i,
                       amount |-> lots[i].price]
    <3>1. NothingSoldIsOnSale' /\ IdsIssued' /\ i \notin Paid /\ i \notin charged
      BY <2>3, TakenLot
    <3>2. /\ n \in Nat
          /\ DOMAIN payments = 1 .. n
          /\ DOMAIN payments' = 1 .. n + 1
          /\ \A k \in 1 .. n : payments'[k] = payments[k]
          /\ payments'[n + 1].item = i
          /\ payments'[n + 1].op = nextPayment
      <4>1. new \in Payment
        BY <2>3, ItemsAreIds DEF Available, TypeOK, Lot, Payment
      <4>2. payments' = Append(payments, new)
        BY <2>3 DEF Charge
      <4> HIDE DEF new
      <4>3. /\ n \in Nat
            /\ DOMAIN payments = 1 .. n
            /\ DOMAIN payments' = 1 .. n + 1
            /\ \A k \in 1 .. n : payments'[k] = payments[k]
            /\ payments'[n + 1] = new
        BY <4>1, <4>2, AppendProperties, LenProperties DEF TypeOK
      <4>4. new.item = i /\ new.op = nextPayment
        BY DEF new
      <4>5. QED
        BY <4>3, <4>4
    <3>3. Paid' = Paid \cup {i}
      BY <3>2 DEF Paid
    <3>4. \A k \in 1 .. n : payments[k].item # i
      BY <3>1, <3>2 DEF Paid
    <3>5. OneTracePerSale'
      <4>1. bought' = Paid' \cup charged' /\ Paid' \cap charged' = {}
        BY <2>3, <3>1, <3>3 DEF MarketInv, OneTracePerSale, Consume
      <4>2. \A k, l \in DOMAIN payments' :
               payments'[k].item = payments'[l].item => k = l
        BY <3>2, <3>4 DEF MarketInv, OneTracePerSale
      <4>3. QED
        BY <4>1, <4>2 DEF OneTracePerSale
    <3>6. LedgerAscends'
      <4>1. nextPayment \in Nat /\ nextPayment' = nextPayment + 1
        BY <2>3 DEF Charge, TypeOK
      <4>2. payments \in Seq(Payment)
        BY DEF TypeOK
      <4>3. \A k \in 1 .. n : payments[k] \in Payment
        BY <4>2, ElementOfSeq
      <4>4. \A k \in 1 .. n : payments[k].op \in Nat
        BY <4>3 DEF Payment
      <4> HIDE DEF n
      <4>5. /\ \A k, l \in 1 .. n : k < l => payments[k].op < payments[l].op
            /\ \A k \in 1 .. n : payments[k].op < nextPayment
        BY <3>2 DEF MarketInv, LedgerAscends
      <4>6. \A k \in 1 .. n : payments'[k].op = payments[k].op
        BY <3>2
      <4>7. \A k \in 1 .. n + 1 : payments'[k].op < nextPayment'
        BY <3>2, <4>1, <4>4, <4>5, <4>6
      <4>8. \A k, l \in 1 .. n + 1 : k < l => payments'[k].op < payments'[l].op
        BY <3>2, <4>1, <4>4, <4>5, <4>6
      <4>9. QED
        BY <3>2, <4>7, <4>8 DEF LedgerAscends
    <3>7. QED
      BY <3>1, <3>5, <3>6 DEF MarketInv
  <2>4. QED
    BY <1>4, <2>1, <2>2, <2>3 DEF FastBuy, Forced, Refuse
<1>5. ASSUME NEW c \in Categories, NEW a \in Indices, NEW b \in Indices,
             WorldPage(c, a, b)
      PROVE  MarketInv'
  <2> DEFINE wanted == PageIds(c, a, b)
  <2>1. wanted \subseteq WorldIds /\ wanted \cap bought = {}
    BY SlotIds DEF PageIds
  <2>2. DOMAIN lots' = DOMAIN lots \cup wanted
    BY <1>5 DEF WorldPage
  <2> HIDE DEF wanted
  <2>3. UNCHANGED <<payments, bought, charged, nextLot, nextPayment>>
    BY <1>5 DEF WorldPage
  <2>4. NothingSoldIsOnSale' /\ IdsIssued'
    BY <2>1, <2>2, <2>3 DEF MarketInv, NothingSoldIsOnSale, IdsIssued
  <2>5. QED
    BY <2>3, <2>4, LedgerKept DEF MarketInv
<1>6. ASSUME NEW i \in Items, CheckLot(i)
      PROVE  MarketInv'
  BY <1>6, QuietStep DEF CheckLot
<1>7. ASSUME NEW t \in Tokens, NEW h \in ForceHeaders, CatchAll(t, h)
      PROVE  MarketInv'
  BY <1>7, QuietStep DEF CatchAll, Forced, Refuse
<1>8. ASSUME NEW t \in Tokens, RevokeToken(t)
      PROVE  MarketInv'
  BY <1>8, QuietStep DEF RevokeToken
<1>9. ASSUME ResetState
      PROVE  MarketInv'
  <2>1. DOMAIN payments' = {} /\ DOMAIN lots' = {} /\ bought' = {} /\ charged' = {}
    BY <1>9 DEF ResetState
  <2>2. Paid' = {}
    BY <2>1 DEF Paid
  <2>3. QED
    BY <2>1, <2>2 DEF MarketInv, NothingSoldIsOnSale, IdsIssued,
                      OneTracePerSale, LedgerAscends
<1>10. CASE UNCHANGED vars
  BY <1>10, QuietStep DEF vars, stores
<1>11. QED
  BY <1>1, <1>2, <1>3, <1>4, <1>5, <1>6, <1>7, <1>8, <1>9, <1>10 DEF Next

\* The inductive invariant holds in every reachable state.
THEOREM MarketInvariant == Spec => []MarketInv
BY MarketInit, MarketStep, TypeCorrect, PTL DEF Spec

\* No lot that was bought is in the lot store: neither a page of the lazy
\* listing nor a failing buy puts it back on sale.
THEOREM SoldLotsStayOffSale == Spec => []NothingSoldIsOnSale
<1>1. MarketInv => NothingSoldIsOnSale
  BY DEF MarketInv
<1>2. QED
  BY <1>1, MarketInvariant, PTL

\* Since the last reset every bought lot has exactly one payment, or one
\* charge without a payment, and never both.
THEOREM EverySaleLeavesOneTrace == Spec => []OneTracePerSale
<1>1. MarketInv => OneTracePerSale
  BY DEF MarketInv
<1>2. QED
  BY <1>1, MarketInvariant, PTL

\* Operation ids are unique, in the order of the purchases, and never reused.
THEOREM LedgerStaysAscending == Spec => []LedgerAscends
<1>1. MarketInv => LedgerAscends
  BY DEF MarketInv
<1>2. QED
  BY <1>1, MarketInvariant, PTL

-----------------------------------------------------------------------------
(* What a step may never do *)

\* An answer says what Reply was asked to say.
LEMMA Answers ==
    ASSUME NEW route, NEW token, NEW item, NEW status, NEW note,
           Reply(route, token, item, status, note)
    PROVE  /\ resp'.route = route
           /\ resp'.token = token
           /\ resp'.item = item
           /\ resp'.status = status
BY DEF Reply

\* A handler that answers 429 or 5xx has written nothing but ticks.
LEMMA TransientStep ==
    ASSUME [Next]_vars, resp'.status \in Transient
    PROVE  UNCHANGED <<stores, nextPayment>>
<1> DEFINE Quiet == UNCHANGED <<stores, nextPayment>>
<1>1. 200 \notin Transient /\ 402 \notin Transient
  BY DEF Transient
<1>2. ASSUME NEW t \in Tokens, NEW p \in Prices \cup {NoPrice},
             NEW h \in ForceHeaders, CreateLot(t, p, h)
      PROVE  Quiet
  <2>1. CASE Forced("create", t, NoItem, h)
    BY <2>1 DEF Forced
  <2>2. CASE Reply("create", t, nextLot, 200, "none")
    BY <2>2, <1>1, Answers
  <2>3. QED
    BY <1>2, <2>1, <2>2 DEF CreateLot
<1>3. ASSUME NEW t \in Tokens, NEW i \in Items, NEW h \in ForceHeaders,
             Bump(t, i, h)
      PROVE  Quiet
  <2>1. CASE Forced("bump", t, i, h) \/ Refuse("bump", t, i, 404)
    BY <2>1 DEF Forced, Refuse
  <2>2. CASE Reply("bump", t, i, 200, "none")
    BY <2>2, <1>1, Answers
  <2>3. QED
    BY <1>3, <2>1, <2>2 DEF Bump
<1>4. ASSUME NEW t \in Tokens, NEW i \in Items, NEW p \in Prices \cup {NoPrice},
             NEW h \in ForceHeaders, SetPrice(t, i, p, h)
      PROVE  Quiet
  <2>1. CASE \/ Forced("price", t, i, h)
             \/ Refuse("price", t, i, 400)
             \/ Refuse("price", t, i, 404)
    BY <2>1 DEF Forced, Refuse
  <2>2. CASE Reply("price", t, i, 200, "none")
    BY <2>2, <1>1, Answers
  <2>3. QED
    BY <1>4, <2>1, <2>2 DEF SetPrice
<1>5. ASSUME NEW t \in Tokens, NEW i \in Items, NEW f \in Armed \cup {NoFault},
             NEW h \in ForceHeaders, FastBuy(t, i, f, h)
      PROVE  Quiet
  <2>1. CASE Forced("buy", t, i, h) \/ Refuse("buy", t, i, 404)
    BY <2>1 DEF Forced, Refuse
  <2>2. CASE UNCHANGED <<stores, revoked, nextLot, nextPayment>>
    BY <2>2
  <2>3. CASE Reply("buy", t, i, 402, "charge_then_fail")
    BY <2>3, <1>1, Answers
  <2>4. CASE Reply("buy", t, i, 200, Outcome(f, i))
    BY <2>4, <1>1, Answers
  <2>5. QED
    BY <1>5, <2>1, <2>2, <2>3, <2>4 DEF FastBuy
<1>6. ASSUME NEW c \in Categories, NEW a \in Indices, NEW b \in Indices,
             WorldPage(c, a, b)
      PROVE  Quiet
  BY <1>6, <1>1, Answers DEF WorldPage
<1>7. ASSUME NEW i \in Items, CheckLot(i)
      PROVE  Quiet
  BY <1>7 DEF CheckLot
<1>8. ASSUME NEW t \in Tokens, NEW h \in ForceHeaders, CatchAll(t, h)
      PROVE  Quiet
  BY <1>8 DEF CatchAll, Forced, Refuse
<1>9. ASSUME NEW t \in Tokens, RevokeToken(t)
      PROVE  Quiet
  BY <1>9 DEF RevokeToken
<1>10. ASSUME ResetState
       PROVE  Quiet
  BY <1>10, <1>1, Answers DEF ResetState
<1>11. CASE UNCHANGED vars
  BY <1>11 DEF vars, stores
<1>12. QED
  BY <1>2, <1>3, <1>4, <1>5, <1>6, <1>7, <1>8, <1>9, <1>10, <1>11 DEF Next

\* An answer that tells the client to retry has changed no store: the retry
\* starts from the market the first attempt found.
THEOREM RetriesStartAfresh == Spec => TransientAnswerIsHarmless
<1>1. [Next]_vars =>
         [resp'.status \in Transient => UNCHANGED <<stores, nextPayment>>]_vars
  BY TransientStep
<1>2. QED
  BY <1>1, PTL DEF Spec, TransientAnswerIsHarmless

\* A handler that changes a stored lot is a bump or a price of its seller.
LEMMA SellerStep ==
    ASSUME [Next]_vars, NEW i \in DOMAIN lots \cap DOMAIN lots',
           lots'[i] # lots[i], TypeOK, MarketInv
    PROVE  /\ resp'.route \in {"bump", "price"}
           /\ resp'.item = i
           /\ resp'.token = lots[i].seller
<1> DEFINE Goal == /\ resp'.route \in {"bump", "price"}
                   /\ resp'.item = i
                   /\ resp'.token = lots[i].seller
<1>1. lots' # lots
  OBVIOUS
<1>2. ASSUME NEW t \in Tokens, NEW p \in Prices \cup {NoPrice},
             NEW h \in ForceHeaders, CreateLot(t, p, h)
      PROVE  Goal
  <2>1. nextLot <= MaxLots /\ Put(nextLot, [seller |-> t, price |-> p,
                                            published |-> "now"])
    BY <1>1, <1>2 DEF CreateLot, Forced, stores
  <2>2. i = nextLot
    BY <2>1 DEF Put
  <2>3. nextLot \notin WorldIds
    BY <2>1, StableIdAssumption, BoundAssumption DEF TypeOK
  <2>4. ~(nextLot < nextLot)
    BY DEF TypeOK
  <2>5. nextLot \notin DOMAIN lots
    BY <2>3, <2>4 DEF MarketInv, IdsIssued
  <2>6. QED
    BY <2>2, <2>5
<1>3. ASSUME NEW t \in Tokens, NEW j \in Items, NEW h \in ForceHeaders,
             Bump(t, j, h)
      PROVE  Goal
  <2>1. /\ Owned(j, t)
        /\ Put(j, [lots[j] EXCEPT !.published = "now"])
        /\ Reply("bump", t, j, 200, "none")
    BY <1>1, <1>3 DEF Bump, Forced, Refuse, stores
  <2>2. i = j
    BY <2>1 DEF Put
  <2>3. QED
    BY <2>1, <2>2, Answers DEF Owned
<1>4. ASSUME NEW t \in Tokens, NEW j \in Items, NEW p \in Prices \cup {NoPrice},
             NEW h \in ForceHeaders, SetPrice(t, j, p, h)
      PROVE  Goal
  <2>1. /\ Owned(j, t)
        /\ Put(j, [lots[j] EXCEPT !.price = p])
        /\ Reply("price", t, j, 200, "none")
    BY <1>1, <1>4 DEF SetPrice, Forced, Refuse, stores
  <2>2. i = j
    BY <2>1 DEF Put
  <2>3. QED
    BY <2>1, <2>2, Answers DEF Owned
<1>5. ASSUME NEW t \in Tokens, NEW j \in Items, NEW f \in Armed \cup {NoFault},
             NEW h \in ForceHeaders, FastBuy(t, j, f, h)
      PROVE  Goal
  <2>1. Consume(j)
    BY <1>1, <1>5 DEF FastBuy, Forced, Refuse, stores
  <2>2. lots'[i] = lots[i]
    BY <2>1 DEF Consume
  <2>3. QED
    BY <2>2
<1>6. ASSUME NEW c \in Categories, NEW a \in Indices, NEW b \in Indices,
             WorldPage(c, a, b)
      PROVE  Goal
  BY <1>6 DEF WorldPage
<1>7. ASSUME ResetState
      PROVE  Goal
  BY <1>7 DEF ResetState
<1>8. CASE UNCHANGED lots
  BY <1>1, <1>8
<1>9. QED
  BY <1>2, <1>3, <1>4, <1>5, <1>6, <1>7, <1>8
     DEF Next, vars, stores, CheckLot, CatchAll, RevokeToken, Forced, Refuse

\* While a lot is on sale nobody but its seller changes what it says.
THEOREM LotsAreTheirSellers == Spec => OnlyItsSellerChangesALot
<1> DEFINE Mine == \A i \in DOMAIN lots \cap DOMAIN lots' :
                      lots'[i] # lots[i] =>
                          /\ resp'.route \in {"bump", "price"}
                          /\ resp'.item = i
                          /\ resp'.token = lots[i].seller
<1>1. TypeOK /\ MarketInv /\ [Next]_vars => [Mine]_vars
  BY SellerStep
<1>2. QED
  BY <1>1, TypeCorrect, MarketInvariant, PTL DEF Spec, OnlyItsSellerChangesALot

=============================================================================
