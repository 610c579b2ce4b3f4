---------------------------- MODULE ReadersProofs ----------------------------
(***************************************************************************)
(* What a cursor walk shows, for every page size, market and interleaving. *)
(*                                                                         *)
(* The invariant WalkOK says what the cursor stands for: whatever is at or *)
(* below it and still asked for has been seen.  It rests on two facts of   *)
(* the market: a lot that stays on sale keeps its seller, and a payment is *)
(* recorded with an operation id above every one issued before, across     *)
(* resets, too.                                                            *)
(***************************************************************************)
EXTENDS Readers, LotMarketProofs, TLAPS

-----------------------------------------------------------------------------
(* The market under the walk *)

\* A lot that is on sale before and after a step has the same seller.
LEMMA SellerStays ==
    ASSUME TypeOK, MarketInv, [Next]_vars,
           NEW i \in DOMAIN lots \cap DOMAIN lots'
    PROVE  lots'[i].seller = lots[i].seller
<1> DEFINE Goal == lots'[i].seller = lots[i].seller
<1>1. lots[i] \in Lot
  BY DEF TypeOK
<1>2. ASSUME NEW t \in Tokens, NEW p \in Prices \cup {NoPrice},
             NEW h \in ForceHeaders, CreateLot(t, p, h)
      PROVE  Goal
  <2>1. CASE lots' = lots
    BY <2>1
  <2>2. CASE nextLot <= MaxLots /\ Put(nextLot, [seller |-> t, price |-> p,
                                                 published |-> "now"])
    <3>1. nextLot \notin WorldIds /\ ~(nextLot < nextLot)
      BY <2>2, StableIdAssumption, BoundAssumption DEF TypeOK
    <3>2. i # nextLot
      BY <3>1 DEF MarketInv, IdsIssued
    <3>3. QED
      BY <2>2, <3>2 DEF Put
  <2>3. QED
    BY <1>2, <2>1, <2>2 DEF CreateLot, Forced, stores
<1>3. ASSUME NEW t \in Tokens, NEW j \in Items, NEW h \in ForceHeaders,
             Bump(t, j, h)
      PROVE  Goal
  <2>1. lots' = lots \/ Put(j, [lots[j] EXCEPT !.published = "now"])
    BY <1>3 DEF Bump, Forced, Refuse, stores
  <2>2. QED
    BY <1>1, <2>1 DEF Put, Lot
<1>4. ASSUME NEW t \in Tokens, NEW j \in Items, NEW p \in Prices \cup {NoPrice},
             NEW h \in ForceHeaders, SetPrice(t, j, p, h)
      PROVE  Goal
  <2>1. lots' = lots \/ Put(j, [lots[j] EXCEPT !.price = p])
    BY <1>4 DEF SetPrice, Forced, Refuse, stores
  <2>2. QED
    BY <1>1, <2>1 DEF Put, Lot
<1>5. ASSUME NEW t \in Tokens, NEW j \in Items, NEW f \in Armed \cup {NoFault},
             NEW h \in ForceHeaders, FastBuy(t, j, f, h)
      PROVE  Goal
  <2>1. lots' = lots \/ Consume(j)
    BY <1>5 DEF FastBuy, Forced, Refuse, stores
  <2>2. QED
    BY <2>1 DEF Consume
<1>6. ASSUME NEW c \in Categories, NEW a \in Indices, NEW b \in Indices,
             WorldPage(c, a, b)
      PROVE  Goal
  BY <1>6 DEF WorldPage
<1>7. ASSUME ResetState
      PROVE  Goal
  BY <1>7 DEF ResetState
<1>8. CASE UNCHANGED lots
  BY <1>8
<1>9. QED
  BY <1>2, <1>3, <1>4, <1>5, <1>6, <1>7, <1>8
     DEF Next, vars, stores, CheckLot, CatchAll, RevokeToken, Forced, Refuse

\* A step keeps the ledger, empties it, or adds a payment with a fresh id; the
\* id counter never goes back.
LEMMA LedgerMoves ==
    ASSUME TypeOK, [Next]_vars
    PROVE  \/ UNCHANGED <<payments, nextPayment>>
           \/ payments' = <<>> /\ UNCHANGED nextPayment
           \/ /\ nextPayment' = nextPayment + 1
              /\ \E p \in Payment : /\ p.op = nextPayment
                                    /\ payments' = Append(payments, p)
<1> DEFINE Goal ==
       \/ UNCHANGED <<payments, nextPayment>>
       \/ payments' = <<>> /\ UNCHANGED nextPayment
       \/ /\ nextPayment' = nextPayment + 1
          /\ \E p \in Payment : /\ p.op = nextPayment
                                /\ payments' = Append(payments, p)
<1>1. ASSUME NEW t \in Tokens, NEW p \in Prices \cup {NoPrice},
             NEW h \in ForceHeaders, CreateLot(t, p, h)
      PROVE  Goal
  BY <1>1 DEF CreateLot, Forced, stores
<1>2. ASSUME NEW t \in Tokens, NEW j \in Items, NEW h \in ForceHeaders,
             Bump(t, j, h)
      PROVE  Goal
  BY <1>2 DEF Bump, Forced, Refuse, stores
<1>3. ASSUME NEW t \in Tokens, NEW j \in Items, NEW p \in Prices \cup {NoPrice},
             NEW h \in ForceHeaders, SetPrice(t, j, p, h)
      PROVE  Goal
  BY <1>3 DEF SetPrice, Forced, Refuse, stores
<1>4. ASSUME NEW t \in Tokens, NEW j \in Items, NEW f \in Armed \cup {NoFault},
             NEW h \in ForceHeaders, FastBuy(t, j, f, h)
      PROVE  Goal
  <2>1. UNCHANGED <<payments, nextPayment>> \/ (Available(j) /\ Charge(t, j))
    BY <1>4 DEF FastBuy, Forced, Refuse, stores
  <2>2. ASSUME Available(j), Charge(t, j)
        PROVE  Goal
    <3> DEFINE p == [op |-> nextPayment, account |-> t, item |-> j,
                     amount |-> lots[j].price]
    <3>1. lots[j] \in Lot
      BY <2>2 DEF TypeOK, Available
    <3>2. p \in Payment
      BY <3>1, ItemsAreIds DEF TypeOK, Lot, Payment
    <3>3. QED
      BY <2>2, <3>2 DEF Charge
  <2>3. QED
    BY <2>1, <2>2
<1>5. ASSUME NEW c \in Categories, NEW a \in Indices, NEW b \in Indices,
             WorldPage(c, a, b)
      PROVE  Goal
  BY <1>5 DEF WorldPage
<1>6. ASSUME ResetState
      PROVE  Goal
  BY <1>6 DEF ResetState
<1>7. CASE UNCHANGED <<payments, nextPayment>>
  BY <1>7
<1>8. QED
  BY <1>1, <1>2, <1>3, <1>4, <1>5, <1>6, <1>7
     DEF Next, vars, stores, CheckLot, CatchAll, RevokeToken, Forced, Refuse

\* The payments recorded at or below an id issued before the step were there
\* before it.
LEMMA NothingBehind ==
    ASSUME TypeOK, [Next]_vars, NEW c \in Nat, c < nextPayment,
           NEW k \in DOMAIN payments', payments'[k].op <= c
    PROVE  k \in DOMAIN payments /\ payments'[k] = payments[k]
<1>1. CASE UNCHANGED payments
  BY <1>1
<1>2. CASE payments' = <<>>
  BY <1>2
<1>3. ASSUME NEW p \in Payment, p.op = nextPayment, payments' = Append(payments, p)
      PROVE  k \in DOMAIN payments /\ payments'[k] = payments[k]
  <2>1. payments \in Seq(Payment) /\ nextPayment \in Nat
    BY DEF TypeOK
  <2>2. k \in 1 .. Len(payments) + 1
    BY <1>3, <2>1
  <2>3. k = Len(payments) + 1 => payments'[k] = p
    BY <1>3, <2>1
  <2>4. k # Len(payments) + 1
    BY <1>3, <2>1, <2>3
  <2>5. QED
    BY <1>3, <2>1, <2>2, <2>4
<1>4. QED
  BY <1>1, <1>2, <1>3, LedgerMoves

-----------------------------------------------------------------------------
(* The cursor's invariant *)

WalkType ==
    walk \in [of : {"nothing", "lots", "payments"},
              who : Tokens \cup {AnySeller}, cursor : Nat,
              seen : SUBSET [id : Nat, item : Nat], stayed : SUBSET Items]

SeenBelow == \A s \in walk.seen : s.id <= walk.cursor

LotsBehindSeen ==
    walk.of = "lots" =>
        \A i \in walk.stayed :
            /\ i \in OnSale(walk.who)
            /\ i <= walk.cursor => LotRow(i) \in walk.seen

PaymentsBehindSeen ==
    walk.of = "payments" =>
        /\ walk.who \in Tokens
        /\ walk.cursor < nextPayment
        /\ \A k \in PaymentsOf(walk.who) :
              payments[k].op <= walk.cursor => PaymentRow(k) \in walk.seen

WalkOK == WalkType /\ SeenBelow /\ LotsBehindSeen /\ PaymentsBehindSeen

\* Ids start at one: no cursor at all is the same as the cursor nought.
OpsPositive == \A k \in DOMAIN payments : payments[k].op > 0

RInv == TypeOK /\ MarketInv /\ OpsPositive /\ WalkOK

\* A request that reads or is refused leaves the market as it was.
Reads == UNCHANGED <<stores, revoked, nextLot, nextPayment, ticks>>

\* The rows of a listing carry ids the stores have issued.
LEMMA RowTypes ==
    ASSUME TypeOK, WalkType
    PROVE  Rows \subseteq [id : Nat, item : Nat]
<1>1. \A i \in OnSale(walk.who) : i \in Nat
  BY ItemsAreIds DEF OnSale, TypeOK
<1>2. \A k \in PaymentsOf(walk.who) : payments[k] \in Payment
  BY DEF PaymentsOf, TypeOK
<1>3. \A k \in PaymentsOf(walk.who) : payments[k].op \in Nat /\ payments[k].item \in Nat
  BY <1>2 DEF Payment
<1>4. QED
  BY <1>1, <1>3 DEF Rows, LotRow, PaymentRow

\* What the store holds at or below the last row of a page is on the page, or
\* at or below the cursor the page was asked with.
LEMMA NoGap ==
    ASSUME TypeOK, WalkType, NEW page, NEW limit \in Nat, IsPage(page, limit),
           NEW last \in page, NEW s \in Rows, s.id <= last.id
    PROVE  s.id <= walk.cursor \/ s \in page \/ s.id = last.id
<1>1. s.id \in Nat /\ last.id \in Nat /\ walk.cursor \in Nat
  BY RowTypes DEF IsPage, IsHead, WalkType
<1>2. CASE s.id > walk.cursor /\ s.id < last.id
  BY <1>2 DEF IsPage, IsHead
<1>3. QED
  BY <1>1, <1>2

\* No two rows of a listing have the same id.
LEMMA RowsAreUnique ==
    ASSUME TypeOK, LedgerAscends, NEW r \in Rows, NEW s \in Rows, r.id = s.id
    PROVE  r = s
<1>1. CASE walk.of = "lots"
  BY <1>1 DEF Rows, LotRow
<1>2. CASE walk.of # "lots"
  <2>1. PICK k \in PaymentsOf(walk.who) : r = PaymentRow(k)
    BY <1>2 DEF Rows
  <2>2. PICK l \in PaymentsOf(walk.who) : s = PaymentRow(l)
    BY <1>2 DEF Rows
  <2>3. k \in DOMAIN payments /\ l \in DOMAIN payments
    BY DEF PaymentsOf
  <2>4. payments[k].op = payments[l].op
    BY <2>1, <2>2 DEF PaymentRow
  <2>5. payments \in Seq(Payment) /\ payments[k] \in Payment
    BY <2>3 DEF TypeOK
  <2>6. ~(k < l) /\ ~(l < k)
    BY <2>3, <2>4, <2>5 DEF LedgerAscends, Payment
  <2>7. k = l
    BY <2>3, <2>5, <2>6
  <2>8. QED
    BY <2>1, <2>2, <2>7
<1>3. QED
  BY <1>1, <1>2

\* Nobody walks in the initial state.
LEMMA WalkInit == RInit => WalkOK
<1>1. Idle \in [of : {"nothing", "lots", "payments"},
                who : Tokens \cup {AnySeller}, cursor : Nat,
                seen : SUBSET [id : Nat, item : Nat], stayed : SUBSET Items]
  BY DEF Idle, NoCursor
<1>2. QED
  BY <1>1 DEF RInit, WalkOK, WalkType, SeenBelow, LotsBehindSeen,
              PaymentsBehindSeen, Idle, NoCursor

\* A walk that has just begun has nothing behind its cursor.
LEMMA WalkBegins ==
    ASSUME RInv, NEW of \in {"lots", "payments"},
           NEW who \in Tokens \cup {AnySeller}, Begin(of, who)
    PROVE  WalkOK'
<1>1. OnSale(who) \subseteq Items
  BY DEF RInv, TypeOK, OnSale
<1>2. walk' = [of |-> of, who |-> who, cursor |-> 0, seen |-> {},
               stayed |-> IF of = "lots" THEN OnSale(who) ELSE {}]
  BY DEF Begin, Idle, NoCursor
<1>3. WalkType'
  BY <1>1, <1>2 DEF WalkType
<1>4. UNCHANGED <<lots, payments, nextPayment>>
  BY DEF Begin, vars
<1>5. LotsBehindSeen'
  <2>1. \A i \in Items : i \in Nat /\ i > 0
    BY StableIdAssumption, BoundAssumption, ItemsAreIds DEF Items
  <2>2. QED
    BY <1>1, <1>2, <1>4, <2>1 DEF LotsBehindSeen, OnSale
<1>6. PaymentsBehindSeen'
  <2>1. nextPayment \in Nat \ {0}
    BY DEF RInv, TypeOK
  <2>2. \A k \in DOMAIN payments : payments[k] \in Payment /\ payments[k].op > 0
    BY DEF RInv, OpsPositive, TypeOK
  <2>3. of = "payments" => who \in Tokens
    BY DEF Begin
  <2>4. QED
    BY <1>2, <1>4, <2>1, <2>2, <2>3 DEF PaymentsBehindSeen, PaymentsOf, Payment
<1>7. QED
  BY <1>2, <1>3, <1>5, <1>6 DEF WalkOK, SeenBelow

\* Operation ids start at one, above NoCursor.
LEMMA OpsStayPositive ==
    ASSUME TypeOK, OpsPositive, [Next]_vars
    PROVE  OpsPositive'
<1>1. CASE UNCHANGED payments
  BY <1>1 DEF OpsPositive
<1>2. CASE payments' = <<>>
  BY <1>2 DEF OpsPositive
<1>3. ASSUME NEW p \in Payment, p.op = nextPayment, payments' = Append(payments, p)
      PROVE  OpsPositive'
  BY <1>3 DEF OpsPositive, TypeOK
<1>4. QED
  BY <1>1, <1>2, <1>3, LedgerMoves

\* A full page moves the cursor to its last row, and all up to there is seen.
LEMMA WalkAdvances ==
    ASSUME RInv, NEW page, NEW limit \in Nat, FullPage(page, limit)
    PROVE  WalkOK'
<1> USE DEF RInv
<1>1. PICK last \in page :
          /\ \A r \in page : r.id <= last.id
          /\ walk' = [walk EXCEPT !.cursor = last.id, !.seen = @ \cup page]
  BY DEF FullPage
<1>2. page \subseteq Rows /\ page \subseteq [id : Nat, item : Nat]
  BY RowTypes DEF FullPage, Served, IsPage, IsHead, WalkOK
<1>3. /\ walk.cursor \in Nat /\ last \in Rows /\ last.id \in Nat
      /\ walk.cursor < last.id
  <2>1. walk.cursor \in Nat /\ last \in [id : Nat, item : Nat]
    BY <1>2 DEF WalkOK, WalkType
  <2>2. last \in {r \in Rows : r.id > walk.cursor}
    BY DEF FullPage, Served, IsPage, IsHead
  <2>3. QED
    BY <2>1, <2>2
<1>4. /\ walk'.of = walk.of /\ walk'.who = walk.who
      /\ walk'.stayed = walk.stayed /\ walk'.cursor = last.id
      /\ walk'.seen = walk.seen \cup page
  BY <1>1 DEF WalkOK, WalkType
<1>5. WalkType'
  <2>1. walk.seen \cup page \in SUBSET [id : Nat, item : Nat]
    BY <1>2 DEF WalkOK, WalkType
  <2>2. walk \in [of : {"nothing", "lots", "payments"},
                  who : Tokens \cup {AnySeller}, cursor : Nat,
                  seen : SUBSET [id : Nat, item : Nat], stayed : SUBSET Items]
    BY DEF WalkOK, WalkType
  <2>3. QED
    BY <1>1, <1>3, <2>1, <2>2 DEF WalkType
<1>6. SeenBelow'
  <2>1. \A s \in walk.seen : s.id \in Nat /\ s.id <= walk.cursor
    BY DEF WalkOK, WalkType, SeenBelow
  <2>2. \A s \in page : s.id <= last.id
    BY <1>1
  <2>3. \A s \in walk.seen : s.id <= last.id
    BY <1>3, <2>1
  <2>4. QED
    BY <1>4, <2>2, <2>3 DEF SeenBelow
<1>7. ASSUME NEW s \in Rows, s.id <= last.id, ~(s.id <= walk.cursor)
      PROVE  s \in page
  <2>1. WalkType /\ LedgerAscends /\ IsPage(page, limit)
    BY DEF WalkOK, MarketInv, FullPage, Served
  <2>2. s \in page \/ s.id = last.id
    BY <1>7, <2>1, NoGap
  <2>3. s.id = last.id => s = last
    BY <1>3, <2>1, RowsAreUnique
  <2>4. QED
    BY <2>2, <2>3
<1>8. UNCHANGED <<lots, payments, nextPayment>>
  BY DEF FullPage, Served, stores
<1>9. LotsBehindSeen'
  <2>1. SUFFICES ASSUME walk.of = "lots", NEW i \in walk.stayed
                 PROVE  /\ i \in OnSale(walk.who)
                        /\ i <= last.id => LotRow(i) \in walk.seen \cup page
    BY <1>4, <1>8 DEF LotsBehindSeen, OnSale, LotRow
  <2>2. /\ i \in OnSale(walk.who)
        /\ i <= walk.cursor => LotRow(i) \in walk.seen
    BY <2>1 DEF WalkOK, LotsBehindSeen
  <2>3. LotRow(i) \in Rows /\ LotRow(i).id = i
    BY <2>1, <2>2 DEF Rows, LotRow
  <2>4. QED
    BY <1>7, <2>2, <2>3
<1>10. PaymentsBehindSeen'
  <2>1. SUFFICES ASSUME walk.of = "payments"
                 PROVE  /\ walk.who \in Tokens
                        /\ last.id < nextPayment
                        /\ \A k \in PaymentsOf(walk.who) :
                              payments[k].op <= last.id =>
                                  PaymentRow(k) \in walk.seen \cup page
    BY <1>4, <1>8 DEF PaymentsBehindSeen, PaymentsOf, PaymentRow
  <2>2. \A k \in PaymentsOf(walk.who) : PaymentRow(k) \in Rows
    BY <2>1 DEF Rows
  <2>3. \A k \in PaymentsOf(walk.who) : PaymentRow(k).id = payments[k].op
    BY DEF PaymentRow
  <2>4. /\ walk.who \in Tokens
        /\ \A k \in PaymentsOf(walk.who) :
              payments[k].op <= walk.cursor => PaymentRow(k) \in walk.seen
    BY <2>1 DEF WalkOK, PaymentsBehindSeen
  <2>5. \A k \in PaymentsOf(walk.who) :
            payments[k].op <= last.id => PaymentRow(k) \in walk.seen \cup page
    BY <1>7, <2>2, <2>3, <2>4
  <2>6. PICK k \in PaymentsOf(walk.who) : last = PaymentRow(k)
    BY <1>3, <2>1 DEF Rows
  <2>7. last.id < nextPayment
    BY <2>6 DEF PaymentRow, PaymentsOf, MarketInv, LedgerAscends
  <2>8. QED
    BY <2>4, <2>5, <2>7
<1>11. QED
  BY <1>5, <1>6, <1>9, <1>10 DEF WalkOK

\* The market may move as it likes: nothing appears behind the cursor that
\* the walk would have had to see.
LEMMA WalkSurvives ==
    ASSUME RInv, Meanwhile
    PROVE  WalkOK'
<1> USE DEF RInv
<1>1. /\ walk'.of = walk.of /\ walk'.who = walk.who
      /\ walk'.stayed = walk.stayed \cap DOMAIN lots'
      /\ walk'.cursor = walk.cursor /\ walk'.seen = walk.seen
  BY DEF Meanwhile, WalkOK, WalkType
<1>2. WalkType' /\ SeenBelow'
  BY <1>1 DEF Meanwhile, WalkOK, WalkType, SeenBelow
<1>3. [Next]_vars
  BY DEF Meanwhile
<1>4. LotsBehindSeen'
  <2>1. SUFFICES ASSUME walk.of = "lots",
                        NEW i \in walk.stayed \cap DOMAIN lots'
                 PROVE  /\ i \in OnSale(walk.who)'
                        /\ i <= walk.cursor => LotRow(i) \in walk.seen
    BY <1>1 DEF LotsBehindSeen, OnSale, LotRow
  <2>2. /\ i \in OnSale(walk.who)
        /\ i <= walk.cursor => LotRow(i) \in walk.seen
    BY <2>1 DEF WalkOK, LotsBehindSeen
  <2>3. lots'[i].seller = lots[i].seller
    BY <1>3, <2>2, SellerStays DEF OnSale
  <2>4. QED
    BY <1>1, <2>2, <2>3 DEF OnSale
<1>5. PaymentsBehindSeen'
  <2>1. SUFFICES ASSUME walk.of = "payments"
                 PROVE  /\ walk.who \in Tokens
                        /\ walk.cursor < nextPayment'
                        /\ \A k \in PaymentsOf(walk.who)' :
                              payments'[k].op <= walk.cursor =>
                                  PaymentRow(k)' \in walk.seen
    BY <1>1 DEF PaymentsBehindSeen, PaymentsOf, PaymentRow
  <2>2. /\ walk.who \in Tokens
        /\ walk.cursor < nextPayment
        /\ walk.cursor \in Nat /\ nextPayment \in Nat
    BY <2>1 DEF WalkOK, WalkType, PaymentsBehindSeen, TypeOK
  <2>3. walk.cursor < nextPayment'
    BY <1>3, <2>2, LedgerMoves
  <2>4. ASSUME NEW k \in DOMAIN payments', payments'[k].account = walk.who,
               payments'[k].op <= walk.cursor
        PROVE  PaymentRow(k)' \in walk.seen
    <3>1. k \in DOMAIN payments /\ payments'[k] = payments[k]
      BY <1>3, <2>2, <2>4, NothingBehind
    <3>2. PaymentRow(k) \in walk.seen
      BY <2>1, <2>4, <3>1 DEF WalkOK, PaymentsBehindSeen, PaymentsOf
    <3>3. QED
      BY <3>1, <3>2 DEF PaymentRow
  <2>5. QED
    BY <1>1, <2>2, <2>3, <2>4 DEF PaymentsOf
<1>6. QED
  BY <1>2, <1>4, <1>5 DEF WalkOK

\* The market's own invariants hold under its readers: a read is a stutter.
LEMMA ReadKeepsMarket ==
    ASSUME TypeOK, MarketInv, OpsPositive, Reads,
           resp' \in [route : Routes, token : Tokens \cup {NoToken},
                      item : Nat, status : Nat, note : Notes]
    PROVE  TypeOK' /\ MarketInv' /\ OpsPositive'
<1>1. TypeOK'
  BY DEF TypeOK, Reads, stores
<1>2. MarketInv'
  BY QuietStep DEF Reads
<1>3. QED
  BY <1>1, <1>2 DEF OpsPositive, Reads, stores

\* Every step of the walk and of the market keeps the strengthening.
LEMMA ReaderStep == RInv /\ [RNext]_rvars => RInv'
<1> SUFFICES ASSUME RInv, [RNext]_rvars PROVE RInv'
  OBVIOUS
<1> USE DEF RInv
<1> DEFINE Answer == [route : Routes, token : Tokens \cup {NoToken},
                      item : Nat, status : Nat, note : Notes]
<1>1. WalkOK' /\ UNCHANGED vars => RInv'
  BY QuietStep DEF vars, stores, TypeOK, OpsPositive
<1>2. ASSUME NEW of \in {"lots", "payments"},
             NEW t \in Tokens \cup {AnySeller}, Begin(of, t)
      PROVE  RInv'
  BY <1>1, <1>2, WalkBegins DEF Begin
<1>3. ASSUME Reading
      PROVE  walk.of \in Routes /\ Caller \in Tokens \cup {NoToken}
  <2>1. walk.of \in {"lots", "payments"}
    BY <1>3 DEF WalkOK, WalkType, Reading
  <2>2. walk.of = "payments" => walk.who \in Tokens
    BY DEF WalkOK, PaymentsBehindSeen
  <2>3. QED
    BY <2>1, <2>2 DEF Routes, Caller
<1>4. ASSUME NEW page, NEW n \in Limits, Served(page, n)
      PROVE  TypeOK' /\ MarketInv' /\ OpsPositive'
  <2>1. resp' \in Answer
    <3>1. NoItem \in Nat /\ 200 \in Nat /\ "none" \in Notes
      BY DEF NoItem, Notes
    <3>2. QED
      BY <1>3, <1>4, <3>1, ReplyType DEF Served
  <2>2. QED
    BY <1>4, <2>1, ReadKeepsMarket DEF Served, Reads
<1>5. ASSUME NEW page \in SUBSET Rows, NEW n \in Limits,
             FullPage(page, n) \/ LastPage(page, n)
      PROVE  RInv'
  <2>1. n \in Nat
    BY ReaderAssumption
  <2>2. FullPage(page, n) => WalkOK'
    BY <2>1, WalkAdvances
  <2>3. LastPage(page, n) => WalkOK'
    BY DEF LastPage, WalkOK, WalkType, SeenBelow, LotsBehindSeen,
           PaymentsBehindSeen, Idle, NoCursor
  <2>4. QED
    BY <1>4, <1>5, <2>2, <2>3 DEF FullPage, LastPage
<1>6. ASSUME NEW n \in Limits, NEW h \in ForceHeaders, ListRefused(n, h)
      PROVE  RInv'
  <2>1. UNCHANGED <<stores, revoked, nextLot, nextPayment, ticks, walk>>
    BY <1>6 DEF ListRefused, Forced, Refuse
  <2>2. WalkOK'
    BY <2>1 DEF stores, WalkOK, WalkType, SeenBelow, LotsBehindSeen,
                PaymentsBehindSeen, OnSale, LotRow, PaymentsOf, PaymentRow
  <2>3. TypeOK'
    <3>1. NoItem \in Nat /\ 500 \in Nat
      BY DEF NoItem
    <3>2. QED
      BY <1>3, <1>6, <3>1, ForcedType, RefusalType DEF ListRefused
  <2>4. MarketInv' /\ OpsPositive'
    BY <2>1, QuietStep DEF stores, OpsPositive
  <2>5. QED
    BY <2>2, <2>3, <2>4
<1>7. ASSUME Meanwhile
      PROVE  RInv'
  BY <1>7, WalkSurvives, TypeStep, MarketStep, OpsStayPositive DEF Meanwhile
<1>8. CASE UNCHANGED rvars
  BY <1>1, <1>8 DEF rvars, vars, WalkOK, WalkType, SeenBelow, LotsBehindSeen,
                    PaymentsBehindSeen, OnSale, LotRow, PaymentsOf, PaymentRow
<1>9. QED
  BY <1>2, <1>5, <1>6, <1>7, <1>8 DEF RNext

\* The empty market with no walk meets it.
LEMMA ReaderInit == RInit => RInv
<1>1. Init => OpsPositive
  BY DEF Init, OpsPositive
<1>2. QED
  BY <1>1, TypeInit, MarketInit, WalkInit DEF RInit, RInv

\* The market keeps its invariants under any number of cursor walks, and
\* whatever is at or below a walk's cursor has been seen by it.
THEOREM CursorInvariant == RSpec => []RInv
BY ReaderInit, ReaderStep, PTL DEF RSpec

-----------------------------------------------------------------------------
(* What a walk shows *)

\* The walk of GET /lots ends with every lot that was on sale all along.
THEOREM LotsWalkIsComplete == RSpec => LotsWalkShowsWhatStayed
<1> DEFINE Complete ==
       \A page \in SUBSET Rows, n \in Limits :
          LastPage(page, n) /\ walk.of = "lots" =>
              {LotRow(i) : i \in walk.stayed} \subseteq SeenWith(page)
<1>1. RInv => Complete
  <2>1. SUFFICES ASSUME RInv, NEW page \in SUBSET Rows, NEW n \in Limits,
                        LastPage(page, n), walk.of = "lots",
                        NEW i \in walk.stayed
                 PROVE  LotRow(i) \in walk.seen \cup page
    BY DEF SeenWith
  <2>2. n \in Nat /\ walk.cursor \in Nat /\ i \in Nat
    BY <2>1, ReaderAssumption, ItemsAreIds DEF RInv, WalkOK, WalkType
  <2>3. /\ i \in OnSale(walk.who)
        /\ i <= walk.cursor => LotRow(i) \in walk.seen
    BY <2>1 DEF RInv, WalkOK, LotsBehindSeen
  <2>4. LotRow(i) \in Rows /\ LotRow(i).id = i
    BY <2>1, <2>3 DEF Rows, LotRow
  <2>5. page = {r \in Rows : r.id > walk.cursor}
    BY <2>1, <2>2 DEF LastPage, Served, IsPage, IsHead
  <2>6. QED
    BY <2>2, <2>3, <2>4, <2>5
<1>2. RInv /\ [RNext]_rvars => [Complete]_rvars
  BY <1>1
<1>3. QED
  BY <1>2, CursorInvariant, PTL DEF RSpec, LotsWalkShowsWhatStayed

\* The walk of GET /payments ends with every payment of the account that the
\* ledger holds, resets under the walk included.
THEOREM PaymentsWalkIsComplete == RSpec => PaymentsWalkMissesNothing
<1> DEFINE Complete ==
       \A page \in SUBSET Rows, n \in Limits :
          LastPage(page, n) /\ walk.of = "payments" =>
              {PaymentRow(k) : k \in PaymentsOf(walk.who)} \subseteq
                  SeenWith(page)
<1>1. RInv => Complete
  <2>1. SUFFICES ASSUME RInv, NEW page \in SUBSET Rows, NEW n \in Limits,
                        LastPage(page, n), walk.of = "payments",
                        NEW k \in PaymentsOf(walk.who)
                 PROVE  PaymentRow(k) \in walk.seen \cup page
    BY DEF SeenWith
  <2>2. walk.cursor \in Nat /\ PaymentRow(k).id \in Nat
    <3>1. payments[k] \in Payment
      BY <2>1 DEF RInv, TypeOK, PaymentsOf
    <3>2. QED
      BY <2>1, <3>1 DEF RInv, WalkOK, WalkType, PaymentRow, Payment
  <2>3. payments[k].op <= walk.cursor => PaymentRow(k) \in walk.seen
    BY <2>1 DEF RInv, WalkOK, PaymentsBehindSeen
  <2>4. PaymentRow(k) \in Rows /\ PaymentRow(k).id = payments[k].op
    BY <2>1 DEF Rows, PaymentRow
  <2>5. page = {r \in Rows : r.id > walk.cursor}
    <3>1. n \in Nat
      BY ReaderAssumption
    <3>2. QED
      BY <2>1, <3>1 DEF LastPage, Served, IsPage, IsHead
  <2>6. QED
    BY <2>2, <2>3, <2>4, <2>5
<1>2. RInv /\ [RNext]_rvars => [Complete]_rvars
  BY <1>1
<1>3. QED
  BY <1>2, CursorInvariant, PTL DEF RSpec, PaymentsWalkMissesNothing

\* Each page is above all that was seen before it: no row comes twice.
THEOREM PagesAscend == RSpec => SeenOnceInOrder
<1> DEFINE Ascends ==
       \A page \in SUBSET Rows, n \in Limits :
          FullPage(page, n) \/ LastPage(page, n) =>
              \A r \in page, s \in walk.seen : s.id < r.id
<1>1. RInv => Ascends
  <2>1. SUFFICES ASSUME RInv, NEW page \in SUBSET Rows, NEW n \in Limits,
                        Served(page, n), NEW r \in page, NEW s \in walk.seen
                 PROVE  s.id < r.id
    BY DEF FullPage, LastPage
  <2>2. r.id \in Nat /\ s.id \in Nat /\ walk.cursor \in Nat
    BY <2>1, RowTypes DEF RInv, WalkOK, WalkType
  <2>3. r.id > walk.cursor
    BY <2>1 DEF Served, IsPage, IsHead
  <2>4. s.id <= walk.cursor
    BY <2>1 DEF RInv, WalkOK, SeenBelow
  <2>5. QED
    BY <2>2, <2>3, <2>4
<1>2. RInv /\ [RNext]_rvars => [Ascends]_rvars
  BY <1>1
<1>3. QED
  BY <1>2, CursorInvariant, PTL DEF RSpec, SeenOnceInOrder

=============================================================================
