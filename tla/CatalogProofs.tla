---------------------------- MODULE CatalogProofs ----------------------------
(***************************************************************************)
(* Theorems about Catalog: the folds of a query and the order of a page,   *)
(* for every item the generator can draw and every query a client can      *)
(* send, and with them what every listing shows and what a poller sees.    *)
(***************************************************************************)
EXTENDS Catalog, ProofTools

\* The one element of a singleton.
LEMMA OnlyOne == ASSUME NEW x PROVE Only({x}) = x
BY DEF Only

\* A remainder is below its divisor; the folds rest on nothing else.
LEMMA Remainder ==
    ASSUME NEW value \in Int, NEW n \in Int, n > 0
    PROVE  value % n \in Int /\ 0 <= value % n /\ value % n < n
OBVIOUS

\* With both ends given and in order, a folded price is in the window.
LEMMA FoldBetween ==
    ASSUME NEW value \in Int, NEW l \in Int, NEW h \in Int, h >= l
    PROVE  InWindow(FoldIntoWindow(value, {l}, {h}), {l}, {h})
<1>0. Only({l}) = l /\ Only({h}) = h /\ {l} # {} /\ {h} # {}
  BY OnlyOne
<1>1. FoldIntoWindow(value, {l}, {h}) = l + (value % (h - l + 1))
  BY <1>0 DEF FoldIntoWindow
<1> DEFINE r == value % (h - l + 1)
<1>2. r \in Int /\ 0 <= r /\ r < h - l + 1
  BY Remainder
<1> HIDE DEF r
<1>3. l + r >= l /\ l + r <= h
  BY <1>2
<1>4. QED
  BY <1>1, <1>3 DEF InWindow, r

\* With the upper end alone, one or more, a folded price does not exceed it.
LEMMA FoldBelow ==
    ASSUME NEW value \in Int, NEW h \in Int, h >= 1
    PROVE  InWindow(FoldIntoWindow(value, {}, {h}), {}, {h})
<1> DEFINE d == IF h > 1 THEN h ELSE 1
           r == value % d
<1>0. Only({h}) = h /\ {h} # {}
  BY OnlyOne
<1>1. FoldIntoWindow(value, {}, {h}) = IF value <= h THEN value ELSE 1 + r
  BY <1>0 DEF FoldIntoWindow
<1>2. d = h
  OBVIOUS
<1>3. r \in Int /\ r < h
  BY <1>2, Remainder
<1> HIDE DEF d, r
<1>4. (IF value <= h THEN value ELSE 1 + r) <= h
  BY <1>3
<1>5. QED
  BY <1>1, <1>4 DEF InWindow

\* With the lower end alone, a folded price is not below it.
LEMMA FoldAbove ==
    ASSUME NEW value \in Int, NEW l \in Int
    PROVE  InWindow(FoldIntoWindow(value, {l}, {}), {l}, {})
<1> DEFINE d == IF l > 1 THEN l ELSE 1
           r == value % d
<1>0. Only({l}) = l /\ {l} # {}
  BY OnlyOne
<1>1. FoldIntoWindow(value, {l}, {}) = IF value >= l THEN value ELSE l + r
  BY <1>0 DEF FoldIntoWindow
<1>2. d \in Int /\ d > 0
  OBVIOUS
<1>3. r \in Int /\ 0 <= r
  BY <1>2, Remainder
<1> HIDE DEF d, r
<1>4. (IF value >= l THEN value ELSE l + r) >= l
  BY <1>3
<1>5. QED
  BY <1>1, <1>4 DEF InWindow

\* Whatever price was drawn and whatever window a client asks for, the folded
\* price is in it, unless the window cannot be met: its ends cross, or its
\* upper end is below one.
THEOREM FoldedPriceIsInWindow ==
    ASSUME NEW value \in Int, NEW low, NEW high,
           low = {} \/ \E l \in Int : low = {l},
           high = {} \/ \E h \in Int : high = {h},
           ~Unsatisfiable(low, high)
    PROVE  InWindow(FoldIntoWindow(value, low, high), low, high)
<1>1. CASE low = {} /\ high = {}
  BY <1>1 DEF InWindow
<1>2. CASE low = {} /\ high # {}
  <2>1. PICK h \in Int : high = {h}
    BY <1>2
  <2>2. h >= 1
    BY <2>1 DEF Unsatisfiable
  <2>3. QED
    BY <1>2, <2>1, <2>2, FoldBelow
<1>3. CASE low # {} /\ high = {}
  <2>1. PICK l \in Int : low = {l}
    BY <1>3
  <2>2. QED
    BY <1>3, <2>1, FoldAbove
<1>4. CASE low # {} /\ high # {}
  <2>1. PICK l \in Int : low = {l}
    BY <1>4
  <2>2. PICK h \in Int : high = {h}
    BY <1>4
  <2>3. h >= l
    BY <2>1, <2>2 DEF Unsatisfiable
  <2>4. QED
    BY <2>1, <2>2, <2>3, FoldBetween
<1>5. QED
  BY <1>1, <1>2, <1>3, <1>4

-----------------------------------------------------------------------------
(* The rules of a query, one after the other *)

\* What one rule does to an item.
LEMMA OneRule ==
  ASSUME NEW item \in ItemType, NEW rule \in RuleType
  PROVE  /\ Rule(item, rule) \in ItemType
         /\ Rule(item, rule).id = item.id /\ Rule(item, rule).price = item.price
         /\ Rule(item, rule).ban = IF rule.name = "no_vac" THEN 0 ELSE item.ban
         /\ Rule(item, rule).origin =
               CASE rule.name = "origin" /\ rule.values # <<>> -> Head(rule.values)
                 [] rule.name = "not_origin" /\ item.origin \in ToSet(rule.values) ->
                       "generated"
                 [] OTHER -> item.origin
<1>1. rule.values # <<>> => Head(rule.values) \in Origins
  <2>1. rule.values \in Seq(Origins)
    BY DEF RuleType
  <2> QED  BY <2>1, HeadTailProperties
<1>2. CASE rule.name = "origin" /\ rule.values # <<>>
  <2>1. Rule(item, rule) = [item EXCEPT !.origin = Head(rule.values)]
    BY <1>2 DEF Rule
  <2> QED  BY <1>1, <1>2, <2>1 DEF ItemType
<1>3. CASE rule.name = "not_origin" /\ item.origin \in ToSet(rule.values)
  <2>1. Rule(item, rule) = [item EXCEPT !.origin = "generated"]
    BY <1>3 DEF Rule
  <2>2. "generated" \in Origins /\ rule.name # "origin" /\ rule.name # "no_vac"
    BY <1>3, CatalogAssumption
  <2> QED  BY <1>3, <2>1, <2>2 DEF ItemType
<1>4. CASE rule.name = "no_vac"
  <2>1. Rule(item, rule) = [item EXCEPT !.ban = 0]
    BY <1>4 DEF Rule
  <2> QED  BY <1>4, <2>1 DEF ItemType
<1>5. CASE /\ ~(rule.name = "origin" /\ rule.values # <<>>)
           /\ ~(rule.name = "not_origin" /\ item.origin \in ToSet(rule.values))
           /\ rule.name # "no_vac"
  <2>1. Rule(item, rule) = item
    BY <1>5 DEF Rule
  <2> QED  BY <1>5, <2>1 DEF ItemType
<1> QED  BY <1>2, <1>3, <1>4, <1>5

\* The item that the rules are folded over.
Base(item, query) ==
  [item EXCEPT !.price = FoldIntoWindow(@, query.low, query.high)]

\* G[k] is the item after the first k rules.
Folds(G, item, query) ==
  /\ G \in [0 .. Len(query.rules) -> ItemType]
  /\ G[0] = Base(item, query)
  /\ G[Len(query.rules)] = Folded(item, query)
  /\ \A k \in 1 .. Len(query.rules) : G[k] = Rule(G[k - 1], query.rules[k])

LEMMA FoldedSteps ==
  ASSUME NEW item, NEW query, Base(item, query) \in ItemType,
         query.rules \in Seq(RuleType)
  PROVE  \E G : Folds(G, item, query)
<1> DEFINE s == query.rules
           n == Len(s)
           b == Base(item, query)
           op(l, k) == Rule(l, s[k])
           step == [p \in ItemType \X (1 .. n) |-> op(p[1], p[2])]
           Eq(J) == J = [x \in SUBSET (1 .. n) |->
                           IF x = {} THEN b ELSE op(J[x \ {Top(x)}], Top(x))]
<1>1. n \in Nat /\ DOMAIN s = 1 .. n /\ \A k \in 1 .. n : s[k] \in RuleType
  BY LenProperties, ElementOfSeq
<1>2. \A l \in ItemType, k \in 1 .. n : op(l, k) \in ItemType
  BY <1>1, OneRule
<1>3. b \in ItemType
  OBVIOUS
<1>4. step \in [ItemType \X (1 .. n) -> ItemType]
  BY <1>2
<1>5. Folded(item, query) = (CHOOSE J : Eq(J))[1 .. n]
  BY <1>1 DEF Folded, FoldLeft, MapThenFoldSet, Max, Top, Base
<1> HIDE DEF n, op, b
<1>6. \E J : Eq(J)
  <2> HIDE DEF step
  <2>1. PICK it : IsFold(it, ItemType, b, n, step)
    BY <1>1, <1>3, <1>4, FoldExists
  <2> USE DEF step
  <2>2. \A x \in SUBSET (1 .. n) : x # {} =>
           step[<<it[x \ {Top(x)}], Top(x)>>] = op(it[x \ {Top(x)}], Top(x))
    <3> SUFFICES ASSUME NEW x \in SUBSET (1 .. n), x # {}
                 PROVE  step[<<it[x \ {Top(x)}], Top(x)>>] = op(it[x \ {Top(x)}], Top(x))
      OBVIOUS
    <3>1. Top(x) \in 1 .. n /\ it[x \ {Top(x)}] \in ItemType
      BY <1>1, <2>1, TopType DEF IsFold
    <3> QED  BY <3>1
  <2> HIDE DEF step
  <2>3. Eq(it)
    BY <2>1, <2>2 DEF IsFold
  <2> QED  BY <2>3
<1> DEFINE J == CHOOSE J : Eq(J)
           G == [k \in 0 .. n |-> J[1 .. k]]
<1>7. Eq(J)
  BY <1>6
<1> HIDE DEF J
<1>8. G[0] = b
  BY <1>1, <1>7
<1>9. \A k \in 1 .. n : G[k] = op(G[k - 1], k)
  <2> SUFFICES ASSUME NEW k \in 1 .. n PROVE G[k] = op(G[k - 1], k)
    OBVIOUS
  <2>1. /\ 1 .. k \in SUBSET (1 .. n) /\ k \in 1 .. k /\ k \in Nat
        /\ (1 .. k) \ {k} = 1 .. k - 1
        /\ k - 1 \in 0 .. n
    BY <1>1
  <2>2. Top(1 .. k) = k
    BY <2>1, TopIs
  <2>3. J[1 .. k] = op(J[1 .. k - 1], k)
    BY <1>7, <2>1, <2>2
  <2> QED  BY <2>1, <2>3
<1>10. \A k \in 0 .. n : G[k] \in ItemType
  <2> DEFINE I == {k \in 0 .. n : G[k] \in ItemType}
  <2>1. 0 \in I
    <3> HIDE DEF G
    <3>1. 0 \in 0 .. n
      BY <1>1
    <3> QED  BY <1>3, <1>8, <3>1
  <2>2. ASSUME NEW k \in 0 .. n - 1, k \in I
        PROVE  k + 1 \in I
    <3>1. k + 1 \in 1 .. n /\ (k + 1) - 1 = k /\ k + 1 \in 0 .. n
      BY <1>1
    <3>2. G[k] \in ItemType
      BY <2>2
    <3> HIDE DEF G
    <3> QED  BY <1>2, <1>9, <3>1, <3>2
  <2> HIDE DEF I, G
  <2>3. \A k \in 0 .. n : k \in I
    BY <1>1, <2>1, <2>2, InductionUpTo
  <2> QED  BY <2>3 DEF I
<1>11. G[n] = Folded(item, query)
  BY <1>1, <1>5 DEF J
<1>12. G \in [0 .. n -> ItemType]
  BY <1>10
<1> HIDE DEF G
<1>13. Folds(G, item, query)
  BY <1>8, <1>9, <1>11, <1>12 DEF Folds, b, op, n
<1> QED  BY <1>13

\* An end of a window of a query is one number or not there.
LEMMA Ends ==
  ASSUME NEW q \in Queries
  PROVE  /\ q.low = {} \/ \E l \in Int : q.low = {l}
         /\ q.high = {} \/ \E h \in Int : q.high = {h}
         /\ q.rules \in Seq(RuleType)
         /\ \A j, k \in DOMAIN q.rules : q.rules[j].name = q.rules[k].name => j = k
<1>1. \A end \in {q.low, q.high} : end \subseteq Int /\ \A m, n \in end : m = n
  BY QueryAssumption
<1>2. \A end \in {q.low, q.high} : end = {} \/ \E l \in Int : end = {l}
  <2> SUFFICES ASSUME NEW end \in {q.low, q.high}, end # {}
               PROVE  \E l \in Int : end = {l}
    OBVIOUS
  <2>1. PICK l \in end : TRUE
    OBVIOUS
  <2>2. l \in Int /\ end = {l}
    BY <1>1, <2>1
  <2> QED  BY <2>2
<1> QED  BY <1>2, QueryAssumption

\* A folded price is a price.
LEMMA FoldedPriceIsAPrice ==
  ASSUME NEW value \in Int, NEW low, NEW high,
         low = {} \/ \E l \in Int : low = {l},
         high = {} \/ \E h \in Int : high = {h}
  PROVE  FoldIntoWindow(value, low, high) \in Int
<1> DEFINE l == Only(low)
           h == Only(high)
<1>1. low # {} => l \in Int
  BY OnlyOne
<1>2. high # {} => h \in Int
  BY OnlyOne
<1> HIDE DEF l, h
<1>3. ASSUME NEW n \in Int, n > 0, NEW m \in Int
      PROVE  m + (value % n) \in Int
  BY <1>3, Remainder
<1>4. CASE low # {} /\ high # {} /\ h >= l
  <2>1. h - l + 1 \in Int /\ h - l + 1 > 0
    BY <1>1, <1>2, <1>4
  <2>2. FoldIntoWindow(value, low, high) = l + (value % (h - l + 1))
    BY <1>4 DEF FoldIntoWindow, l, h
  <2> QED  BY <1>1, <1>3, <1>4, <2>1, <2>2
<1>5. CASE high # {} /\ ~(low # {} /\ h >= l)
  <2> DEFINE n == IF h > 1 THEN h ELSE 1
             m == 1
  <2>1. n \in Int /\ n > 0 /\ m \in Int
    BY <1>2, <1>5
  <2>2. FoldIntoWindow(value, low, high) = IF value <= h THEN value ELSE m + (value % n)
    BY <1>5 DEF FoldIntoWindow, l, h
  <2> HIDE DEF n, m
  <2>3. m + (value % n) \in Int
    BY <1>3, <2>1
  <2> QED  BY <2>2, <2>3
<1>6. CASE low # {} /\ high = {}
  <2> DEFINE n == IF l > 1 THEN l ELSE 1
  <2>1. n \in Int /\ n > 0
    BY <1>1, <1>6
  <2>2. FoldIntoWindow(value, low, high) = IF value >= l THEN value ELSE l + (value % n)
    BY <1>6 DEF FoldIntoWindow, l, h
  <2> HIDE DEF n
  <2>3. l + (value % n) \in Int
    BY <1>1, <1>3, <1>6, <2>1
  <2> QED  BY <2>2, <2>3
<1>7. CASE low = {} /\ high = {}
  BY <1>7 DEF FoldIntoWindow
<1> QED  BY <1>4, <1>5, <1>6, <1>7

\* The base of the fold is an item with the id drawn and a price in the window.
LEMMA BaseIsAnItem ==
  ASSUME NEW item \in ItemType, NEW q \in Queries
  PROVE  /\ Base(item, q) \in ItemType
         /\ Base(item, q).id = item.id
         /\ ~Unsatisfiable(q.low, q.high) => InWindow(Base(item, q).price, q.low, q.high)
<1> DEFINE p == FoldIntoWindow(item.price, q.low, q.high)
<1>1. item.price \in Int
  BY DEF ItemType
<1>2. p \in Int
  BY <1>1, Ends, FoldedPriceIsAPrice
<1>3. ~Unsatisfiable(q.low, q.high) => InWindow(p, q.low, q.high)
  BY <1>1, Ends, FoldedPriceIsInWindow
<1>4. Base(item, q) = [item EXCEPT !.price = p]
  BY DEF Base
<1> HIDE DEF p
<1>5. /\ [item EXCEPT !.price = p] \in ItemType
      /\ [item EXCEPT !.price = p].id = item.id /\ [item EXCEPT !.price = p].price = p
  BY <1>2 DEF ItemType
<1> QED  BY <1>3, <1>4, <1>5

\* What a query asks of an item of the page, whatever was drawn.
Honours(item, q) ==
  /\ Unsatisfiable(q.low, q.high) \/ InWindow(item.price, q.low, q.high)
  /\ ~Contradictory(q.rules) =>
        /\ item.origin \notin Excluded(q.rules)
        /\ \A o \in Demanded(q.rules) : item.origin = o
  /\ (\E j \in DOMAIN q.rules : q.rules[j].name = "no_vac") => item.ban = 0

\* After k rules an item honours each of them, the later ones undoing nothing
\* the earlier ones did.
AfterRules(item, q, k) ==
  /\ (\E j \in 1 .. k : q.rules[j].name = "no_vac") => item.ban = 0
  /\ ~Contradictory(q.rules) =>
        \A j \in 1 .. k :
           /\ q.rules[j].name = "not_origin" => item.origin \notin ToSet(q.rules[j].values)
           /\ q.rules[j].name = "origin" /\ q.rules[j].values # <<>> =>
                 item.origin = Head(q.rules[j].values)

LEMMA RuleUndoesNothing ==
  ASSUME NEW q \in Queries, NEW k \in Nat, k + 1 \in DOMAIN q.rules,
         NEW item \in ItemType, AfterRules(item, q, k)
  PROVE  AfterRules(Rule(item, q.rules[k + 1]), q, k + 1)
<1> DEFINE s == q.rules
           r == s[k + 1]
           next == Rule(item, r)
<1>1. /\ s \in Seq(RuleType) /\ DOMAIN s = 1 .. Len(s) /\ r \in RuleType
      /\ \A i, j \in DOMAIN s : s[i].name = s[j].name => i = j
  BY Ends, LenProperties, ElementOfSeq
<1>2. \A j \in 1 .. k + 1 : j \in DOMAIN s /\ (j \in 1 .. k \/ j = k + 1)
  BY <1>1
<1>3. /\ next.ban = IF r.name = "no_vac" THEN 0 ELSE item.ban
      /\ next.origin = CASE r.name = "origin" /\ r.values # <<>> -> Head(r.values)
                         [] r.name = "not_origin" /\ item.origin \in ToSet(r.values) ->
                               "generated"
                         [] OTHER -> item.origin
  BY <1>1, OneRule
<1>4. \A j \in DOMAIN s : s[j].name = "not_origin" => ToSet(s[j].values) \subseteq Excluded(s)
  BY DEF Excluded
<1>5. \A j \in DOMAIN s : s[j].name = "origin" /\ s[j].values # <<>> =>
         Head(s[j].values) \in Demanded(s)
  BY DEF Demanded
<1>6. k + 1 \in DOMAIN s
  OBVIOUS
<1> HIDE DEF s, next, r
<1>7. (\E j \in 1 .. k + 1 : s[j].name = "no_vac") => next.ban = 0
  BY <1>2, <1>3 DEF AfterRules, s, r
<1>8. ASSUME ~Contradictory(s), NEW j \in 1 .. k + 1
      PROVE  /\ s[j].name = "not_origin" => next.origin \notin ToSet(s[j].values)
             /\ s[j].name = "origin" /\ s[j].values # <<>> => next.origin = Head(s[j].values)
  <2>0. "generated" \notin Excluded(s) /\ Demanded(s) \cap Excluded(s) = {}
    BY <1>8 DEF Contradictory
  <2>1. ASSUME j \in 1 .. k
        PROVE  /\ s[j].name = "not_origin" => item.origin \notin ToSet(s[j].values)
               /\ s[j].name = "origin" /\ s[j].values # <<>> =>
                     item.origin = Head(s[j].values)
    BY <1>8, <2>1 DEF AfterRules, s
  <2>2. CASE r.name = "origin" /\ r.values # <<>>
    <3>1. next.origin = Head(r.values)
      BY <1>3, <2>2
    <3>2. Head(r.values) \in Demanded(s)
      BY <1>5, <1>6, <2>2 DEF r
    <3>3. j \in DOMAIN s /\ (s[j].name = r.name => j = k + 1)
      BY <1>1, <1>2, <1>6 DEF r
    <3>4. s[j].name = "not_origin" => next.origin \notin ToSet(s[j].values)
      BY <1>4, <2>0, <3>1, <3>2, <3>3
    <3> QED  BY <2>2, <3>1, <3>3, <3>4 DEF r
  <2>3. CASE r.name = "not_origin" /\ item.origin \in ToSet(r.values)
    <3>1. next.origin = "generated"
      BY <1>3, <2>3
    <3>2. j \in DOMAIN s /\ ToSet(r.values) \subseteq Excluded(s)
      BY <1>2, <1>4, <1>6, <2>3 DEF r
    <3>3. s[j].name = "not_origin" => next.origin \notin ToSet(s[j].values)
      BY <1>4, <2>0, <3>1, <3>2
    <3>4. ~(s[j].name = "origin" /\ s[j].values # <<>>)
      <4> SUFFICES ASSUME s[j].name = "origin", s[j].values # <<>> PROVE FALSE
        OBVIOUS
      <4>1. j # k + 1
        BY <2>3 DEF r
      <4>2. item.origin = Head(s[j].values)
        BY <1>2, <2>1, <4>1
      <4>3. Head(s[j].values) \in Demanded(s)
        BY <1>5, <3>2
      <4> QED  BY <2>0, <2>3, <3>2, <4>2, <4>3
    <3> QED  BY <3>3, <3>4
  <2>4. CASE /\ ~(r.name = "origin" /\ r.values # <<>>)
             /\ ~(r.name = "not_origin" /\ item.origin \in ToSet(r.values))
    <3>1. next.origin = item.origin
      BY <1>3, <2>4
    <3>2. CASE j \in 1 .. k
      BY <2>1, <3>1, <3>2
    <3>3. CASE j = k + 1
      BY <2>4, <3>1, <3>3 DEF r
    <3> QED  BY <1>2, <3>2, <3>3
  <2> QED  BY <2>2, <2>3, <2>4
<1> QED  BY <1>7, <1>8 DEF AfterRules, s, next, r

\* Folding an item keeps its id and makes it honour the query.
LEMMA FoldedHonours ==
  ASSUME NEW item \in ItemType, NEW q \in Queries
  PROVE  /\ Folded(item, q) \in ItemType
         /\ Folded(item, q).id = item.id
         /\ Honours(Folded(item, q), q)
<1> DEFINE n == Len(q.rules)
<1>0. q.rules \in Seq(RuleType) /\ n \in Nat /\ DOMAIN q.rules = 1 .. n
  BY Ends, LenProperties
<1>1. PICK G : Folds(G, item, q)
  BY <1>0, BaseIsAnItem, FoldedSteps
<1>2. /\ G \in [0 .. n -> ItemType]
      /\ G[0] = Base(item, q) /\ G[n] = Folded(item, q)
      /\ \A k \in 1 .. n : G[k] = Rule(G[k - 1], q.rules[k])
  BY <1>1 DEF Folds
<1> DEFINE Good(k) == /\ G[k].id = item.id /\ G[k].price = Base(item, q).price
                      /\ AfterRules(G[k], q, k)
           I == {k \in 0 .. n : Good(k)}
<1>3. 0 \in I
  <2>1. AfterRules(G[0], q, 0)
    BY DEF AfterRules
  <2> QED  BY <1>0, <1>2, <2>1, BaseIsAnItem
<1>4. ASSUME NEW k \in 0 .. n - 1, k \in I
      PROVE  k + 1 \in I
  <2> HIDE DEF n
  <2>1. k + 1 \in 1 .. n /\ (k + 1) - 1 = k /\ k \in 0 .. n /\ k + 1 \in 0 .. n /\ k \in Nat
    BY <1>0
  <2>2. Good(k) /\ G[k] \in ItemType /\ q.rules[k + 1] \in RuleType
    BY <1>0, <1>2, <1>4, <2>1, ElementOfSeq DEF n
  <2>3. G[k + 1] = Rule(G[k], q.rules[k + 1])
    BY <1>2, <2>1
  <2>4. AfterRules(G[k + 1], q, k + 1)
    BY <1>0, <2>1, <2>2, <2>3, RuleUndoesNothing
  <2>5. G[k + 1].id = item.id /\ G[k + 1].price = Base(item, q).price
    BY <2>2, <2>3, OneRule
  <2> QED  BY <2>1, <2>4, <2>5
<1> HIDE DEF I, Good
<1>5. n \in I
  <2>1. \A k \in 0 .. n : k \in I
    BY <1>0, <1>3, <1>4, InductionUpTo
  <2> QED  BY <1>0, <2>1
<1>6. Good(n) /\ G[n] \in ItemType
  BY <1>0, <1>2, <1>5 DEF I
<1> DEFINE f == Folded(item, q)
<1>7. f.id = item.id /\ f.price = Base(item, q).price /\ AfterRules(f, q, n)
  BY <1>2, <1>6 DEF Good
<1> HIDE DEF f, n
<1>8. Unsatisfiable(q.low, q.high) \/ InWindow(f.price, q.low, q.high)
  BY <1>7, BaseIsAnItem
<1>9. (\E j \in DOMAIN q.rules : q.rules[j].name = "no_vac") => f.ban = 0
  BY <1>0, <1>7 DEF AfterRules
<1>10. ~Contradictory(q.rules) =>
          /\ f.origin \notin Excluded(q.rules)
          /\ \A o \in Demanded(q.rules) : f.origin = o
  BY <1>0, <1>7 DEF AfterRules, Excluded, Demanded
<1> QED  BY <1>2, <1>6, <1>7, <1>8, <1>9, <1>10 DEF Honours, f

-----------------------------------------------------------------------------
(* The order of a page *)

\* Whether item j is not after item k when items are in order; who is level
\* stays in the order drawn.
Le(items, order, j, k) ==
  CASE order = "price_to_up"   -> \/ items[j].price < items[k].price
                                  \/ items[j].price = items[k].price /\ j <= k
    [] order = "price_to_down" -> \/ items[j].price > items[k].price
                                  \/ items[j].price = items[k].price /\ j <= k
    [] OTHER -> j <= k

NotAfter(items, order) ==
  {p \in Nat \X Nat : Le(items, order, p[1], p[2])}

LEMMA NotAfterIs ==
  ASSUME NEW n \in Nat, NEW items \in [1 .. n -> ItemType], NEW order,
         NEW j \in 1 .. n, NEW k \in 1 .. n
  PROVE  /\ items[j].price \in Int /\ items[k].price \in Int
         /\ order = "price_to_up" =>
               (<<j, k>> \in NotAfter(items, order) <=>
                  \/ items[j].price < items[k].price
                  \/ items[j].price = items[k].price /\ j <= k)
         /\ order = "price_to_down" =>
               (<<j, k>> \in NotAfter(items, order) <=>
                  \/ items[j].price > items[k].price
                  \/ items[j].price = items[k].price /\ j <= k)
         /\ order # "price_to_up" /\ order # "price_to_down" =>
               (<<j, k>> \in NotAfter(items, order) <=> j <= k)
<1>1. <<j, k>> \in NotAfter(items, order) <=> Le(items, order, j, k)
  <2> DEFINE p == <<j, k>>
  <2>1. p \in Nat \X Nat /\ p[1] = j /\ p[2] = k
    OBVIOUS
  <2> HIDE DEF p
  <2>2. p \in NotAfter(items, order) <=> Le(items, order, p[1], p[2])
    BY <2>1, Zenon DEF NotAfter
  <2> QED  BY <2>1, <2>2 DEF p
<1>2. items[j].price \in Int /\ items[k].price \in Int
  BY DEF ItemType
<1> DEFINE before == <<j, k>> \in NotAfter(items, order)
<1> HIDE DEF before
<1>3. CASE order = "price_to_up"
  <2>1. Le(items, order, j, k) <=> \/ items[j].price < items[k].price
                                   \/ items[j].price = items[k].price /\ j <= k
    BY <1>3 DEF Le
  <2> QED  BY <1>1, <1>2, <1>3, <2>1
<1>4. CASE order = "price_to_down"
  <2>1. Le(items, order, j, k) <=> \/ items[j].price > items[k].price
                                   \/ items[j].price = items[k].price /\ j <= k
    BY <1>4 DEF Le
  <2> QED  BY <1>1, <1>2, <1>4, <2>1
<1>5. CASE order # "price_to_up" /\ order # "price_to_down"
  <2>1. Le(items, order, j, k) <=> j <= k
    BY <1>5 DEF Le
  <2> QED  BY <1>1, <1>2, <1>5, <2>1
<1> QED  BY <1>3, <1>4, <1>5

LEMMA NotAfterIsTotal ==
  ASSUME NEW n \in Nat, NEW items \in [1 .. n -> ItemType], NEW order
  PROVE  TotalOrder(n, NotAfter(items, order))
<1> DEFINE v(k) == items[k].price
           before(j, k) == <<j, k>> \in NotAfter(items, order)
<1>1. \A k \in 1 .. n : v(k) \in Int
  BY NotAfterIs
<1>2. \/ \A j, k \in 1 .. n : before(j, k) <=> v(j) < v(k) \/ (v(j) = v(k) /\ j <= k)
      \/ \A j, k \in 1 .. n : before(j, k) <=> v(j) > v(k) \/ (v(j) = v(k) /\ j <= k)
      \/ \A j, k \in 1 .. n : before(j, k) <=> j <= k
  <2>1. CASE order = "price_to_up"
    BY <2>1, NotAfterIs
  <2>2. CASE order = "price_to_down"
    BY <2>2, NotAfterIs
  <2>3. CASE order # "price_to_up" /\ order # "price_to_down"
    BY <2>3, NotAfterIs
  <2> QED  BY <2>1, <2>2, <2>3
<1> HIDE DEF v, before
<1>3. /\ \A j, k \in 1 .. n : before(j, k) \/ before(k, j)
      /\ \A j, k \in 1 .. n : before(j, k) /\ before(k, j) => j = k
      /\ \A i, j, k \in 1 .. n : before(i, j) /\ before(j, k) => before(i, k)
  <2>1. CASE \A j, k \in 1 .. n : before(j, k) <=> v(j) < v(k) \/ (v(j) = v(k) /\ j <= k)
    BY <1>1, <2>1
  <2>2. CASE \A j, k \in 1 .. n : before(j, k) <=> v(j) > v(k) \/ (v(j) = v(k) /\ j <= k)
    BY <1>1, <2>2
  <2>3. CASE \A j, k \in 1 .. n : before(j, k) <=> j <= k
    BY <2>3
  <2> QED  BY <1>2, <2>1, <2>2, <2>3
<1> QED  BY <1>3 DEF TotalOrder, before

\* at takes each place of a sorted page to the place of its item before.
Places(at, items, order) ==
  /\ at \in [DOMAIN items -> DOMAIN items]
  /\ \A k \in DOMAIN items : \E m \in DOMAIN items : at[m] = k
  /\ Sorted(items, order) = [m \in DOMAIN items |-> items[at[m]]]
  /\ \A l, m \in DOMAIN items : l <= m => <<at[l], at[m]>> \in NotAfter(items, order)
  /\ \A l, m \in DOMAIN items : at[l] = at[m] => l = m

LEMMA SortedPlaces ==
  ASSUME NEW n \in Nat, NEW items \in [1 .. n -> ItemType], NEW order
  PROVE  \E at : Places(at, items, order)
<1> DEFINE le == NotAfter(items, order)
           rank == Ranks(n, le)
           at == [m \in 1 .. n |-> CHOOSE k \in 1 .. n : rank[k] = m]
<1>0. DOMAIN items = 1 .. n
  OBVIOUS
<1>1. /\ rank \in [1 .. n -> 1 .. n]
      /\ \A k \in 1 .. n : \E j \in 1 .. n : rank[j] = k
      /\ \A j, k \in 1 .. n : rank[j] = rank[k] => j = k
      /\ \A j, k \in 1 .. n : rank[j] <= rank[k] => <<j, k>> \in le
  BY NotAfterIsTotal, RankOrders
<1>2. Sorted(items, order) = [m \in 1 .. n |-> items[at[m]]]
  <2> DEFINE Before(j, k) == CASE order = "price_to_up"   -> items[j].price < items[k].price
                               [] order = "price_to_down" -> items[j].price > items[k].price
                               [] OTHER                   -> FALSE
             Rank(k) == Cardinality({j \in 1 .. n :
                          Before(j, k) \/ (~Before(k, j) /\ j <= k)})
  <2>1. Sorted(items, order) =
           [m \in 1 .. n |-> items[CHOOSE k \in 1 .. n : Rank(k) = m]]
    BY <1>0 DEF Sorted
  <2>2. \A j, k \in 1 .. n :
           (Before(j, k) \/ (~Before(k, j) /\ j <= k)) <=> <<j, k>> \in le
    <3> DEFINE v(k) == items[k].price
               before(j, k) == <<j, k>> \in le
    <3>1. \A k \in 1 .. n : v(k) \in Int
      BY NotAfterIs
    <3>2. \/ \A j, k \in 1 .. n : /\ Before(j, k) <=> v(j) < v(k)
                                  /\ before(j, k) <=> v(j) < v(k) \/ (v(j) = v(k) /\ j <= k)
          \/ \A j, k \in 1 .. n : /\ Before(j, k) <=> v(j) > v(k)
                                  /\ before(j, k) <=> v(j) > v(k) \/ (v(j) = v(k) /\ j <= k)
          \/ \A j, k \in 1 .. n : ~Before(j, k) /\ (before(j, k) <=> j <= k)
      <4>1. CASE order = "price_to_up"
        BY <4>1, NotAfterIs
      <4>2. CASE order = "price_to_down"
        BY <4>2, NotAfterIs
      <4>3. CASE order # "price_to_up" /\ order # "price_to_down"
        BY <4>3, NotAfterIs
      <4> QED  BY <4>1, <4>2, <4>3
    <3> HIDE DEF v, before, Before
    <3>3. \A j, k \in 1 .. n :
             (Before(j, k) \/ (~Before(k, j) /\ j <= k)) <=> before(j, k)
      <4> SUFFICES ASSUME NEW j \in 1 .. n, NEW k \in 1 .. n
                   PROVE  (Before(j, k) \/ (~Before(k, j) /\ j <= k)) <=> before(j, k)
        OBVIOUS
      <4>1. v(j) \in Int /\ v(k) \in Int
        BY <3>1
      <4> QED  BY <3>2, <4>1
    <3> QED  BY <3>3 DEF before
  <2>3. \A k \in 1 .. n : {j \in 1 .. n : Before(j, k) \/ (~Before(k, j) /\ j <= k)}
                           = {j \in 1 .. n : <<j, k>> \in le}
    <3> HIDE DEF Before, le
    <3> QED  BY <2>2
  <2>4. \A k \in 1 .. n : Rank(k) = rank[k]
    <3> HIDE DEF Before, le
    <3> QED  BY <2>3 DEF Ranks
  <2> HIDE DEF Rank, rank
  <2>5. \A m \in 1 .. n :
           (CHOOSE k \in 1 .. n : Rank(k) = m) = (CHOOSE k \in 1 .. n : rank[k] = m)
    BY <2>4
  <2> QED  BY <2>1, <2>5
<1> HIDE DEF rank, le
<1>3. \A m \in 1 .. n : at[m] \in 1 .. n /\ rank[at[m]] = m
  BY <1>1
<1>4. at \in [1 .. n -> 1 .. n]
  BY <1>3
<1> HIDE DEF at
<1>5. \A k \in 1 .. n : \E m \in 1 .. n : at[m] = k
  <2> SUFFICES ASSUME NEW k \in 1 .. n PROVE \E m \in 1 .. n : at[m] = k
    OBVIOUS
  <2>1. rank[k] \in 1 .. n
    BY <1>1
  <2>2. at[rank[k]] \in 1 .. n /\ rank[at[rank[k]]] = rank[k]
    BY <1>3, <2>1
  <2> QED  BY <1>1, <2>1, <2>2
<1>6. \A l, m \in 1 .. n : l <= m => <<at[l], at[m]>> \in le
  <2> SUFFICES ASSUME NEW l \in 1 .. n, NEW m \in 1 .. n, l <= m
               PROVE  <<at[l], at[m]>> \in le
    OBVIOUS
  <2>1. at[l] \in 1 .. n /\ at[m] \in 1 .. n /\ rank[at[l]] <= rank[at[m]]
    BY <1>3
  <2> QED  BY <1>1, <2>1
<1>7. \A l, m \in 1 .. n : at[l] = at[m] => l = m
  BY <1>3
<1>8. Places(at, items, order)
  BY <1>0, <1>2, <1>4, <1>5, <1>6, <1>7 DEF Places, le
<1> QED  BY <1>8

\* A sorted page is in the order asked.
LEMMA SortedInOrder ==
  ASSUME NEW n \in Nat, NEW items \in [1 .. n -> ItemType], NEW order
  PROVE  InOrder(Sorted(items, order), order)
<1> DEFINE page == Sorted(items, order)
<1>1. PICK at : Places(at, items, order)
  BY SortedPlaces
<1>2. /\ at \in [1 .. n -> 1 .. n] /\ page = [m \in 1 .. n |-> items[at[m]]]
      /\ \A l, m \in 1 .. n : l <= m => <<at[l], at[m]>> \in NotAfter(items, order)
  BY <1>1 DEF Places
<1> HIDE DEF page
<1>3. ASSUME NEW l \in 1 .. n, NEW m \in 1 .. n, l < m
      PROVE  /\ order = "price_to_up"   => page[l].price <= page[m].price
             /\ order = "price_to_down" => page[l].price >= page[m].price
  <2>1. /\ page[l] = items[at[l]] /\ page[m] = items[at[m]]
        /\ at[l] \in 1 .. n /\ at[m] \in 1 .. n
        /\ items[at[l]].price \in Int /\ items[at[m]].price \in Int
    BY <1>2 DEF ItemType
  <2>2. <<at[l], at[m]>> \in NotAfter(items, order)
    BY <1>2, <1>3
  <2>3. order = "price_to_up" => page[l].price <= page[m].price
    <3> HAVE order = "price_to_up"
    <3> DEFINE x == at[l]
               y == at[m]
    <3>1. x \in 1 .. n /\ y \in 1 .. n /\ <<x, y>> \in NotAfter(items, order)
      BY <2>1, <2>2
    <3> HIDE DEF x, y
    <3>2. items[x].price < items[y].price \/ items[x].price = items[y].price
      BY <3>1, NotAfterIs
    <3> QED  BY <2>1, <3>2 DEF x, y
  <2>4. order = "price_to_down" => page[l].price >= page[m].price
    <3> HAVE order = "price_to_down"
    <3> DEFINE x == at[l]
               y == at[m]
    <3>1. x \in 1 .. n /\ y \in 1 .. n /\ <<x, y>> \in NotAfter(items, order)
      BY <2>1, <2>2
    <3> HIDE DEF x, y
    <3>2. items[x].price > items[y].price \/ items[x].price = items[y].price
      BY <3>1, NotAfterIs
    <3> QED  BY <2>1, <3>2 DEF x, y
  <2> QED  BY <2>3, <2>4
<1>4. DOMAIN page = 1 .. n
  BY <1>2
<1> QED  BY <1>3, <1>4 DEF InOrder, page
-----------------------------------------------------------------------------
(* The inductive invariant *)

Lot == [id : Nat, price : Int]

\* The id of a pushed lot: a pusher named it, or it was minted.
PushedId(id, named, next) == id \in named \/ id \in FirstMinted .. next - 1

\* A row of a poller that shows a drawn item shows the price drawn.
Shows(row, page) == \E k \in DOMAIN page : row.id = page[k].id /\ row.price = page[k].price

CatalogTyped ==
  /\ sample \in [Categories -> Drawn \cup {NotDrawn}]
  /\ injected \in [Categories -> Seq(Lot)]
  /\ nextId \in FirstMinted .. FirstMinted + MaxPushed
  /\ seen \in [Categories -> SUBSET Lot]

\* The lots of a category carry pushed ids; a poller's row shows a drawn item
\* with the price drawn, or a pushed lot.
PushedApart ==
  /\ \A c \in Categories : \A k \in DOMAIN injected[c] : PushedId(injected[c][k].id, given, nextId)
  /\ \A c \in Categories : \A row \in seen[c] :
        Shows(row, sample[c]) \/ PushedId(row.id, given, nextId)

\* The last listing is still the listing of its category: nothing it was made of
\* has changed since.
AnswerStands ==
  answer # NoListing =>
     /\ answer.category \in Categories /\ answer.query \in Queries
     /\ sample[answer.category] \in Drawn
     /\ answer.items = Listing(sample[answer.category], answer.query,
                               injected[answer.category])

CatalogInv == CatalogTyped /\ PushedApart /\ AnswerStands

-----------------------------------------------------------------------------
(* The page of a query and the listing it is part of *)

\* A drawn page, item by item.
LEMMA DrawnPage ==
  ASSUME NEW page \in Drawn
  PROVE  /\ page \in [1 .. Len(page) -> ItemType] /\ Len(page) \in Nat /\ Len(page) > 0
         /\ DOMAIN page = 1 .. Len(page)
         /\ \A k \in DOMAIN page : page[k].id < FirstMinted
         /\ \A j, k \in DOMAIN page : page[j].id = page[k].id => j = k
<1>1. page \in Seq(ItemType) /\ page # <<>>
  BY DrawnAssumption DEF NotDrawn
<1>2. Len(page) \in Nat /\ Len(page) # 0 /\ DOMAIN page = 1 .. Len(page)
  BY <1>1, LenProperties, EmptySeq
<1>3. \A k \in 1 .. Len(page) : page[k] \in ItemType
  BY <1>1, ElementOfSeq
<1>4. page \in [1 .. Len(page) -> ItemType]
  BY <1>1, LenProperties
<1> QED  BY <1>2, <1>4, DrawnAssumption

\* The page of a query shows each item drawn, once, folded and in order.
LEMMA FilteredPage ==
  ASSUME NEW page \in Drawn, NEW q \in Queries
  PROVE  /\ Filtered(page, q) \in [1 .. Len(page) -> ItemType]
         /\ \A k \in 1 .. Len(page) : Honours(Filtered(page, q)[k], q)
         /\ \A k \in 1 .. Len(page) : \E j \in 1 .. Len(page) :
               Filtered(page, q)[k] = Folded(page[j], q)
         /\ Ids(Filtered(page, q)) = Ids(page)
         /\ InOrder(Filtered(page, q), q.order)
<1> DEFINE n == Len(page)
           items == [k \in 1 .. n |-> Folded(page[k], q)]
           f == Filtered(page, q)
<1>1. /\ page \in [1 .. n -> ItemType] /\ n \in Nat /\ DOMAIN page = 1 .. n
  BY DrawnPage
<1>2. \A k \in 1 .. n : /\ Folded(page[k], q) \in ItemType
                        /\ Folded(page[k], q).id = page[k].id
                        /\ Honours(Folded(page[k], q), q)
  BY <1>1, FoldedHonours
<1>3. items \in [1 .. n -> ItemType] /\ DOMAIN items = 1 .. n
  BY <1>2
<1>4. f = Sorted(items, q.order)
  BY <1>1 DEF Filtered
<1>5. \A k \in 1 .. n : items[k] = Folded(page[k], q)
  OBVIOUS
<1> HIDE DEF items, f, n
<1>6. InOrder(f, q.order)
  BY <1>1, <1>3, <1>4, SortedInOrder
<1>7. PICK at : Places(at, items, q.order)
  BY <1>1, <1>3, SortedPlaces
<1>8. /\ at \in [1 .. n -> 1 .. n] /\ f = [m \in 1 .. n |-> items[at[m]]]
      /\ \A k \in 1 .. n : \E m \in 1 .. n : at[m] = k
  BY <1>3, <1>4, <1>7 DEF Places
<1>9. \A m \in 1 .. n : at[m] \in 1 .. n /\ f[m] = Folded(page[at[m]], q)
  BY <1>5, <1>8
<1>10. f \in [1 .. n -> ItemType]
  BY <1>3, <1>8
<1>11. DOMAIN f = 1 .. n
  BY <1>10
<1>12. Ids(f) = Ids(page)
  <2>1. \A m \in 1 .. n : f[m].id = page[at[m]].id
    BY <1>2, <1>9
  <2>2. \A m \in 1 .. n : \E k \in 1 .. n : f[m].id = page[k].id
    BY <1>9, <2>1
  <2>3. \A k \in 1 .. n : \E m \in 1 .. n : f[m].id = page[k].id
    <3> SUFFICES ASSUME NEW k \in 1 .. n PROVE \E m \in 1 .. n : f[m].id = page[k].id
      OBVIOUS
    <3>1. PICK m \in 1 .. n : at[m] = k
      BY <1>8
    <3> QED  BY <2>1, <3>1
  <2>4. Ids(f) = {f[k].id : k \in 1 .. n} /\ Ids(page) = {page[k].id : k \in 1 .. n}
    BY <1>1, <1>11 DEF Ids
  <2>5. \A x : x \in Ids(f) => x \in Ids(page)
    BY <2>2, <2>4
  <2>6. \A x : x \in Ids(page) => x \in Ids(f)
    BY <2>3, <2>4
  <2> QED  BY <2>5, <2>6
<1> QED  BY <1>2, <1>6, <1>9, <1>10, <1>12 DEF f, n

\* Who asks for everything is shown each item as it was drawn.
LEMMA PlainFoldsNothing ==
  ASSUME NEW item \in ItemType
  PROVE  Folded(item, Plain) = item
<1>1. Plain \in Queries /\ Plain.rules = <<>> /\ Plain.low = {} /\ Plain.high = {}
  BY CatalogAssumption DEF Plain
<1>2. PICK G : Folds(G, item, Plain)
  BY <1>1, Ends, BaseIsAnItem, FoldedSteps
<1>3. Len(Plain.rules) = 0
  BY <1>1
<1>4. Folded(item, Plain) = Base(item, Plain)
  BY <1>2, <1>3 DEF Folds
<1>5. FoldIntoWindow(item.price, {}, {}) = item.price
  BY DEF FoldIntoWindow
<1>6. Base(item, Plain) = [item EXCEPT !.price = item.price]
  BY <1>1, <1>5 DEF Base
<1> QED  BY <1>4, <1>6 DEF ItemType

\* A listing is the lots pushed, in the order pushed, and then the page.
LEMMA PrependedParts ==
  ASSUME NEW f \in Seq(ItemType), f # <<>>, NEW lots \in Seq(Lot)
  PROVE  /\ Prepended(f, lots) \in Seq(ItemType)
         /\ Len(Prepended(f, lots)) = Len(lots) + Len(f)
         /\ \A k \in 1 .. Len(lots) : /\ Prepended(f, lots)[k].id = lots[k].id
                                      /\ Prepended(f, lots)[k].price = lots[k].price
         /\ \A k \in 1 .. Len(f) : Prepended(f, lots)[Len(lots) + k] = f[k]
<1> DEFINE n == Len(lots)
           heads == [k \in 1 .. n |-> Row(Head(f), lots[k])]
<1>1. n \in Nat /\ DOMAIN lots = 1 .. n /\ \A k \in 1 .. n : lots[k] \in Lot
  BY LenProperties, ElementOfSeq
<1>2. Head(f) \in ItemType
  BY HeadTailProperties
<1>3. \A k \in 1 .. n : /\ Row(Head(f), lots[k]) \in ItemType
                        /\ Row(Head(f), lots[k]).id = lots[k].id
                        /\ Row(Head(f), lots[k]).price = lots[k].price
  BY <1>1, <1>2 DEF Row, ItemType, Lot
<1>4. heads \in Seq(ItemType) /\ Len(heads) = n
  BY <1>1, <1>3
<1>5. \A k \in 1 .. n : heads[k].id = lots[k].id /\ heads[k].price = lots[k].price
  BY <1>3
<1>6. Prepended(f, lots) = heads \o f
  BY <1>1 DEF Prepended
<1> HIDE DEF heads, n
<1>7. /\ heads \o f \in Seq(ItemType) /\ Len(heads \o f) = n + Len(f)
      /\ \A k \in 1 .. n : (heads \o f)[k] = heads[k]
      /\ \A k \in 1 .. Len(f) : (heads \o f)[n + k] = f[k]
  <2>1. Len(f) \in Nat
    BY LenProperties
  <2>2. /\ heads \o f \in Seq(ItemType) /\ Len(heads \o f) = n + Len(f)
        /\ \A k \in 1 .. n + Len(f) :
              (heads \o f)[k] = IF k <= n THEN heads[k] ELSE f[k - n]
    BY <1>4, ConcatProperties
  <2> DEFINE whole == heads \o f
             m == Len(f)
  <2> HIDE DEF whole, m
  <2>3. \A k \in 1 .. n + m : whole[k] = IF k <= n THEN heads[k] ELSE f[k - n]
    BY <2>2 DEF whole, m
  <2>4. \A k \in 1 .. n : whole[k] = heads[k]
    <3> SUFFICES ASSUME NEW k \in 1 .. n PROVE whole[k] = heads[k]
      OBVIOUS
    <3>1. k \in 1 .. n + m /\ k <= n
      BY <1>1, <2>1 DEF m
    <3> QED  BY <2>3, <3>1
  <2>5. \A k \in 1 .. m : whole[n + k] = f[k]
    <3> SUFFICES ASSUME NEW k \in 1 .. m PROVE whole[n + k] = f[k]
      OBVIOUS
    <3>1. n + k \in 1 .. n + m /\ ~(n + k <= n) /\ (n + k) - n = k
      BY <1>1, <2>1 DEF m
    <3> QED  BY <2>3, <3>1
  <2> QED  BY <2>2, <2>4, <2>5 DEF whole, m
<1> QED  BY <1>5, <1>6, <1>7 DEF n

\* A listing of a drawn page: as many heads as lots were pushed, with their
\* prices, and the page of the query behind them.
LEMMA ListingParts ==
  ASSUME NEW page \in Drawn, NEW q \in Queries, NEW lots \in Seq(Lot)
  PROVE  LET l == Listing(page, q, lots)
             f == Filtered(page, q)
         IN  /\ l \in Seq(ItemType)
             /\ Len(l) = Len(lots) + Len(page) /\ l # <<>>
             /\ \A k \in 1 .. Len(lots) : l[k].id = lots[k].id /\ l[k].price = lots[k].price
             /\ \A k \in 1 .. Len(page) : l[Len(lots) + k] = f[k]
             /\ SubSeq(l, Len(lots) + 1, Len(l)) = f
<1> DEFINE l == Listing(page, q, lots)
           f == Filtered(page, q)
           n == Len(page)
           h == Len(lots)
<1>1. /\ n \in Nat /\ n > 0 /\ h \in Nat
  BY DrawnPage, LenProperties
<1>2. f \in [1 .. n -> ItemType]
  BY FilteredPage
<1>3. l = Prepended(f, lots)
  BY DEF Listing
<1> HIDE DEF f, l, n, h
<1>4. f \in Seq(ItemType) /\ Len(f) = n
  BY <1>1, <1>2
<1>5. f # <<>>
  BY <1>1, <1>4
<1>6. /\ l \in Seq(ItemType) /\ Len(l) = h + n
      /\ \A k \in 1 .. h : l[k].id = lots[k].id /\ l[k].price = lots[k].price
      /\ \A k \in 1 .. n : l[h + k] = f[k]
  BY <1>3, <1>4, <1>5, PrependedParts DEF h
<1>7. l # <<>>
  BY <1>1, <1>6
<1>8. SubSeq(l, h + 1, Len(l)) = f
  <2> DEFINE m == h + 1
             t == h + n
             own == SubSeq(l, m, t)
  <2>1. m \in Int /\ t \in Int /\ t - m + 1 = n /\ m <= t
    BY <1>1
  <2>2. \A i \in m .. t : i \in 1 .. Len(l)
    BY <1>1, <1>6
  <2>3. \A i \in m .. t : l[i] \in ItemType
    BY <1>6, <2>2, ElementOfSeq
  <2>4. \A i \in 1 .. n : m + i - 1 = h + i
    BY <1>1
  <2> HIDE DEF m, t
  <2>5. /\ own \in Seq(ItemType) /\ Len(own) = n
        /\ \A i \in 1 .. n : own[i] = l[m + i - 1]
    BY <2>1, <2>3, SubSeqProperties
  <2> HIDE DEF own
  <2>6. \A i \in 1 .. n : own[i] = f[i]
    BY <1>6, <2>4, <2>5
  <2>7. own = f
    BY <1>4, <2>5, <2>6, SeqEqual
  <2> QED  BY <1>6, <2>7 DEF own, m, t
<1> QED  BY <1>6, <1>7, <1>8 DEF f, l, n, h

\* What a poller notes of a listing: pushed lots, and items as they were drawn.
LEMMA NotedRows ==
  ASSUME NEW page \in Drawn, NEW lots \in Seq(Lot),
         NEW k \in DOMAIN Listing(page, Plain, lots)
  PROVE  LET row == Listing(page, Plain, lots)[k]
         IN  /\ row \in ItemType
             /\ (\E j \in DOMAIN lots : row.id = lots[j].id) \/ Shows(row, page)
<1> DEFINE l == Listing(page, Plain, lots)
           f == Filtered(page, Plain)
           n == Len(page)
           h == Len(lots)
<1>0. Plain \in Queries
  BY CatalogAssumption
<1>1. /\ n \in Nat /\ n > 0 /\ h \in Nat /\ DOMAIN lots = 1 .. h /\ DOMAIN page = 1 .. n
      /\ page \in [1 .. n -> ItemType]
  BY DrawnPage, LenProperties
<1>2. /\ l \in Seq(ItemType) /\ Len(l) = h + n
      /\ \A j \in 1 .. h : l[j].id = lots[j].id /\ l[j].price = lots[j].price
      /\ \A j \in 1 .. n : l[h + j] = f[j]
  BY <1>0, ListingParts
<1>3. \A j \in 1 .. n : \E i \in 1 .. n : f[j] = Folded(page[i], Plain)
  BY <1>0, FilteredPage
<1>4. k \in DOMAIN l
  OBVIOUS
<1> HIDE DEF l, f, n, h
<1>5. k \in 1 .. h + n /\ l[k] \in ItemType
  BY <1>2, <1>4, LenProperties, ElementOfSeq
<1>6. CASE k \in 1 .. h
  BY <1>1, <1>2, <1>5, <1>6 DEF l
<1>7. CASE k \notin 1 .. h
  <2> DEFINE j == k - h
  <2>1. j \in 1 .. n /\ h + j = k
    BY <1>1, <1>5, <1>7
  <2> HIDE DEF j
  <2>2. PICK i \in 1 .. n : f[j] = Folded(page[i], Plain)
    BY <1>3, <2>1
  <2>3. l[k] = page[i]
    BY <1>1, <1>2, <2>1, <2>2, PlainFoldsNothing
  <2>4. Shows(l[k], page)
    BY <1>1, <2>3 DEF Shows
  <2> QED  BY <1>5, <2>4 DEF l
<1> QED  BY <1>6, <1>7

\* An id stays one of a pushed lot.
LEMMA PushedIdStays ==
  ASSUME nextId \in Nat, nextId' \in Nat, nextId' >= nextId, given \subseteq given',
         NEW id, PushedId(id, given, nextId)
  PROVE  PushedId(id, given', nextId')
<1>1. FirstMinted \in Nat
  BY CatalogAssumption
<1> QED  BY <1>1 DEF PushedId

LEMMA CatalogInit == CInit => CatalogInv
<1> SUFFICES ASSUME CInit PROVE CatalogInv
  OBVIOUS
<1>1. CatalogTyped
  <2> DEFINE e == <<>>
  <2>1. e \in Seq(Lot)
    BY EmptySeq
  <2>2. NotDrawn \in Drawn \cup {NotDrawn}
    OBVIOUS
  <2> HIDE DEF e
  <2>3. injected \in [Categories -> Seq(Lot)]
    BY <2>1 DEF CInit, e
  <2> QED  BY <2>2, <2>3, CatalogAssumption DEF CInit, CatalogTyped
<1>2. PushedApart
  <2>1. \A c \in Categories : DOMAIN injected[c] = {} /\ seen[c] = {}
    BY DEF CInit
  <2> QED  BY <2>1 DEF PushedApart
<1> QED  BY <1>1, <1>2 DEF CatalogInv, AnswerStands, CInit

\* A listing draws the page of its category if it must, and notes what it shows.
LEMMA CatalogRequest ==
  ASSUME CatalogInv, NEW c \in Categories, NEW q \in Queries, Request(c, q)
  PROVE  CatalogInv'
<1> DEFINE lots == injected[c]
<1>1. PICK page \in Pages(c) :
         /\ sample' = [sample EXCEPT ![c] = page]
         /\ Answered(c, q, Listing(page, q, lots))
  BY DEF Request
<1>2. page \in Drawn /\ (sample[c] = NotDrawn \/ sample[c] = page)
  BY <1>1 DEF Pages, CatalogInv, CatalogTyped
<1>3. lots \in Seq(Lot) /\ \A k \in DOMAIN lots : PushedId(lots[k].id, given, nextId)
  BY DEF CatalogInv, CatalogTyped, PushedApart
<1> DEFINE l == Listing(page, q, lots)
           rows == {[id |-> l[k].id, price |-> l[k].price] : k \in DOMAIN l}
<1>4. /\ answer' = [category |-> c, query |-> q, items |-> l]
      /\ seen' = IF q = Plain THEN [seen EXCEPT ![c] = @ \cup rows] ELSE seen
      /\ UNCHANGED <<injected, nextId, pushed, given>>
  BY <1>1 DEF Answered, Noted
<1>5. \A n : PushedId(n, given', nextId') <=> PushedId(n, given, nextId)
  BY <1>4 DEF PushedId
<1>6. ASSUME q = Plain, NEW row \in rows
      PROVE  row \in Lot /\ (Shows(row, page) \/ PushedId(row.id, given, nextId))
  <2>1. PICK k \in DOMAIN l : row = [id |-> l[k].id, price |-> l[k].price]
    BY <1>6
  <2>2. /\ l[k] \in ItemType
        /\ (\E j \in DOMAIN lots : l[k].id = lots[j].id) \/ Shows(l[k], page)
    BY <1>2, <1>3, <1>6, NotedRows
  <2> HIDE DEF l
  <2>3. row \in Lot /\ row.id = l[k].id /\ row.price = l[k].price
    BY <2>1, <2>2 DEF Lot, ItemType
  <2> QED  BY <1>3, <2>2, <2>3 DEF Shows
<1> HIDE DEF rows, l
<1>7. CatalogTyped'
  <2>1. seen' \in [Categories -> SUBSET Lot]
    BY <1>4, <1>6 DEF CatalogInv, CatalogTyped
  <2>2. sample' \in [Categories -> Drawn \cup {NotDrawn}]
    BY <1>1, <1>2 DEF CatalogInv, CatalogTyped
  <2> QED  BY <1>4, <2>1, <2>2 DEF CatalogInv, CatalogTyped
<1>8. PushedApart'
  <2>1. ASSUME NEW d \in Categories, NEW row \in seen'[d]
        PROVE  Shows(row, sample'[d]) \/ PushedId(row.id, given, nextId)
    <3>1. sample \in [Categories -> Drawn \cup {NotDrawn}] /\ seen \in [Categories -> SUBSET Lot]
      BY DEF CatalogInv, CatalogTyped
    <3>2. CASE row \in seen[d]
      <4>1. Shows(row, sample[d]) \/ PushedId(row.id, given, nextId)
        BY <3>2 DEF CatalogInv, PushedApart
      <4>2. sample[d] = NotDrawn => ~Shows(row, sample[d])
        <5>1. DOMAIN <<>> = {}
          OBVIOUS
        <5> QED  BY <5>1 DEF Shows, NotDrawn
      <4>3. sample[d] = NotDrawn \/ sample'[d] = sample[d]
        BY <1>1, <1>2, <3>1
      <4> QED  BY <4>1, <4>2, <4>3
    <3>3. CASE row \notin seen[d]
      <4>1. q = Plain /\ d = c /\ row \in rows
        BY <1>4, <2>1, <3>1, <3>3
      <4>2. sample'[d] = page
        BY <1>1, <3>1, <4>1
      <4> QED  BY <1>6, <4>1, <4>2
    <3> QED  BY <3>2, <3>3
  <2>2. \A d \in Categories : \A k \in DOMAIN injected'[d] : PushedId(injected'[d][k].id, given, nextId)
    BY <1>4 DEF CatalogInv, PushedApart
  <2> QED  BY <1>5, <2>1, <2>2 DEF PushedApart, Shows
<1>9. AnswerStands'
  <2>1. sample'[c] = page
    BY <1>1 DEF CatalogInv, CatalogTyped
  <2>2. answer'.category = c /\ answer'.query = q /\ answer'.items = l
    BY <1>4
  <2>3. injected'[c] = lots
    BY <1>4
  <2> QED  BY <1>2, <2>1, <2>2, <2>3 DEF AnswerStands, l
<1> QED  BY <1>7, <1>8, <1>9 DEF CatalogInv

\* A push adds a lot with the id it was given or that was minted for it, and
\* the listing it makes stale is forgotten.
LEMMA CatalogPush ==
  ASSUME CatalogInv, NEW c \in Categories, NEW n \in Pushed, NEW id \in Nat,
         Push(c, n, id), nextId' \in FirstMinted .. FirstMinted + MaxPushed,
         nextId' >= nextId, given \subseteq given', PushedId(id, given', nextId')
  PROVE  CatalogInv'
<1>0. FirstMinted \in Nat /\ MaxPushed \in Nat /\ n \in Int
  BY CatalogAssumption
<1>1. nextId \in Nat /\ nextId' \in Nat
  BY <1>0 DEF CatalogInv, CatalogTyped
<1> DEFINE lot == [id |-> id, price |-> n]
<1>2. lot \in Lot /\ lot.id = id
  BY <1>0 DEF Lot
<1> HIDE DEF lot
<1>3. /\ injected' = [injected EXCEPT ![c] = Append(injected[c], lot)]
      /\ answer' = NoListing /\ UNCHANGED <<sample, seen>>
  BY DEF Push, lot
<1>4. /\ Append(injected[c], lot) \in Seq(Lot)
      /\ Len(Append(injected[c], lot)) = Len(injected[c]) + 1
      /\ \A k \in 1 .. Len(injected[c]) : Append(injected[c], lot)[k] = injected[c][k]
      /\ Append(injected[c], lot)[Len(injected[c]) + 1] = lot
  BY <1>2, AppendProperties DEF CatalogInv, CatalogTyped
<1>5. CatalogTyped'
  BY <1>3, <1>4 DEF CatalogInv, CatalogTyped
<1>6. PushedApart'
  <2>1. ASSUME NEW d \in Categories, NEW k \in DOMAIN injected'[d]
        PROVE  PushedId(injected'[d][k].id, given', nextId')
    <3>1. injected[d] \in Seq(Lot) /\ injected \in [Categories -> Seq(Lot)]
      BY DEF CatalogInv, CatalogTyped
    <3>2. \A j \in DOMAIN injected[d] : PushedId(injected[d][j].id, given', nextId')
      BY <1>1, PushedIdStays DEF CatalogInv, PushedApart
    <3>3. CASE d # c
      <4>1. injected'[d] = injected[d]
        BY <1>3, <3>1, <3>3
      <4> QED  BY <2>1, <3>2, <4>1
    <3>4. CASE d = c
      <4>1. injected'[d] = Append(injected[d], lot)
        BY <1>3, <3>1, <3>4
      <4>2. k \in 1 .. Len(injected[d]) + 1 /\ Len(injected[d]) \in Nat
        BY <1>4, <2>1, <3>1, <3>4, <4>1, LenProperties
      <4>3. CASE k = Len(injected[d]) + 1
        BY <1>2, <1>4, <3>4, <4>1, <4>3
      <4>4. CASE k \in 1 .. Len(injected[d])
        <5>1. k \in DOMAIN injected[d] /\ injected'[d][k] = injected[d][k]
          BY <1>4, <3>1, <3>4, <4>1, <4>4, LenProperties
        <5> QED  BY <3>2, <5>1
      <4> QED  BY <4>2, <4>3, <4>4
    <3> QED  BY <3>3, <3>4
  <2>2. ASSUME NEW d \in Categories, NEW row \in seen'[d]
        PROVE  Shows(row, sample'[d]) \/ PushedId(row.id, given', nextId')
    BY <1>1, <1>3, <2>2, PushedIdStays DEF CatalogInv, PushedApart
  <2> QED  BY <2>1, <2>2 DEF PushedApart, Shows
<1>7. AnswerStands'
  BY <1>3 DEF AnswerStands, NoListing
<1> QED  BY <1>5, <1>6, <1>7 DEF CatalogInv

LEMMA CatalogStep ==
  ASSUME CatalogInv, [CNext]_cvars
  PROVE  CatalogInv'
<1>0. FirstMinted \in Nat /\ MaxPushed \in Nat
  BY CatalogAssumption
<1>1. nextId \in FirstMinted .. FirstMinted + MaxPushed /\ nextId \in Nat
  BY <1>0 DEF CatalogInv, CatalogTyped
<1>2. ASSUME NEW c \in Categories, NEW q \in Queries, Request(c, q)
      PROVE  CatalogInv'
  BY <1>2, CatalogRequest
<1>3. ASSUME NEW c \in Categories, NEW n \in Pushed, InjectMinted(c, n)
      PROVE  CatalogInv'
  <2>1. /\ Push(c, n, nextId) /\ nextId' = nextId + 1 /\ nextId < FirstMinted + MaxPushed
        /\ given \subseteq given'
    BY <1>3 DEF InjectMinted
  <2>2. nextId' \in FirstMinted .. FirstMinted + MaxPushed /\ nextId' >= nextId
    BY <1>0, <1>1, <2>1
  <2>3. PushedId(nextId, given', nextId')
    BY <1>0, <1>1, <2>1 DEF PushedId
  <2> QED  BY <1>1, <2>1, <2>2, <2>3, CatalogPush
<1>4. ASSUME NEW c \in Categories, NEW n \in Pushed, NEW id \in GivenIds,
             InjectGiven(c, n, id)
      PROVE  CatalogInv'
  <2>1. /\ Push(c, n, id) /\ nextId' = nextId /\ id \in Nat
        /\ given' = given \cup {id}
    BY <1>4, CatalogAssumption DEF InjectGiven
  <2>2. PushedId(id, given', nextId') /\ given \subseteq given'
    BY <2>1 DEF PushedId
  <2> QED  BY <1>0, <1>1, <2>1, <2>2, CatalogPush
<1>5. ASSUME ResetInjected
      PROVE  CatalogInv'
  <2> DEFINE e == <<>>
  <2>1. e \in Seq(Lot) /\ DOMAIN e = {}
    BY EmptySeq
  <2> HIDE DEF e
  <2>2. /\ injected' = [c \in Categories |-> e] /\ answer' = NoListing
        /\ UNCHANGED <<sample, nextId, seen, given>>
    BY <1>5 DEF ResetInjected, e
  <2>3. CatalogTyped'
    BY <2>1, <2>2 DEF CatalogInv, CatalogTyped
  <2>4. PushedApart'
    BY <2>1, <2>2 DEF CatalogInv, PushedApart, PushedId, Shows
  <2>5. AnswerStands'
    BY <2>2 DEF AnswerStands, NoListing
  <2> QED  BY <2>3, <2>4, <2>5 DEF CatalogInv
<1>6. ASSUME UNCHANGED cvars
      PROVE  CatalogInv'
  BY <1>6 DEF cvars, CatalogInv, CatalogTyped, PushedApart, PushedId, Shows, AnswerStands
<1> QED  BY <1>2, <1>3, <1>4, <1>5, <1>6 DEF CNext

\* The invariant holds in every state of the catalog.
THEOREM CatalogInvariant == CSpec => []CatalogInv
BY CatalogInit, CatalogStep, PTL DEF CSpec

-----------------------------------------------------------------------------
(* What clients of the catalog see *)

\* The page of the last listing.
LEMMA OwnPage ==
  ASSUME CatalogInv, answer # NoListing
  PROVE  /\ answer.category \in Categories /\ answer.query \in Queries
         /\ sample[answer.category] \in Drawn
         /\ Own = Filtered(sample[answer.category], answer.query)
         /\ Heading = Len(injected[answer.category])
         /\ \A k \in 1 .. Heading :
               /\ answer.items[k].id = injected[answer.category][k].id
               /\ answer.items[k].price = injected[answer.category][k].price
<1>1. /\ answer.category \in Categories /\ answer.query \in Queries
      /\ sample[answer.category] \in Drawn
      /\ answer.items = Listing(sample[answer.category], answer.query,
                                injected[answer.category])
  BY DEF CatalogInv, AnswerStands
<1>2. injected[answer.category] \in Seq(Lot)
  BY <1>1 DEF CatalogInv, CatalogTyped
<1>3. Heading = Len(injected[answer.category])
  BY DEF Heading
<1> DEFINE page == sample[answer.category]
           lots == injected[answer.category]
           l == answer.items
           q == answer.query
<1>0. page \in Drawn /\ q \in Queries /\ lots \in Seq(Lot) /\ l = Listing(page, q, lots)
  BY <1>1, <1>2
<1> HIDE DEF page, lots, l, q
<1>4. /\ Len(l) = Len(lots) + Len(page)
      /\ \A k \in 1 .. Len(lots) : l[k].id = lots[k].id /\ l[k].price = lots[k].price
      /\ SubSeq(l, Len(lots) + 1, Len(l)) = Filtered(page, q)
  BY <1>0, ListingParts
<1>5. Own = Filtered(page, q)
  BY <1>3, <1>4 DEF Own, lots, l
<1> QED  BY <1>1, <1>3, <1>4, <1>5 DEF page, lots, l, q

\* Before the first listing there is no page.
LEMMA NoPage ==
  ASSUME answer = NoListing
  PROVE  DOMAIN Own = {}
<1>1. answer.items = <<>> /\ Heading = 0
  BY DEF NoListing, Heading
<1>2. Own = <<>>
  BY <1>1, SubSeqEmpty DEF Own
<1> QED  BY <1>2

\* Whatever the generator drew and a client asks, every item of the page
\* honours the window, the exclusions and the flags of the query together.
THEOREM EveryItemHonours == CSpec => []EveryItemHonoursTheQuery
<1>1. CatalogInv => EveryItemHonoursTheQuery
  <2> SUFFICES ASSUME CatalogInv PROVE EveryItemHonoursTheQuery
    OBVIOUS
  <2>1. CASE answer = NoListing
    BY <2>1, NoPage DEF EveryItemHonoursTheQuery
  <2>2. CASE answer # NoListing
    <3> DEFINE page == sample[answer.category]
    <3>1. answer.query \in Queries /\ page \in Drawn /\ Own = Filtered(page, answer.query)
      BY <2>2, OwnPage
    <3>2. DOMAIN Own = 1 .. Len(page)
      BY <3>1, FilteredPage
    <3>3. \A k \in DOMAIN Own : Honours(Own[k], answer.query)
      BY <3>1, <3>2, FilteredPage
    <3> QED  BY <3>3 DEF EveryItemHonoursTheQuery, Honours, Asked
  <2> QED  BY <2>1, <2>2
<1> QED  BY <1>1, CatalogInvariant, PTL

\* The page of every listing shows each item drawn, in the order asked, by the
\* prices it shows.
THEOREM PageStaysFull == CSpec => []PageIsFullAndInOrder
<1>1. CatalogInv => PageIsFullAndInOrder
  <2> SUFFICES ASSUME CatalogInv PROVE PageIsFullAndInOrder
    OBVIOUS
  <2>1. CASE answer = NoListing
    BY <2>1, NoPage DEF PageIsFullAndInOrder, InOrder
  <2>2. CASE answer # NoListing
    BY <2>2, OwnPage, FilteredPage DEF PageIsFullAndInOrder, Asked
  <2> QED  BY <2>1, <2>2
<1> QED  BY <1>1, CatalogInvariant, PTL

\* Every listing of a category is headed by the lots pushed into it, with the
\* prices they were pushed at, whatever was asked.
THEOREM LotsHeadTheListing == CSpec => []InjectedLotsHeadTheListing
<1>1. CatalogInv => InjectedLotsHeadTheListing
  <2> SUFFICES ASSUME CatalogInv, answer # NoListing
               PROVE  [k \in 1 .. Heading |-> [id |-> answer.items[k].id,
                                               price |-> answer.items[k].price]]
                         = injected[answer.category]
    BY DEF InjectedLotsHeadTheListing
  <2> DEFINE lots == injected[answer.category]
             items == answer.items
             h == Heading
  <2>1. /\ lots \in Seq(Lot) /\ h = Len(lots)
        /\ \A k \in 1 .. h : items[k].id = lots[k].id /\ items[k].price = lots[k].price
    BY OwnPage DEF CatalogInv, CatalogTyped
  <2> HIDE DEF lots, items, h
  <2>2. /\ h \in Nat /\ DOMAIN lots = 1 .. h /\ \A k \in 1 .. h : lots[k] \in Lot
        /\ lots = [k \in 1 .. h |-> lots[k]]
    BY <2>1, LenProperties, ElementOfSeq
  <2>3. \A k \in 1 .. h : [id |-> items[k].id, price |-> items[k].price] = lots[k]
    BY <2>1, <2>2 DEF Lot
  <2>4. [k \in 1 .. h |-> [id |-> items[k].id, price |-> items[k].price]] = lots
    BY <2>2, <2>3
  <2> QED  BY <2>4 DEF lots, items, h
<1> QED  BY <1>1, CatalogInvariant, PTL

\* A poller never sees an item of a category change, whatever others ask for,
\* unless a lot was pushed under the item's own id.
THEOREM PollerSeesItemsStay == CSpec => []PollerSeesAStableWorld
<1>1. CatalogInv => PollerSeesAStableWorld
  <2> SUFFICES ASSUME CatalogInv, NEW c \in Categories,
                      NEW one \in seen[c], NEW two \in seen[c],
                      one.id = two.id, one.id \in Ids(sample[c]), one.id \notin given
               PROVE  one = two
    BY DEF PollerSeesAStableWorld
  <2>1. one \in Lot /\ two \in Lot /\ sample[c] \in Drawn \cup {NotDrawn}
    BY DEF CatalogInv, CatalogTyped
  <2>2. sample[c] \in Drawn
    <3>1. Ids(<<>>) = {}
      <4>1. DOMAIN <<>> = {}
        OBVIOUS
      <4> QED  BY <4>1 DEF Ids
    <3> QED  BY <2>1, <3>1 DEF NotDrawn
  <2>3. PICK k \in DOMAIN sample[c] : one.id = sample[c][k].id
    BY DEF Ids
  <2>4. ~PushedId(one.id, given, nextId)
    <3>1. sample[c][k].id < FirstMinted
      BY <2>2, DrawnPage
    <3>2. one.id \in Nat /\ FirstMinted \in Nat
      BY <2>1, CatalogAssumption DEF Lot
    <3> QED  BY <2>3, <3>1, <3>2 DEF PushedId
  <2>5. Shows(one, sample[c]) /\ Shows(two, sample[c])
    BY <2>4 DEF CatalogInv, PushedApart
  <2>6. PICK i \in DOMAIN sample[c] : one.id = sample[c][i].id /\ one.price = sample[c][i].price
    BY <2>5 DEF Shows
  <2>7. PICK j \in DOMAIN sample[c] : two.id = sample[c][j].id /\ two.price = sample[c][j].price
    BY <2>5 DEF Shows
  <2>8. i = j
    BY <2>2, <2>6, <2>7, DrawnPage
  <2> QED  BY <2>1, <2>6, <2>7, <2>8 DEF Lot
<1> QED  BY <1>1, CatalogInvariant, PTL

\* No poller has seen the id that a lot is minted, in any category or before
\* any reset, unless a pusher had named it: whatever ids pushers name, and
\* whatever pages are drawn below the band.
THEOREM MintedLotIsNews == CSpec => InjectedLotIsNews
<1> DEFINE News == nextId' > nextId /\ pushed'.id \notin given =>
                      \A c \in Categories : \A row \in seen[c] : row.id # pushed'.id
<1>1. CatalogInv /\ [CNext]_cvars => [News]_cvars
  <2> SUFFICES ASSUME CatalogInv, CNext, nextId' > nextId, pushed'.id \notin given,
                      NEW d \in Categories, NEW row \in seen[d]
               PROVE  row.id # pushed'.id
    OBVIOUS
  <2>0. FirstMinted \in Nat /\ nextId \in Nat /\ nextId >= FirstMinted
    BY CatalogAssumption DEF CatalogInv, CatalogTyped
  <2>1. nextId' # nextId
    BY <2>0
  <2>2. \A c \in Categories, q \in Queries : ~Request(c, q)
    BY <2>1 DEF Request, Answered
  <2>3. ~ResetInjected
    BY <2>1 DEF ResetInjected
  <2>4. \A c \in Categories, n \in Pushed, id \in GivenIds : ~InjectGiven(c, n, id)
    BY <2>1 DEF InjectGiven
  <2>5. PICK c \in Categories, n \in Pushed : InjectMinted(c, n)
    BY <2>2, <2>3, <2>4 DEF CNext
  <2>6. pushed'.id = nextId
    BY <2>5 DEF InjectMinted, Push
  <2>7. Shows(row, sample[d]) \/ PushedId(row.id, given, nextId)
    BY DEF CatalogInv, PushedApart
  <2>8. CASE Shows(row, sample[d])
    <3>1. PICK k \in DOMAIN sample[d] : row.id = sample[d][k].id
      BY <2>8 DEF Shows
    <3>2. sample[d] \in Drawn
      <4>1. DOMAIN <<>> = {} /\ sample[d] \in Drawn \cup {NotDrawn}
        BY DEF CatalogInv, CatalogTyped
      <4> QED  BY <3>1, <4>1 DEF NotDrawn
    <3>3. row.id \in Nat /\ row.id < FirstMinted
      BY <3>1, <3>2, DrawnPage DEF ItemType
    <3> QED  BY <2>0, <2>6, <3>3
  <2>9. CASE PushedId(row.id, given, nextId)
    <3>1. row.id \in given => row.id # pushed'.id
      OBVIOUS
    <3>2. row.id \in FirstMinted .. nextId - 1 => row.id # nextId
      BY <2>0
    <3> QED  BY <2>6, <2>9, <3>1, <3>2 DEF PushedId
  <2> QED  BY <2>7, <2>8, <2>9
<1> QED  BY <1>1, CatalogInvariant, PTL DEF CSpec, InjectedLotIsNews

=============================================================================
