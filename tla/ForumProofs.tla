----------------------------- MODULE ForumProofs -----------------------------
(***************************************************************************)
(* Theorems about ForumThreads and ForumWalk, for any threads, users,      *)
(* posts and page size.                                                    *)
(***************************************************************************)
EXTENDS ForumWalk, ProofTools

\* Ids handed out are below the counter: a new post's id is above all others
\* and in no thread, which is what makes PostIdsTellOrder inductive.
IdsBelowCounter ==
    \A t \in Threads : \A k \in DOMAIN threads[t] : threads[t][k] < nextPost

ThreadsTyped ==
    /\ threads \in [Threads -> Seq(PostIds)]
    /\ nextPost \in Nat

PostsInv ==
    /\ ThreadsTyped
    /\ IdsBelowCounter
    /\ PostIdsTellOrder

\* What Append does to a sequence, said of its indices.
LEMMA Appended ==
    ASSUME NEW S, NEW s \in Seq(S), NEW x \in S
    PROVE  /\ Append(s, x) \in Seq(S)
           /\ DOMAIN s = 1 .. Len(s)
           /\ DOMAIN Append(s, x) = 1 .. Len(s) + 1
           /\ Len(s) \in Nat
           /\ \A k \in 1 .. Len(s) : Append(s, x)[k] = s[k]
           /\ Append(s, x)[Len(s) + 1] = x
           /\ Elements(Append(s, x)) = Elements(s) \cup {x}
<1>1. /\ Append(s, x) \in Seq(S)
      /\ DOMAIN s = 1 .. Len(s)
      /\ DOMAIN Append(s, x) = 1 .. Len(s) + 1
      /\ Len(s) \in Nat
      /\ \A k \in 1 .. Len(s) : Append(s, x)[k] = s[k]
      /\ Append(s, x)[Len(s) + 1] = x
  BY AppendProperties, LenProperties
<1> DEFINE a == Append(s, x)
           n == Len(s)
<1>2. /\ DOMAIN s = 1 .. n
      /\ DOMAIN a = 1 .. n + 1
      /\ n \in Nat
      /\ \A k \in 1 .. n : a[k] = s[k]
      /\ a[n + 1] = x
  BY <1>1
<1> HIDE DEF a, n
<1>3. Elements(a) = Elements(s) \cup {x}
  BY <1>2 DEF Elements
<1>4. QED
  BY <1>1, <1>3 DEF a

\* An empty ThreadStore meets the invariant.
LEMMA PostsInit == FInit => PostsInv
BY DEF FInit, PostsInv, ThreadsTyped, IdsBelowCounter, PostIdsTellOrder, Elements

\* A post gets an id nobody has, at the end of its thread.
LEMMA AddPostStep ==
    ASSUME PostsInv, NEW t \in Threads, AddPost(t)
    PROVE  PostsInv'
<1> DEFINE s == threads[t]
           n == Len(s)
<1>1. /\ s \in Seq(PostIds) /\ nextPost \in PostIds
      /\ threads' = [threads EXCEPT ![t] = Append(s, nextPost)]
      /\ threads \in [Threads -> Seq(PostIds)]
      /\ nextPost' = nextPost + 1
  BY DEF PostsInv, ThreadsTyped, AddPost
<1>2. /\ threads'[t] = Append(s, nextPost)
      /\ \A u \in Threads : u # t => threads'[u] = threads[u]
  BY <1>1
<1>3. /\ threads'[t] \in Seq(PostIds)
      /\ DOMAIN s = 1 .. n
      /\ DOMAIN threads'[t] = 1 .. n + 1
      /\ n \in Nat
      /\ \A k \in 1 .. n : threads'[t][k] = s[k]
      /\ threads'[t][n + 1] = nextPost
      /\ Elements(threads'[t]) = Elements(s) \cup {nextPost}
  BY <1>1, <1>2, Appended
<1>4. PostIds \subseteq Nat /\ nextPost \in Nat
  BY <1>1 DEF PostIds
<1>5. \A u \in Threads : \A k \in DOMAIN threads[u] :
         threads[u][k] \in Nat /\ threads[u][k] < nextPost
  <2> SUFFICES ASSUME NEW u \in Threads, NEW k \in DOMAIN threads[u]
               PROVE  threads[u][k] \in Nat /\ threads[u][k] < nextPost
    OBVIOUS
  <2>1. threads[u] \in Seq(PostIds)
    BY <1>1
  <2>2. k \in 1 .. Len(threads[u])
    BY <2>1, LenProperties
  <2>3. threads[u][k] \in PostIds
    BY <2>1, <2>2, ElementOfSeq
  <2>4. QED
    BY <2>3, <1>4 DEF PostsInv, IdsBelowCounter
<1> HIDE DEF n
<1>6. ThreadsTyped'
  <2>1. threads' \in [Threads -> Seq(PostIds)]
    BY <1>1, <1>2, <1>3
  <2>2. QED
    BY <1>1, <1>4, <2>1 DEF ThreadsTyped
<1>7. IdsBelowCounter'
  <2> SUFFICES ASSUME NEW u \in Threads, NEW k \in DOMAIN threads'[u]
               PROVE  threads'[u][k] < nextPost'
    BY DEF IdsBelowCounter
  <2>1. CASE u # t
    BY <2>1, <1>1, <1>2, <1>4, <1>5
  <2>2. CASE u = t /\ k \in 1 .. n
    <3>1. threads'[u][k] = s[k] /\ k \in DOMAIN s
      BY <2>2, <1>3
    <3>2. s[k] \in Nat /\ s[k] < nextPost
      BY <3>1, <1>5
    <3> QED  BY <3>1, <3>2, <1>1, <1>4
  <2>3. CASE u = t /\ k = n + 1
    BY <2>3, <1>1, <1>3, <1>4
  <2>4. QED
    BY <2>1, <2>2, <2>3, <1>3
<1>8. PostIdsTellOrder'
  <2>1. \A u \in Threads : \A k, l \in DOMAIN threads'[u] :
           k < l => threads'[u][k] < threads'[u][l]
    <3> SUFFICES ASSUME NEW u \in Threads, NEW k \in DOMAIN threads'[u],
                        NEW l \in DOMAIN threads'[u], k < l
                 PROVE  threads'[u][k] < threads'[u][l]
      OBVIOUS
    <3>1. CASE u # t
      BY <3>1, <1>2 DEF PostsInv, PostIdsTellOrder
    <3>2. CASE u = t /\ l \in 1 .. n
      <4>1. k \in 1 .. n
        BY <3>2, <1>3
      <4>2. QED
        BY <3>2, <4>1, <1>3 DEF PostsInv, PostIdsTellOrder
    <3>3. CASE u = t /\ l = n + 1
      <4>1. k \in 1 .. n
        BY <3>3, <1>3
      <4>2. QED
        BY <3>3, <4>1, <1>3, <1>5
    <3>4. QED
      BY <3>1, <3>2, <3>3, <1>3
  <2>2. \A u \in Threads : nextPost \notin Elements(threads[u])
    BY <1>4, <1>5 DEF Elements
  <2>3. \A u \in Threads : Elements(threads'[u]) =
           IF u = t THEN Elements(threads[u]) \cup {nextPost} ELSE Elements(threads[u])
    BY <1>2, <1>3
  <2>4. \A u, v \in Threads :
           u # v => Elements(threads[u]) \cap Elements(threads[v]) = {}
    BY DEF PostsInv, PostIdsTellOrder
  <2>5. \A u, v \in Threads :
           u # v => Elements(threads'[u]) \cap Elements(threads'[v]) = {}
    BY <2>2, <2>3, <2>4
  <2>6. QED
    BY <2>1, <2>5 DEF PostIdsTellOrder
<1>9. QED
  BY <1>6, <1>7, <1>8 DEF PostsInv

\* Every handler of the forum keeps it; only AddPost and the reset write posts.
LEMMA PostsStep == PostsInv /\ [FNext]_fvars => PostsInv'
<1> SUFFICES ASSUME PostsInv, [FNext]_fvars PROVE PostsInv'
  OBVIOUS
<1>1. CASE UNCHANGED <<threads, nextPost>>
  <2>1. ThreadsTyped'
    BY <1>1 DEF PostsInv, ThreadsTyped
  <2>2. IdsBelowCounter'
    BY <1>1 DEF PostsInv, IdsBelowCounter
  <2>3. PostIdsTellOrder'
    BY <1>1 DEF PostsInv, PostIdsTellOrder
  <2>4. QED
    BY <2>1, <2>2, <2>3 DEF PostsInv
<1>2. CASE PostsCreate \/ SeedPost
  BY <1>2, AddPostStep, ForumAssumption DEF PostsCreate, SeedPost
<1>3. CASE ResetThreads
  BY <1>3 DEF ResetThreads, PostsInv, ThreadsTyped, IdsBelowCounter,
              PostIdsTellOrder, Elements
<1>4. QED
  BY <1>1, <1>2, <1>3
     DEF FNext, fvars, PostsLike, PostsUnlike, SeedLike, Like

\* Post ids are unique across threads and ascend within each, whoever writes,
\* likes, unlikes or resets, in whatever order.
THEOREM PostIdsStayOrdered == FSpec => []PostIdsTellOrder
<1>1. PostsInv => PostIdsTellOrder
  BY DEF PostsInv
<1>2. QED
  BY <1>1, PostsInit, PostsStep, PTL DEF FSpec

-----------------------------------------------------------------------------
(* What ThreadStore.unlike leaves of the likers *)

\* F[k] is what the filter has kept of the first k likers.
Filters(F, S, s, u) ==
  /\ F \in [0 .. Len(s) -> Seq(S)]
  /\ F[0] = <<>>
  /\ F[Len(s)] = Without(s, u)
  /\ \A k \in 1 .. Len(s) :
        F[k] = IF s[k] = u THEN F[k - 1] ELSE Append(F[k - 1], s[k])

\* The filter looks at one liker after the other.
LEMMA WithoutSteps ==
  ASSUME NEW S, NEW s \in Seq(S), NEW u
  PROVE  \E F : Filters(F, S, s, u)
<1> DEFINE n == Len(s)
           op(l, k) == IF s[k] = u THEN l ELSE Append(l, s[k])
           step == [p \in Seq(S) \X (1 .. n) |-> op(p[1], p[2])]
           Eq(J) == J = [x \in SUBSET (1 .. n) |->
                           IF x = {} THEN <<>> ELSE op(J[x \ {Top(x)}], Top(x))]
<1>1. n \in Nat /\ DOMAIN s = 1 .. n /\ \A k \in 1 .. n : s[k] \in S
  BY LenProperties, ElementOfSeq
<1>2. \A l \in Seq(S), k \in 1 .. n : op(l, k) \in Seq(S)
  BY <1>1, AppendProperties
<1>3. <<>> \in Seq(S)
  BY EmptySeq
<1>4. step \in [Seq(S) \X (1 .. n) -> Seq(S)]
  BY <1>2
<1>5. Without(s, u) = (CHOOSE J : Eq(J))[1 .. n]
  BY <1>1 DEF Without, FoldLeft, MapThenFoldSet, Max, Top
<1> HIDE DEF n, op
<1>6. \E J : Eq(J)
  <2> HIDE DEF step
  <2>1. PICK it : IsFold(it, Seq(S), <<>>, n, step)
    BY <1>1, <1>3, <1>4, FoldExists
  <2> USE DEF step
  <2>2. \A x \in SUBSET (1 .. n) : x # {} =>
           step[<<it[x \ {Top(x)}], Top(x)>>] = op(it[x \ {Top(x)}], Top(x))
    <3> SUFFICES ASSUME NEW x \in SUBSET (1 .. n), x # {}
                 PROVE  step[<<it[x \ {Top(x)}], Top(x)>>] = op(it[x \ {Top(x)}], Top(x))
      OBVIOUS
    <3>1. Top(x) \in 1 .. n /\ it[x \ {Top(x)}] \in Seq(S)
      BY <1>1, <2>1, TopType DEF IsFold
    <3> QED  BY <3>1
  <2> HIDE DEF step
  <2>3. Eq(it)
    BY <2>1, <2>2 DEF IsFold
  <2> QED  BY <2>3
<1> DEFINE J == CHOOSE J : Eq(J)
           F == [k \in 0 .. n |-> J[1 .. k]]
<1>7. Eq(J)
  BY <1>6
<1> HIDE DEF J
<1>8. F[0] = <<>>
  BY <1>1, <1>7
<1>9. \A k \in 1 .. n : F[k] = op(F[k - 1], k)
  <2> SUFFICES ASSUME NEW k \in 1 .. n PROVE F[k] = op(F[k - 1], k)
    OBVIOUS
  <2>1. /\ 1 .. k \in SUBSET (1 .. n) /\ k \in 1 .. k /\ k \in Nat
        /\ (1 .. k) \ {k} = 1 .. k - 1
        /\ k - 1 \in 0 .. n
    BY <1>1
  <2>2. Top(1 .. k) = k
    BY <2>1, TopIs
  <2>3. J[1 .. k] = op(J[1 .. k - 1], k)
    BY <1>7, <2>1, <2>2
  <2> QED  BY <2>1, <2>3
<1>10. \A k \in 0 .. n : F[k] \in Seq(S)
  <2> DEFINE I == {k \in 0 .. n : F[k] \in Seq(S)}
  <2>1. 0 \in I
    <3> HIDE DEF F
    <3>1. F[0] \in Seq(S)
      BY <1>3, <1>8
    <3>2. 0 \in 0 .. n
      BY <1>1
    <3> QED  BY <3>1, <3>2
  <2>2. ASSUME NEW k \in 0 .. n - 1, k \in I
        PROVE  k + 1 \in I
    <3>1. k + 1 \in 1 .. n /\ (k + 1) - 1 = k /\ k + 1 \in 0 .. n
      BY <1>1
    <3>2. F[k] \in Seq(S)
      BY <2>2
    <3> HIDE DEF F
    <3> QED  BY <1>2, <1>9, <3>1, <3>2
  <2> HIDE DEF I, F
  <2>3. \A k \in 0 .. n : k \in I
    BY <1>1, <2>1, <2>2, InductionUpTo
  <2> QED  BY <2>3 DEF I
<1>11. F[n] = Without(s, u)
  BY <1>1, <1>5 DEF J
<1>12. F \in [0 .. n -> Seq(S)]
  BY <1>10
<1> HIDE DEF F
<1> QED  BY <1>8, <1>9, <1>11, <1>12 DEF n, op, Filters

Distinct(s) == \A k, l \in DOMAIN s : s[k] = s[l] => k = l

\* Who is not among the likers is not missed.
LEMMA WithoutAbsent ==
  ASSUME NEW S, NEW s \in Seq(S), NEW u, u \notin Elements(s)
  PROVE  Without(s, u) = s
<1> DEFINE n == Len(s)
<1>1. n \in Nat /\ DOMAIN s = 1 .. n /\ \A k \in 1 .. n : s[k] \in S /\ s[k] # u
  BY LenProperties, ElementOfSeq DEF Elements
<1>0. PICK F : Filters(F, S, s, u)
  BY WithoutSteps
<1>2. /\ F \in [0 .. n -> Seq(S)]
      /\ F[0] = <<>> /\ F[n] = Without(s, u)
      /\ \A k \in 1 .. n :
            F[k] = IF s[k] = u THEN F[k - 1] ELSE Append(F[k - 1], s[k])
  BY <1>0 DEF Filters
<1> HIDE DEF n
<1> DEFINE Copied(k) == Len(F[k]) = k /\ \A j \in 1 .. k : F[k][j] = s[j]
           I == {k \in 0 .. n : Copied(k)}
<1>3. 0 \in I
  BY <1>1, <1>2, EmptySeq
<1>4. ASSUME NEW k \in 0 .. n - 1, k \in I
      PROVE  k + 1 \in I
  <2>1. k + 1 \in 1 .. n /\ k + 1 \in 0 .. n /\ (k + 1) - 1 = k /\ k \in 0 .. n
    BY <1>1
  <2>2. F[k + 1] = Append(F[k], s[k + 1]) /\ F[k] \in Seq(S) /\ s[k + 1] \in S
    BY <1>1, <1>2, <2>1
  <2>3. Copied(k)
    BY <1>4
  <2>4. /\ Len(F[k + 1]) = k + 1
        /\ \A j \in 1 .. k : F[k + 1][j] = F[k][j]
        /\ F[k + 1][k + 1] = s[k + 1]
    BY <2>2, <2>3, AppendProperties
  <2>5. Copied(k + 1)
    BY <2>1, <2>3, <2>4
  <2> QED  BY <2>1, <2>5
<1> HIDE DEF I, Copied
<1>5. n \in I
  <2>1. \A k \in 0 .. n : k \in I
    BY <1>1, <1>3, <1>4, InductionUpTo
  <2> QED  BY <1>1, <2>1
<1>6. Copied(n) /\ F[n] \in Seq(S)
  BY <1>1, <1>2, <1>5 DEF I
<1>7. F[n] = s
  <2>1. Len(F[n]) = Len(s) /\ \A j \in 1 .. Len(F[n]) : F[n][j] = s[j]
    BY <1>6 DEF Copied, n
  <2> QED  BY <1>6, <2>1, SeqEqual
<1> QED  BY <1>2, <1>7

\* Who is there once leaves one place, and the later likers move up by one.
LEMMA WithoutOne ==
  ASSUME NEW S, NEW s \in Seq(S), Distinct(s), NEW i \in 1 .. Len(s)
  PROVE  /\ Without(s, s[i]) \in Seq(S)
         /\ Len(Without(s, s[i])) = Len(s) - 1
         /\ \A j \in 1 .. Len(s) - 1 :
               Without(s, s[i])[j] = IF j < i THEN s[j] ELSE s[j + 1]
<1> DEFINE n == Len(s)
           u == s[i]
<1>1. n \in Nat /\ i \in 1 .. n /\ DOMAIN s = 1 .. n /\ \A k \in 1 .. n : s[k] \in S
  BY LenProperties, ElementOfSeq
<1>0. PICK F : Filters(F, S, s, u)
  BY WithoutSteps
<1>2. /\ F \in [0 .. n -> Seq(S)]
      /\ F[0] = <<>> /\ F[n] = Without(s, u)
      /\ \A k \in 1 .. n :
            F[k] = IF s[k] = u THEN F[k - 1] ELSE Append(F[k - 1], s[k])
  BY <1>0 DEF Filters
<1>3. \A k \in 1 .. n : s[k] = u <=> k = i
  BY <1>1 DEF Distinct
<1> HIDE DEF n, u
<1> DEFINE Left(k) == IF k < i THEN k ELSE k - 1
           Moved(k) == /\ Len(F[k]) = Left(k)
                       /\ \A j \in 1 .. Left(k) :
                             F[k][j] = IF j < i THEN s[j] ELSE s[j + 1]
           I == {k \in 0 .. n : Moved(k)}
<1>4. 0 \in I
  <2>1. Left(0) = 0
    BY <1>1
  <2>2. Moved(0)
    BY <1>2, <2>1, EmptySeq
  <2> QED  BY <1>1, <2>2
<1>5. ASSUME NEW k \in 0 .. n - 1, k \in I
      PROVE  k + 1 \in I
  <2>1. k + 1 \in 1 .. n /\ k + 1 \in 0 .. n /\ (k + 1) - 1 = k /\ k \in 0 .. n
    BY <1>1
  <2>2. F[k] \in Seq(S) /\ s[k + 1] \in S
    BY <1>1, <1>2, <2>1
  <2>3. Moved(k)
    BY <1>5
  <2>4. CASE k + 1 = i
    <3>1. F[k + 1] = F[k]
      BY <1>2, <1>3, <2>1, <2>4
    <3>2. Left(k + 1) = Left(k)
      BY <2>1, <2>4
    <3> HIDE DEF Left
    <3>3. Moved(k + 1)
      BY <2>3, <3>1, <3>2
    <3> QED  BY <2>1, <3>3
  <2>5. CASE k + 1 # i
    <3>1. F[k + 1] = Append(F[k], s[k + 1])
      BY <1>2, <1>3, <2>1, <2>5
    <3>2. Left(k + 1) = Left(k) + 1 /\ Left(k) \in Nat
      BY <1>1, <2>1, <2>5
    <3>3. Left(k) + 1 = IF k + 1 < i THEN k + 1 ELSE k
      BY <1>1, <2>1, <2>5
    <3>4. /\ Len(F[k + 1]) = Left(k) + 1
          /\ \A j \in 1 .. Left(k) : F[k + 1][j] = F[k][j]
          /\ F[k + 1][Left(k) + 1] = s[k + 1]
      BY <2>2, <2>3, <3>1, AppendProperties
    <3>5. \A j \in 1 .. Left(k) + 1 :
             F[k + 1][j] = IF j < i THEN s[j] ELSE s[j + 1]
      <4> SUFFICES ASSUME NEW j \in 1 .. Left(k) + 1
                   PROVE  F[k + 1][j] = IF j < i THEN s[j] ELSE s[j + 1]
        OBVIOUS
      <4>1. CASE j \in 1 .. Left(k)
        BY <2>3, <3>4, <4>1
      <4>2. CASE j = Left(k) + 1
        BY <1>1, <2>1, <2>5, <3>3, <3>4, <4>2
      <4> QED  BY <3>2, <4>1, <4>2
    <3> HIDE DEF Left
    <3>6. Moved(k + 1)
      BY <3>2, <3>4, <3>5
    <3> QED  BY <2>1, <3>6
  <2> QED  BY <2>4, <2>5
<1> HIDE DEF I, Moved
<1>6. n \in I
  <2>1. \A k \in 0 .. n : k \in I
    BY <1>1, <1>4, <1>5, InductionUpTo
  <2> QED  BY <1>1, <2>1
<1>7. Moved(n) /\ F[n] \in Seq(S) /\ Left(n) = n - 1
  BY <1>1, <1>2, <1>6 DEF I
<1> QED  BY <1>2, <1>7 DEF Moved, n, u

\* So nobody is twice in what is left, and nobody new is there.
LEMMA WithoutKeeps ==
  ASSUME NEW S, NEW s \in Seq(S), Distinct(s), NEW u
  PROVE  /\ Without(s, u) \in Seq(S)
         /\ Distinct(Without(s, u))
         /\ Elements(Without(s, u)) = Elements(s) \ {u}
<1>1. CASE u \notin Elements(s)
  BY <1>1, WithoutAbsent
<1>2. CASE u \in Elements(s)
  <2> DEFINE n == Len(s)
             w == Without(s, u)
  <2>1. n \in Nat /\ DOMAIN s = 1 .. n
    BY LenProperties
  <2>2. PICK i \in 1 .. n : s[i] = u
    BY <1>2, <2>1 DEF Elements
  <2>3. /\ w \in Seq(S) /\ Len(w) = n - 1
        /\ \A j \in 1 .. n - 1 : w[j] = IF j < i THEN s[j] ELSE s[j + 1]
    BY <2>2, WithoutOne
  <2>4. DOMAIN w = 1 .. n - 1
    BY <2>3, LenProperties
  <2>5. \A k, l \in 1 .. n : s[k] = s[l] => k = l
    BY <2>1 DEF Distinct
  <2> HIDE DEF n, w
  <2>6. Distinct(w)
    BY <2>1, <2>2, <2>3, <2>4, <2>5 DEF Distinct
  <2>7. Elements(w) = Elements(s) \ {u}
    <3>1. ASSUME NEW v \in Elements(w) PROVE v \in Elements(s) \ {u}
      <4>1. PICK j \in 1 .. n - 1 : w[j] = v
        BY <2>4 DEF Elements
      <4>2. PICK k \in 1 .. n : k # i /\ s[k] = v
        BY <2>1, <2>2, <2>3, <4>1
      <4> QED  BY <2>1, <2>2, <2>5, <4>2 DEF Elements
    <3>2. ASSUME NEW v \in Elements(s) \ {u} PROVE v \in Elements(w)
      <4>1. PICK k \in 1 .. n : s[k] = v
        BY <2>1 DEF Elements
      <4>2. k # i
        BY <2>2, <4>1
      <4>3. CASE k < i
        BY <2>1, <2>2, <2>3, <2>4, <4>1, <4>3 DEF Elements
      <4>4. CASE k > i
        <5>1. k - 1 \in 1 .. n - 1 /\ ~(k - 1 < i) /\ (k - 1) + 1 = k
          BY <2>1, <2>2, <4>4
        <5>2. w[k - 1] = v
          BY <2>3, <4>1, <5>1
        <5> QED  BY <2>4, <5>1, <5>2 DEF Elements
      <4> QED  BY <2>1, <2>2, <4>2, <4>3, <4>4
    <3> QED  BY <3>1, <3>2
  <2> QED  BY <2>3, <2>6, <2>7 DEF w
<1> QED  BY <1>1, <1>2

-----------------------------------------------------------------------------
(* A person likes a post once *)

LikesTyped == likes \in [PostIds -> Seq(Users)]

LikesInv ==
    /\ PostsInv
    /\ LikesTyped
    /\ OneLikePerPerson

LEMMA LikesInit == FInit => LikesInv
<1> SUFFICES ASSUME FInit PROVE LikesInv
  OBVIOUS
<1>1. \A p \in PostIds : likes[p] = <<>>
  BY DEF FInit
<1>2. LikesTyped
  <2>1. <<>> \in Seq(Users)
    BY EmptySeq
  <2> QED  BY <2>1 DEF FInit, LikesTyped
<1>3. OneLikePerPerson
  BY <1>1 DEF OneLikePerPerson
<1> QED  BY <1>2, <1>3, PostsInit DEF LikesInv

\* Writing to one post, of somebody who was not there or less of who was,
\* keeps every post in order.
LEMMA LikersWritten ==
  ASSUME LikesInv, UNCHANGED <<threads, nextPost>>,
         NEW p \in PostIds, NEW s \in Seq(Users),
         Distinct(s), s # <<>> => Exists(p),
         likes' = [likes EXCEPT ![p] = s]
  PROVE  LikesInv'
<1>1. likes \in [PostIds -> Seq(Users)]
  BY DEF LikesInv, LikesTyped
<1>2. LikesTyped'
  BY <1>1 DEF LikesTyped
<1>3. /\ likes'[p] = s
      /\ \A q \in PostIds : q # p => likes'[q] = likes[q]
  BY <1>1
<1>4. \A q \in PostIds : Exists(q)' = Exists(q)
  BY DEF Exists
<1>5. OneLikePerPerson'
  <2> SUFFICES ASSUME NEW q \in PostIds
               PROVE  /\ Distinct(likes'[q])
                      /\ likes'[q] # <<>> => Exists(q)'
    BY DEF OneLikePerPerson, Distinct
  <2>1. CASE q = p
    BY <1>3, <1>4, <2>1
  <2>2. CASE q # p
    BY <1>3, <1>4, <2>2 DEF LikesInv, OneLikePerPerson, Distinct
  <2> QED  BY <2>1, <2>2
<1>6. PostsInv'
  BY DEF LikesInv, PostsInv, ThreadsTyped, IdsBelowCounter, PostIdsTellOrder
<1> QED  BY <1>2, <1>5, <1>6 DEF LikesInv

LEMMA LikeStep ==
  ASSUME LikesInv, NEW p \in PostIds, NEW u \in Users, Like(p, u)
  PROVE  LikesInv'
<1>1. CASE Adds(p, u)
  <2> DEFINE l == likes[p]
             s == Append(l, u)
  <2>1. l \in Seq(Users) /\ Distinct(l)
    BY DEF LikesInv, LikesTyped, OneLikePerPerson, Distinct
  <2>2. /\ s \in Seq(Users)
        /\ DOMAIN l = 1 .. Len(l) /\ Len(l) \in Nat
        /\ DOMAIN s = 1 .. Len(l) + 1
        /\ \A k \in 1 .. Len(l) : s[k] = l[k]
        /\ s[Len(l) + 1] = u
    BY <2>1, Appended
  <2>3. \A k \in 1 .. Len(l) : l[k] # u
    BY <1>1, <2>2 DEF Adds, Likers, Elements
  <2> DEFINE n == Len(l)
  <2>4. likes' = [likes EXCEPT ![p] = s] /\ UNCHANGED <<threads, nextPost>> /\ Exists(p)
    BY <1>1 DEF Like, Adds
  <2> HIDE DEF s, l, n
  <2>5. Distinct(s)
    <3> SUFFICES ASSUME NEW k \in 1 .. Len(l) + 1, NEW j \in 1 .. Len(l) + 1, s[k] = s[j]
                 PROVE  k = j
      BY <2>2 DEF Distinct
    <3>1. CASE k \in 1 .. Len(l) /\ j \in 1 .. Len(l)
      BY <2>1, <2>2, <3>1 DEF Distinct
    <3>2. CASE k = Len(l) + 1 \/ j = Len(l) + 1
      BY <2>2, <2>3, <3>2
    <3> QED  BY <2>2, <3>1, <3>2
  <2> QED  BY <2>2, <2>4, <2>5, LikersWritten
<1>2. CASE ~Adds(p, u)
  <2>1. UNCHANGED fvars
    BY <1>2 DEF Like, fvars
  <2> QED  BY <2>1 DEF fvars, LikesInv, LikesTyped, OneLikePerPerson, Exists,
                       PostsInv, ThreadsTyped, IdsBelowCounter, PostIdsTellOrder
<1> QED  BY <1>1, <1>2

LEMMA UnlikeStep ==
  ASSUME LikesInv, NEW p \in PostIds, PostsUnlike(p)
  PROVE  LikesInv'
<1> DEFINE l == likes[p]
           s == Without(l, Self)
<1>1. l \in Seq(Users) /\ Distinct(l)
  BY DEF LikesInv, LikesTyped, OneLikePerPerson, Distinct
<1>2. s \in Seq(Users) /\ Distinct(s)
  BY <1>1, WithoutKeeps
<1>3. likes' = [likes EXCEPT ![p] = s] /\ UNCHANGED <<threads, nextPost>>
  BY DEF PostsUnlike
<1>4. s # <<>> => Exists(p)
  <2>1. ASSUME l = <<>> PROVE s = l
    <3>1. Elements(l) = {}
      BY <2>1 DEF Elements
    <3> HIDE DEF l
    <3> QED  BY <1>1, <3>1, WithoutAbsent
  <2> QED  BY <2>1 DEF LikesInv, OneLikePerPerson
<1> HIDE DEF s
<1> QED  BY <1>2, <1>3, <1>4, LikersWritten

\* A post that exists goes on existing until a reset.
LEMMA AddPostLikes ==
  ASSUME LikesInv, NEW t \in Threads, AddPost(t)
  PROVE  LikesInv'
<1>1. PostsInv'
  BY AddPostStep DEF LikesInv
<1>2. threads \in [Threads -> Seq(PostIds)] /\ nextPost \in PostIds
  BY DEF LikesInv, PostsInv, ThreadsTyped, AddPost
<1>3. \A u \in Threads : Elements(threads[u]) \subseteq Elements(threads'[u])
  <2> SUFFICES ASSUME NEW u \in Threads
               PROVE  Elements(threads[u]) \subseteq Elements(threads'[u])
    OBVIOUS
  <2>1. CASE u = t
    <3>1. threads'[u] = Append(threads[u], nextPost)
      BY <1>2, <2>1 DEF AddPost
    <3> QED  BY <1>2, <3>1, Appended
  <2>2. CASE u # t
    BY <1>2, <2>2 DEF AddPost
  <2> QED  BY <2>1, <2>2
<1>4. \A p \in PostIds : Exists(p) => Exists(p)'
  BY <1>3 DEF Exists
<1>5. UNCHANGED likes
  BY DEF AddPost
<1> QED  BY <1>1, <1>4, <1>5 DEF LikesInv, LikesTyped, OneLikePerPerson

LEMMA LikesStep == LikesInv /\ [FNext]_fvars => LikesInv'
<1> SUFFICES ASSUME LikesInv, [FNext]_fvars PROVE LikesInv'
  OBVIOUS
<1>1. CASE UNCHANGED fvars
  BY <1>1 DEF fvars, LikesInv, LikesTyped, OneLikePerPerson, Exists,
              PostsInv, ThreadsTyped, IdsBelowCounter, PostIdsTellOrder
<1>2. CASE PostsCreate \/ SeedPost
  BY <1>2, AddPostLikes, ForumAssumption DEF PostsCreate, SeedPost
<1>3. CASE \E p \in PostIds : PostsLike(p)
  BY <1>3, LikeStep, ForumAssumption DEF PostsLike
<1>4. CASE \E p \in PostIds : PostsUnlike(p)
  BY <1>4, UnlikeStep
<1>5. CASE \E p \in PostIds, u \in Users : SeedLike(p, u)
  BY <1>5, LikeStep DEF SeedLike
<1>6. CASE ResetThreads
  <2>3. PostsInv'
    BY <1>6, PostsStep DEF FNext, LikesInv
  <2>4. \A p \in PostIds : likes'[p] = <<>>
    BY <1>6 DEF ResetThreads
  <2>5. LikesTyped'
    <3>1. <<>> \in Seq(Users)
      BY EmptySeq
    <3> QED  BY <1>6, <3>1 DEF ResetThreads, LikesTyped
  <2>6. OneLikePerPerson'
    BY <2>4 DEF OneLikePerPerson
  <2> QED  BY <2>3, <2>5, <2>6 DEF LikesInv
<1> QED  BY <1>1, <1>2, <1>3, <1>4, <1>5, <1>6 DEF FNext

\* However likes, repeated likes and unlikes follow each other, nobody is
\* twice among the likers of a post, and only a post that exists has likers.
THEOREM OneLikeStays == FSpec => []OneLikePerPerson
<1>1. LikesInv => OneLikePerPerson
  BY DEF LikesInv
<1> QED  BY <1>1, LikesInit, LikesStep, PTL DEF FSpec

-----------------------------------------------------------------------------
(* What a reader has passed, and what a page shows it *)

\* The elements among the first c places.
Passed(s, c) == {s[k] : k \in {j \in DOMAIN s : j <= c}}

\* A page that starts after the first c elements of s.
IsPage(got, S, s, c, limit) ==
  LET m == IF c + limit < Len(s) THEN c + limit ELSE Len(s)
  IN  /\ got.total = Len(s)
      /\ got.items \in Seq(S)
      /\ Len(got.items) = IF c < m THEN m - c ELSE 0
      /\ \A k \in 1 .. m - c : got.items[k] = s[c + k]

LEMMA PageOfIs ==
  ASSUME NEW S, NEW s \in Seq(S), NEW c \in Nat, NEW limit \in Nat, NEW page,
         c = (page - 1) * limit
  PROVE  IsPage(PageOf(s, page, limit), S, s, c, limit)
<1> DEFINE m   == IF c + limit < Len(s) THEN c + limit ELSE Len(s)
           items == SubSeq(s, c + 1, m)
<1>1. PageOf(s, page, limit) = [items |-> items, total |-> Len(s)]
  BY DEF PageOf
<1>2. Len(s) \in Nat /\ \A k \in 1 .. Len(s) : s[k] \in S
  BY LenProperties, ElementOfSeq
<1>3. m \in Nat /\ m <= Len(s)
  BY <1>2
<1> HIDE DEF m
<1>4. \A k \in c + 1 .. m : s[k] \in S
  BY <1>2, <1>3
<1>5. /\ items \in Seq(S)
      /\ Len(items) = IF c + 1 <= m THEN m - (c + 1) + 1 ELSE 0
      /\ \A k \in 1 .. m - (c + 1) + 1 : items[k] = s[(c + 1) + k - 1]
  <2>1. c + 1 \in Int /\ m \in Int
    BY <1>3
  <2> QED  BY <1>4, <2>1, SubSeqProperties
<1> HIDE DEF items
<1>6. Len(items) = IF c < m THEN m - c ELSE 0
  BY <1>3, <1>5
<1>7. \A k \in 1 .. m - c : items[k] = s[c + k]
  BY <1>3, <1>5
<1> QED  BY <1>1, <1>5, <1>6, <1>7 DEF m, IsPage

LEMMA ElementsOfConcat ==
  ASSUME NEW S, NEW s \in Seq(S), NEW t \in Seq(S)
  PROVE  Elements(s \o t) = Elements(s) \cup Elements(t)
<1> DEFINE a == s \o t
           n == Len(s)
           m == Len(t)
<1>1. /\ n \in Nat /\ m \in Nat /\ DOMAIN s = 1 .. n /\ DOMAIN t = 1 .. m
  BY LenProperties
<1>2. a \in Seq(S) /\ Len(a) = n + m
      /\ \A k \in 1 .. n + m : a[k] = IF k <= n THEN s[k] ELSE t[k - n]
  BY ConcatProperties
<1>3. DOMAIN a = 1 .. n + m
  BY <1>2, LenProperties
<1> HIDE DEF a, n, m
<1>4. ASSUME NEW x \in Elements(a) PROVE x \in Elements(s) \cup Elements(t)
  <2>1. PICK k \in 1 .. n + m : a[k] = x
    BY <1>3 DEF Elements
  <2>2. CASE k <= n
    <3>1. k \in DOMAIN s /\ s[k] = x
      BY <1>1, <1>2, <2>1, <2>2
    <3> QED  BY <3>1 DEF Elements
  <2>3. CASE ~(k <= n)
    <3>1. k - n \in DOMAIN t /\ t[k - n] = x
      BY <1>1, <1>2, <2>1, <2>3
    <3> QED  BY <3>1 DEF Elements
  <2> QED  BY <2>2, <2>3
<1>5. ASSUME NEW x \in Elements(s) PROVE x \in Elements(a)
  BY <1>1, <1>2, <1>3 DEF Elements
<1>6. ASSUME NEW x \in Elements(t) PROVE x \in Elements(a)
  <2>1. PICK k \in 1 .. m : t[k] = x
    BY <1>1 DEF Elements
  <2>2. k + n \in 1 .. n + m /\ ~(k + n <= n) /\ (k + n) - n = k
    BY <1>1
  <2>3. a[k + n] = x
    BY <1>2, <2>1, <2>2
  <2> QED  BY <1>3, <2>2, <2>3 DEF Elements
<1> QED  BY <1>4, <1>5, <1>6 DEF a

\* A liker who arrives is the only one more that may have been passed.
LEMMA PassedAppend ==
  ASSUME NEW S, NEW s \in Seq(S), NEW x \in S, NEW c
  PROVE  Passed(Append(s, x), c) \subseteq Passed(s, c) \cup {x}
<1> DEFINE a == Append(s, x)
           n == Len(s)
<1>1. /\ DOMAIN s = 1 .. n /\ n \in Nat
      /\ DOMAIN a = 1 .. n + 1
      /\ \A k \in 1 .. n : a[k] = s[k]
      /\ a[n + 1] = x
  BY Appended
<1> HIDE DEF a, n
<1>2. \A k \in 1 .. n + 1 : k \in 1 .. n \/ k = n + 1
  BY <1>1
<1>3. Passed(a, c) \subseteq Passed(s, c) \cup {x}
  BY <1>1, <1>2 DEF Passed
<1> QED  BY <1>3 DEF a

\* When one leaves, one at most slips past the reader unseen: the one at the
\* place the reader was to read next.
LEMMA PassedWithout ==
  ASSUME NEW S, NEW s \in Seq(S), Distinct(s), NEW u, NEW c \in Nat
  PROVE  \E y : Passed(Without(s, u), c) \subseteq Passed(s, c) \cup {y}
<1>1. CASE u \notin Elements(s)
  BY <1>1, WithoutAbsent
<1>2. CASE u \in Elements(s)
  <2> DEFINE n == Len(s)
             w == Without(s, u)
  <2>1. n \in Nat /\ DOMAIN s = 1 .. n
    BY LenProperties
  <2>2. PICK i \in 1 .. n : s[i] = u
    BY <1>2, <2>1 DEF Elements
  <2>3. /\ w \in Seq(S) /\ Len(w) = n - 1
        /\ \A j \in 1 .. n - 1 : w[j] = IF j < i THEN s[j] ELSE s[j + 1]
    BY <2>2, WithoutOne
  <2>4. DOMAIN w = 1 .. n - 1
    BY <2>3, LenProperties
  <2> HIDE DEF n, w
  <2>5. ASSUME NEW v \in Passed(w, c) PROVE v \in Passed(s, c) \cup {s[c + 1]}
    <3>1. PICK j \in 1 .. n - 1 : j <= c /\ w[j] = v
      BY <2>4 DEF Passed
    <3>2. CASE j < i
      <4>1. j \in 1 .. n /\ s[j] = v
        BY <2>1, <2>3, <3>1, <3>2
      <4> QED  BY <2>1, <3>1, <4>1 DEF Passed
    <3>4. CASE ~(j < i) /\ j < c
      <4>1. j + 1 \in 1 .. n /\ j + 1 <= c
        BY <2>1, <3>1, <3>4
      <4>2. s[j + 1] = v
        BY <2>3, <3>1, <3>4
      <4> QED  BY <2>1, <4>1, <4>2 DEF Passed
    <3>5. CASE ~(j < i) /\ ~(j < c)
      <4>1. j = c
        BY <2>1, <3>1, <3>5
      <4> QED  BY <2>3, <3>1, <3>5, <4>1
    <3> QED  BY <3>2, <3>4, <3>5
  <2>6. Passed(w, c) \subseteq Passed(s, c) \cup {s[c + 1]}
    BY <2>5
  <2> QED  BY <2>6 DEF w
<1> QED  BY <1>1, <1>2

\* A page shows whoever it passes.
LEMMA PassedPage ==
  ASSUME NEW S, NEW s \in Seq(S), NEW limit \in Nat, NEW page,
         NEW c \in Nat, c = (page - 1) * limit
  PROVE  Passed(s, c + limit) \subseteq
            Passed(s, c) \cup Elements(PageOf(s, page, limit).items)
<1> DEFINE n == Len(s)
           m == IF c + limit < n THEN c + limit ELSE n
           items == PageOf(s, page, limit).items
<1>1. n \in Nat /\ DOMAIN s = 1 .. n
  BY LenProperties
<1>2. /\ items \in Seq(S)
      /\ Len(items) = IF c < m THEN m - c ELSE 0
      /\ \A k \in 1 .. m - c : items[k] = s[c + k]
  <2>1. IsPage(PageOf(s, page, limit), S, s, c, limit)
    BY PageOfIs
  <2> QED  BY <2>1 DEF IsPage
<1>3. DOMAIN items = 1 .. Len(items)
  BY <1>2, LenProperties
<1> HIDE DEF n, items
<1>4. ASSUME NEW v \in Passed(s, c + limit) PROVE v \in Passed(s, c) \cup Elements(items)
  <2>1. PICK k \in 1 .. n : k <= c + limit /\ s[k] = v
    BY <1>1 DEF Passed
  <2>2. CASE k <= c
    BY <1>1, <2>1, <2>2 DEF Passed
  <2>3. CASE k > c
    <3>1. k <= m /\ c < m /\ k - c \in 1 .. m - c /\ c + (k - c) = k
      BY <1>1, <2>1, <2>3
    <3> HIDE DEF m
    <3>2. items[k - c] = v /\ k - c \in DOMAIN items
      BY <1>2, <1>3, <2>1, <3>1
    <3> QED  BY <3>2 DEF Elements
  <2> QED  BY <1>1, <2>1, <2>2, <2>3
<1> QED  BY <1>4 DEF items

-----------------------------------------------------------------------------
(* The walks *)

\* The places of the pages that have been read.
Covered == (walk.page - 1) * Limit

Readable == PostIds \cup Users

WalkTyped ==
    walk \in [of : {"nothing", "posts", "likers"}, page : Nat \ {0},
              seen : Seq(Readable), stayed : SUBSET Users, left : Nat]

\* A walk through posts has seen the first posts of the thread, in order.
SeenSoFar ==
    walk.of = "posts" =>
        /\ Covered <= Len(threads[WatchedThread])
        /\ Len(walk.seen) = Covered
        /\ \A k \in 1 .. Covered : walk.seen[k] = threads[WatchedThread][k]

\* The likers who stayed, are at a place that was read, and were not seen.
Missed == (walk.stayed \cap Passed(likes[WatchedPost], Covered)) \ Elements(walk.seen)

MissedSoFar ==
    walk.of = "likers" =>
        /\ walk.stayed \subseteq Likers(WatchedPost)
        /\ Cardinality(Missed) <= walk.left

WalkInv ==
    /\ LikesInv
    /\ WalkTyped
    /\ SeenSoFar
    /\ MissedSoFar

LEMMA CoveredType ==
  ASSUME WalkTyped
  PROVE  /\ Covered \in Nat
         /\ Covered + Limit = walk.page * Limit
<1>1. walk.page \in Nat \ {0} /\ Limit \in Nat
  BY WalkAssumption DEF WalkTyped
<1>2. \A p \in Nat \ {0}, l \in Nat : (p - 1) * l \in Nat /\ (p - 1) * l + l = p * l
  OBVIOUS
<1> QED  BY <1>1, <1>2 DEF Covered

LEMMA ElementsFinite ==
  ASSUME NEW S, NEW s \in Seq(S)
  PROVE  IsFiniteSet(Elements(s)) /\ Elements(s) \subseteq S
<1>1. /\ Len(s) \in Nat /\ s \in [1 .. Len(s) -> S] /\ DOMAIN s = 1 .. Len(s)
  BY LenProperties
<1>2. s \in Surjection(1 .. Len(s), Elements(s))
  BY <1>1 DEF Surjection, Elements
<1>3. IsFiniteSet(1 .. Len(s))
  BY <1>1, FS_Interval
<1>4. Elements(s) \subseteq S
  BY <1>1 DEF Elements
<1> QED  BY <1>2, <1>3, <1>4, FS_Surjection

\* Nobody was there, or is missed, before the first page.
LEMMA BeginStep ==
  ASSUME WalkInv, NEW of \in {"posts", "likers"}, Begin(of)
  PROVE  WalkInv'
<1>1. UNCHANGED fvars
  BY DEF Begin
<1>2. LikesInv'
  BY <1>1, LikesStep DEF WalkInv
<1> DEFINE there == IF of = "likers" THEN Likers(WatchedPost) ELSE {}
<1>3. /\ walk' = [of |-> of, page |-> 1, seen |-> <<>>, stayed |-> there, left |-> 0]
      /\ likes[WatchedPost] \in Seq(Users)
  BY WalkAssumption DEF Begin, Idle, WalkInv, LikesInv, LikesTyped
<1>4. there \subseteq Users
  BY <1>3, ElementsFinite DEF Likers
<1> HIDE DEF there
<1>5. /\ walk'.of = of /\ walk'.page = 1 /\ walk'.seen = <<>>
      /\ walk'.stayed = there /\ walk'.left = 0
  BY <1>3
<1>6. WalkTyped'
  <2>1. <<>> \in Seq(Readable)
    BY EmptySeq
  <2> DEFINE e == <<>>
  <2> HIDE DEF e
  <2>2. e \in Seq(Readable) /\ UNCHANGED Readable
    BY <2>1 DEF e, Readable
  <2>3. walk' = [of |-> of, page |-> 1, seen |-> e, stayed |-> there, left |-> 0]
    BY <1>3 DEF e
  <2> QED  BY <1>4, <2>2, <2>3 DEF WalkTyped
<1>7. Covered' = 0
  BY <1>5, WalkAssumption DEF Covered
<1>8. SeenSoFar'
  <2>1. threads[WatchedThread] \in Seq(PostIds)
    BY WalkAssumption DEF WalkInv, LikesInv, PostsInv, ThreadsTyped
  <2>2. Len(threads[WatchedThread]) \in Nat
    BY <2>1, LenProperties
  <2>3. Len(<<>>) = 0
    OBVIOUS
  <2> QED  BY <1>1, <1>5, <1>7, <2>2, <2>3 DEF SeenSoFar, fvars
<1>9. MissedSoFar'
  <2>1. Passed(likes'[WatchedPost], 0) = {}
    <3>1. \A k \in DOMAIN likes[WatchedPost] : k \in Nat /\ ~(k <= 0)
      BY <1>3, LenProperties
    <3> QED  BY <1>1, <3>1 DEF Passed, fvars
  <2>2. Missed' = {}
    BY <1>7, <2>1 DEF Missed
  <2>3. Cardinality(Missed') = 0
    BY <2>2, FS_EmptySet
  <2> QED  BY <1>1, <1>5, <2>3 DEF MissedSoFar, fvars, there, Likers
<1> QED  BY <1>2, <1>6, <1>8, <1>9 DEF WalkInv

\* What a page adds to a walk.
LEMMA ReadFields ==
  ASSUME WalkInv, Read
  PROVE  LET got == PageOf(Watched, walk.page, Limit)
         IN  /\ UNCHANGED fvars
             /\ walk.of \in {"posts", "likers"}
             /\ Watched \in Seq(Readable)
             /\ got.items \in Seq(Readable)
             /\ got.total = Len(Watched)
             /\ walk'.page = walk.page + 1
             /\ walk'.seen = walk.seen \o got.items
             /\ walk'.of = IF walk.page * Limit >= got.total THEN "nothing" ELSE walk.of
             /\ walk'.stayed = walk.stayed
             /\ walk'.left = walk.left
             /\ WalkTyped'
             /\ Covered' = Covered + Limit
<1> DEFINE got == PageOf(Watched, walk.page, Limit)
           of == IF walk.page * Limit >= got.total THEN "nothing" ELSE walk.of
           seen == walk.seen \o got.items
<1>1. /\ UNCHANGED fvars
      /\ walk.of \in {"posts", "likers"}
      /\ walk' = [walk EXCEPT !.page = @ + 1, !.seen = seen, !.of = of]
  BY DEF Read, Reading
<1>2. Watched \in Seq(Readable)
  <2>1. threads[WatchedThread] \in Seq(PostIds) /\ likes[WatchedPost] \in Seq(Users)
    BY WalkAssumption DEF WalkInv, LikesInv, LikesTyped, PostsInv, ThreadsTyped
  <2>2. Watched \in Seq(PostIds) \/ Watched \in Seq(Users)
    BY <2>1 DEF Watched
  <2>3. PostIds \subseteq Readable /\ Users \subseteq Readable
    BY DEF Readable
  <2> QED  BY <2>2, <2>3, SeqMonotonic
<1>3. WalkTyped
  BY DEF WalkInv
<1>4. got.items \in Seq(Readable) /\ got.total = Len(Watched)
  BY <1>2, <1>3, CoveredType, PageOfIs, WalkAssumption DEF Covered, IsPage
<1>5. seen \in Seq(Readable)
  BY <1>3, <1>4, ConcatProperties DEF WalkTyped
<1>6. of \in {"nothing", "posts", "likers"}
  BY <1>1
<1> HIDE DEF seen, of
<1>7. /\ walk'.page = walk.page + 1 /\ walk'.seen = seen /\ walk'.of = of
      /\ walk'.stayed = walk.stayed /\ walk'.left = walk.left
      /\ WalkTyped'
  <2>1. walk' = [of |-> of, page |-> walk.page + 1, seen |-> seen,
                 stayed |-> walk.stayed, left |-> walk.left]
    BY <1>1, <1>3 DEF WalkTyped
  <2>2. /\ walk.page + 1 \in Nat \ {0} /\ walk.stayed \in SUBSET Users
        /\ walk.left \in Nat
    BY <1>3 DEF WalkTyped
  <2>3. UNCHANGED Readable
    BY DEF Readable
  <2> QED  BY <1>5, <1>6, <2>1, <2>2, <2>3 DEF WalkTyped
<1>8. Covered' = Covered + Limit
  <2>1. Covered' = ((walk.page + 1) - 1) * Limit
    BY <1>7 DEF Covered
  <2>2. (walk.page + 1) - 1 = walk.page
    BY <1>3 DEF WalkTyped
  <2> QED  BY <1>3, <2>1, <2>2, CoveredType
<1> QED  BY <1>1, <1>2, <1>4, <1>7, <1>8 DEF seen, of

\* A page of posts goes on where the last one ended; the last page ends the
\* thread.
LEMMA ReadPosts ==
  ASSUME WalkInv, Read, walk.of = "posts"
  PROVE  /\ SeenSoFar'
         /\ walk'.of = "nothing" => walk'.seen = threads[WatchedThread]
<1> DEFINE t == threads[WatchedThread]
           c == Covered
           n == Len(t)
           m == IF c + Limit < n THEN c + Limit ELSE n
           items == PageOf(t, walk.page, Limit).items
           seen == walk'.seen
<1>1. Watched = t
  BY DEF Watched
<1>2. /\ UNCHANGED fvars /\ t \in Seq(Readable) /\ items \in Seq(Readable)
      /\ seen = walk.seen \o items
      /\ walk'.of = IF c + Limit >= n THEN "nothing" ELSE "posts"
      /\ Covered' = c + Limit
  BY <1>1, ReadFields, CoveredType, WalkAssumption DEF WalkInv
<1>3. /\ c \in Nat /\ Limit \in Nat /\ n \in Nat /\ c <= n
      /\ walk.seen \in Seq(Readable) /\ Len(walk.seen) = c
      /\ \A k \in 1 .. c : walk.seen[k] = t[k]
  BY <1>2, CoveredType, LenProperties, WalkAssumption
     DEF WalkInv, WalkTyped, SeenSoFar
<1>4. /\ Len(items) = IF c < m THEN m - c ELSE 0
      /\ \A k \in 1 .. m - c : items[k] = t[c + k]
  <2>1. c = (walk.page - 1) * Limit
    BY DEF Covered
  <2>2. t \in Seq(Readable) /\ c \in Nat /\ Limit \in Nat
    BY <1>2, <1>3
  <2> HIDE DEF c, t
  <2>3. IsPage(PageOf(t, walk.page, Limit), Readable, t, c, Limit)
    BY <2>1, <2>2, PageOfIs
  <2> QED  BY <2>3 DEF IsPage
<1>5. /\ seen \in Seq(Readable)
      /\ Len(seen) = c + Len(items)
      /\ \A k \in 1 .. c + Len(items) :
            seen[k] = IF k <= c THEN walk.seen[k] ELSE items[k - c]
  <2> HIDE DEF items, seen, c, t
  <2>1. seen \in Seq(Readable) /\ Len(seen) = Len(walk.seen) + Len(items)
        /\ \A k \in 1 .. Len(walk.seen) + Len(items) :
              seen[k] = IF k <= Len(walk.seen) THEN walk.seen[k]
                        ELSE items[k - Len(walk.seen)]
    BY <1>2, <1>3, ConcatProperties
  <2> QED  BY <1>3, <2>1
<1>6. m \in Nat /\ c <= m /\ m <= n
  BY <1>3
<1> HIDE DEF t, c, n, m, items, seen
<1>7. Len(items) = m - c
  BY <1>3, <1>4, <1>6
<1>8. Len(seen) = m /\ \A k \in 1 .. m : seen[k] = t[k]
  <2>1. Len(seen) = m
    BY <1>3, <1>5, <1>6, <1>7
  <2>2. ASSUME NEW k \in 1 .. m PROVE seen[k] = t[k]
    <3>1. CASE k <= c
      BY <1>3, <1>5, <1>6, <1>7, <3>1
    <3>2. CASE ~(k <= c)
      <4>1. k - c \in 1 .. m - c /\ c + (k - c) = k /\ k \in 1 .. c + Len(items)
        BY <1>3, <1>6, <1>7, <3>2
      <4> QED  BY <1>4, <1>5, <3>2, <4>1
    <3> QED  BY <3>1, <3>2
  <2> QED  BY <2>1, <2>2
<1>9. SeenSoFar'
  <2>1. SUFFICES ASSUME walk'.of = "posts"
                 PROVE  Covered' <= n /\ Len(seen) = Covered'
                        /\ \A k \in 1 .. Covered' : seen[k] = t[k]
    BY <1>2 DEF SeenSoFar, fvars, n, t, seen
  <2>2. m = c + Limit
    BY <1>2, <1>3, <2>1 DEF m
  <2> QED  BY <1>2, <1>6, <1>8, <2>2
<1>10. ASSUME walk'.of = "nothing" PROVE seen = t
  <2>1. m = n
    BY <1>2, <1>3, <1>10 DEF m
  <2>2. Len(seen) = Len(t) /\ \A k \in 1 .. Len(seen) : seen[k] = t[k]
    BY <1>8, <2>1 DEF n
  <2> QED  BY <1>2, <1>5, <2>2, SeqEqual
<1> QED  BY <1>9, <1>10 DEF seen, t

\* A page of likers passes nobody it does not show; the last page passes all.
LEMMA ReadLikers ==
  ASSUME WalkInv, Read, walk.of = "likers"
  PROVE  /\ MissedSoFar'
         /\ walk'.of = "nothing" =>
               Cardinality(walk'.stayed \ Elements(walk'.seen)) <= walk'.left
<1> DEFINE l == likes[WatchedPost]
           c == Covered
           items == PageOf(l, walk.page, Limit).items
           Unseen == walk'.stayed \ Elements(walk'.seen)
<1>1. Watched = l
  BY DEF Watched
<1>2. /\ UNCHANGED fvars
      /\ walk'.seen = walk.seen \o items
      /\ walk'.of = IF c + Limit >= Len(l) THEN "nothing" ELSE "likers"
      /\ walk'.stayed = walk.stayed /\ walk'.left = walk.left
      /\ Covered' = c + Limit
      /\ l \in Seq(Readable) /\ items \in Seq(Readable)
      /\ walk.seen \in Seq(Readable)
  BY <1>1, ReadFields, CoveredType, WalkAssumption DEF WalkInv, WalkTyped
<1>3. c \in Nat /\ Limit \in Nat /\ c = (walk.page - 1) * Limit /\ walk.left \in Nat
  BY CoveredType, WalkAssumption DEF WalkInv, WalkTyped, Covered
<1>4. walk.stayed \subseteq Elements(l) /\ Cardinality(Missed) <= walk.left
  BY DEF WalkInv, MissedSoFar, Likers
<1>5. IsFiniteSet(Elements(l))
  BY <1>2, ElementsFinite
<1>6. Elements(walk'.seen) = Elements(walk.seen) \cup Elements(items)
  BY <1>2, ElementsOfConcat
<1>7. Passed(l, c + Limit) \subseteq Passed(l, c) \cup Elements(items)
  <2> HIDE DEF c, l
  <2> QED  BY <1>2, <1>3, PassedPage
<1>8. Unseen \cap Passed(l, c + Limit) \subseteq Missed
  BY <1>2, <1>6, <1>7 DEF Missed
<1>9. IsFiniteSet(Missed) /\ Cardinality(Missed) \in Nat
  <2>1. Missed \subseteq Elements(l)
    BY <1>4 DEF Missed
  <2> QED  BY <1>5, <2>1, FS_Subset, FS_CardinalityType
<1>10. \A U \in SUBSET Missed : Cardinality(U) <= walk'.left
  <2> SUFFICES ASSUME NEW U \in SUBSET Missed PROVE Cardinality(U) <= walk'.left
    OBVIOUS
  <2>1. Cardinality(U) <= Cardinality(Missed) /\ IsFiniteSet(U)
    BY <1>9, FS_Subset
  <2>2. Cardinality(U) \in Nat
    BY <2>1, FS_CardinalityType
  <2> QED  BY <1>2, <1>3, <1>4, <1>9, <2>1, <2>2
<1>11. MissedSoFar'
  <2>1. Missed' = Unseen \cap Passed(l, c + Limit)
    BY <1>2 DEF Missed, fvars
  <2>2. Missed' \in SUBSET Missed
    BY <1>8, <2>1
  <2>3. Cardinality(Missed') <= walk'.left
    BY <1>10, <2>2
  <2> QED  BY <1>2, <1>4, <2>3 DEF MissedSoFar, fvars, Likers
<1>12. ASSUME walk'.of = "nothing"
       PROVE  Cardinality(Unseen) <= walk'.left
  <2>1. c + Limit >= Len(l)
    BY <1>2, <1>12
  <2>2. \A k \in DOMAIN l : k <= c + Limit
    <3>1. Len(l) \in Nat /\ DOMAIN l = 1 .. Len(l)
      BY <1>2, LenProperties
    <3> HIDE DEF c, l
    <3> QED  BY <1>3, <2>1, <3>1
  <2>3. Elements(l) \subseteq Passed(l, c + Limit)
    BY <2>2 DEF Elements, Passed
  <2>4. Unseen \in SUBSET Missed
    BY <1>2, <1>4, <1>8, <2>3
  <2> QED  BY <1>10, <2>4
<1> QED  BY <1>11, <1>12

LEMMA ReadStep ==
  ASSUME WalkInv, Read
  PROVE  WalkInv'
<1>1. /\ UNCHANGED fvars /\ WalkTyped'
      /\ walk.of \in {"posts", "likers"}
      /\ walk'.of \in {"nothing", walk.of}
  BY ReadFields
<1>2. LikesInv'
  BY <1>1, LikesStep DEF WalkInv
<1>3. SeenSoFar'
  <2>1. CASE walk.of = "posts"
    BY <2>1, ReadPosts
  <2>2. CASE walk.of = "likers"
    BY <1>1, <2>2 DEF SeenSoFar
  <2> QED  BY <1>1, <2>1, <2>2
<1>4. MissedSoFar'
  <2>1. CASE walk.of = "likers"
    BY <2>1, ReadLikers
  <2>2. CASE walk.of = "posts"
    BY <1>1, <2>2 DEF MissedSoFar
  <2> QED  BY <1>1, <2>1, <2>2
<1> QED  BY <1>1, <1>2, <1>3, <1>4 DEF WalkInv

\* A store nobody has written a post to is empty.
LEMMA NothingBeforeTheFirst ==
  ASSUME LikesInv, nextPost <= 1
  PROVE  /\ \A t \in Threads : threads[t] = <<>>
         /\ \A p \in PostIds : likes[p] = <<>>
<1>1. ASSUME NEW t \in Threads PROVE Elements(threads[t]) = {} /\ threads[t] = <<>>
  <2> DEFINE s == threads[t]
  <2>1. s \in Seq(PostIds) /\ nextPost \in Nat
    BY DEF LikesInv, PostsInv, ThreadsTyped
  <2>2. Len(s) \in Nat /\ DOMAIN s = 1 .. Len(s) /\ \A k \in 1 .. Len(s) : s[k] \in PostIds
    BY <2>1, LenProperties, ElementOfSeq
  <2>3. \A k \in DOMAIN s : s[k] < nextPost
    BY DEF LikesInv, PostsInv, IdsBelowCounter
  <2> HIDE DEF s
  <2>4. DOMAIN s = {}
    BY <2>1, <2>2, <2>3 DEF PostIds
  <2>5. s = <<>>
    <3>1. Len(s) = 0
      BY <2>2, <2>4
    <3> QED  BY <2>1, <3>1, EmptySeq
  <2> QED  BY <2>4, <2>5 DEF Elements, s
<1>2. ASSUME NEW p \in PostIds PROVE likes[p] = <<>>
  <2>1. ~Exists(p)
    BY <1>1 DEF Exists
  <2> QED  BY <2>1 DEF LikesInv, OneLikePerPerson
<1> QED  BY <1>1, <1>2

\* Short of a reset, a thread only grows at its end.
LEMMA ThreadGrows ==
  ASSUME LikesInv, FNext, nextPost' >= nextPost, NEW t \in Threads
  PROVE  /\ Len(threads[t]) <= Len(threads'[t])
         /\ \A k \in 1 .. Len(threads[t]) : threads'[t][k] = threads[t][k]
<1> DEFINE s == threads[t]
<1>1. s \in Seq(PostIds) /\ Len(s) \in Nat /\ threads \in [Threads -> Seq(PostIds)]
  BY LenProperties DEF LikesInv, PostsInv, ThreadsTyped
<1>2. CASE threads'[t] = s
  BY <1>1, <1>2
<1>3. ASSUME NEW u \in Threads, AddPost(u)
      PROVE  /\ Len(s) <= Len(threads'[t])
             /\ \A k \in 1 .. Len(s) : threads'[t][k] = s[k]
  <2>1. CASE u # t
    BY <1>1, <1>2, <1>3, <2>1 DEF AddPost
  <2>2. CASE u = t
    <3>1. threads'[t] = Append(s, nextPost) /\ nextPost \in PostIds
      BY <1>1, <1>3, <2>2 DEF AddPost
    <3> HIDE DEF s
    <3> QED  BY <1>1, <3>1, AppendProperties
  <2> QED  BY <2>1, <2>2
<1>4. CASE ResetThreads
  <2>1. nextPost <= 1 /\ threads'[t] = <<>>
    BY <1>4 DEF ResetThreads
  <2>2. s = <<>>
    BY <2>1, NothingBeforeTheFirst
  <2> QED  BY <1>2, <2>1, <2>2
<1>5. CASE threads' = threads
  BY <1>2, <1>5
<1> QED
  BY <1>3, <1>4, <1>5, ForumAssumption
     DEF FNext, PostsCreate, SeedPost, PostsLike, PostsUnlike, SeedLike, Like

\* Short of a reset, the likers of a post stay, one arrives or one leaves.
LEMMA LikersChange ==
  ASSUME LikesInv, FNext, nextPost' >= nextPost, NEW p \in PostIds
  PROVE  \/ likes'[p] = likes[p]
         \/ \E u \in Users \ Likers(p) : likes'[p] = Append(likes[p], u)
         \/ likes'[p] = Without(likes[p], Self)
<1>1. likes \in [PostIds -> Seq(Users)]
  BY DEF LikesInv, LikesTyped
<1>2. CASE UNCHANGED likes
  BY <1>2
<1>3. ASSUME NEW q \in PostIds, NEW u \in Users, Like(q, u)
      PROVE  \/ likes'[p] = likes[p]
             \/ \E v \in Users \ Likers(p) : likes'[p] = Append(likes[p], v)
  BY <1>1, <1>3 DEF Like, Adds
<1>4. ASSUME NEW q \in PostIds, PostsUnlike(q)
      PROVE  likes'[p] = likes[p] \/ likes'[p] = Without(likes[p], Self)
  BY <1>1, <1>4 DEF PostsUnlike
<1>5. CASE ResetThreads
  <2>1. nextPost <= 1 /\ likes'[p] = <<>>
    BY <1>5 DEF ResetThreads
  <2> QED  BY <2>1, NothingBeforeTheFirst
<1> QED
  BY <1>2, <1>3, <1>4, <1>5, ForumAssumption
     DEF FNext, PostsCreate, SeedPost, AddPost, PostsLike, SeedLike

\* One more slips past a reader when one leaves, and nobody otherwise.
LEMMA SlipsPast ==
  ASSUME LikesInv, FNext, nextPost' >= nextPost, NEW c \in Nat,
         NEW stayed, stayed \subseteq Likers(WatchedPost)
  PROVE  LET left == Likers(WatchedPost) \ Likers(WatchedPost)'
         IN  /\ IsFiniteSet(left) /\ left \subseteq Users
             /\ stayed \ left \subseteq Likers(WatchedPost)'
             /\ \E y : (stayed \ left) \cap Passed(likes'[WatchedPost], c) \subseteq
                          Passed(likes[WatchedPost], c) \cup (IF left = {} THEN {} ELSE {y})
<1> DEFINE l == likes[WatchedPost]
           ll == likes'[WatchedPost]
           left == Elements(l) \ Elements(ll)
<1>1. l \in Seq(Users) /\ Distinct(l)
  BY WalkAssumption DEF LikesInv, LikesTyped, OneLikePerPerson, Distinct
<1>2. Likers(WatchedPost) = Elements(l) /\ Likers(WatchedPost)' = Elements(ll)
  BY DEF Likers
<1>3. IsFiniteSet(left) /\ left \subseteq Users
  <2>1. IsFiniteSet(Elements(l)) /\ Elements(l) \subseteq Users
    BY <1>1, ElementsFinite
  <2> QED  BY <2>1, FS_Subset
<1>4. stayed \ left \subseteq Elements(ll)
  BY <1>2
<1>5. \E y : (stayed \ left) \cap Passed(ll, c) \subseteq
                Passed(l, c) \cup (IF left = {} THEN {} ELSE {y})
  <2>1. CASE ll = l
    BY <2>1
  <2>2. CASE \E u \in Users \ Elements(l) : ll = Append(l, u)
    <3>1. PICK u \in Users \ Elements(l) : ll = Append(l, u)
      BY <2>2
    <3>2. Passed(ll, c) \subseteq Passed(l, c) \cup {u}
      BY <1>1, <3>1, PassedAppend
    <3>3. u \notin stayed
      BY <1>2, <3>1
    <3> QED  BY <3>2, <3>3
  <2>3. CASE ll = Without(l, Self) /\ Self \notin Elements(l)
    BY <1>1, <2>1, <2>3, WithoutAbsent
  <2>4. CASE ll = Without(l, Self) /\ Self \in Elements(l)
    <3>1. PICK y : Passed(ll, c) \subseteq Passed(l, c) \cup {y}
      BY <1>1, <2>4, PassedWithout
    <3>2. left = {Self}
      BY <1>1, <2>4, WithoutKeeps
    <3> QED  BY <3>1, <3>2
  <2> QED  BY <1>2, <2>1, <2>2, <2>3, <2>4, LikersChange, WalkAssumption
<1> HIDE DEF left
<1>6. Likers(WatchedPost) \ Likers(WatchedPost)' = left
  BY <1>2 DEF left
<1> QED  BY <1>2, <1>3, <1>4, <1>5, <1>6

LEMMA IdleIsSound ==
  ASSUME LikesInv', walk' = Idle
  PROVE  WalkInv'
<1> DEFINE e == <<>>
<1>1. e \in Seq(Readable) /\ UNCHANGED Readable
  BY EmptySeq DEF Readable
<1> HIDE DEF e
<1>2. walk' = [of |-> "nothing", page |-> 1, seen |-> e, stayed |-> {}, left |-> 0]
  BY DEF Idle, e
<1>3. WalkTyped'
  BY <1>1, <1>2 DEF WalkTyped
<1>4. walk'.of = "nothing"
  BY <1>2
<1> QED  BY <1>3, <1>4 DEF WalkInv, SeenSoFar, MissedSoFar

\* A write under a walk: the thread grows behind it, and the likers who slip
\* past it are no more than those who left.
LEMMA WriteStep ==
  ASSUME WalkInv, Write
  PROVE  WalkInv'
<1> DEFINE gone == Likers(WatchedPost) \ Likers(WatchedPost)'
           left == IF walk.of = "likers" THEN gone ELSE {}
<1>1. FNext
  BY DEF Write
<1>2. LikesInv'
  BY <1>1, LikesStep DEF WalkInv
<1>3. CASE ~(Reading /\ nextPost' >= nextPost)
  BY <1>2, <1>3, IdleIsSound DEF Write
<1>4. CASE Reading /\ nextPost' >= nextPost
  <2> DEFINE stayed == walk.stayed \ left
             count == walk.left + Cardinality(left)
  <2>1. walk' = [walk EXCEPT !.stayed = stayed, !.left = count]
    BY <1>4 DEF Write
  <2>2. WalkTyped
    BY DEF WalkInv
  <2>3. IsFiniteSet(left) /\ Cardinality(left) \in Nat /\ left \subseteq Users
    <3>1. IsFiniteSet(gone) /\ gone \subseteq Users
      <4>1. likes[WatchedPost] \in Seq(Users)
        BY WalkAssumption DEF WalkInv, LikesInv, LikesTyped
      <4>2. IsFiniteSet(Likers(WatchedPost)) /\ Likers(WatchedPost) \subseteq Users
        BY <4>1, ElementsFinite DEF Likers
      <4> QED  BY <4>2, FS_Subset
    <3>2. IsFiniteSet(left) /\ left \subseteq Users
      BY <3>1, FS_EmptySet
    <3> QED  BY <3>2, FS_CardinalityType
  <2> HIDE DEF left
  <2>4. count \in Nat /\ stayed \in SUBSET Users
    BY <2>2, <2>3 DEF WalkTyped
  <2> HIDE DEF count
  <2>5. walk' = [of |-> walk.of, page |-> walk.page, seen |-> walk.seen,
                 stayed |-> stayed, left |-> count]
    BY <2>1, <2>2 DEF WalkTyped
  <2> HIDE DEF stayed
  <2>6. /\ walk'.of = walk.of /\ walk'.page = walk.page /\ walk'.seen = walk.seen
        /\ walk'.stayed = stayed /\ walk'.left = count
        /\ Covered' = Covered
    BY <2>5 DEF Covered
  <2>7. WalkTyped'
    <3>1. /\ walk.of \in {"nothing", "posts", "likers"} /\ walk.page \in Nat \ {0}
          /\ walk.seen \in Seq(Readable) /\ UNCHANGED Readable
      BY <2>2 DEF WalkTyped, Readable
    <3> QED  BY <2>4, <2>5, <3>1 DEF WalkTyped
  <2>8. Covered \in Nat
    BY <2>2, CoveredType
  <2>9. SeenSoFar'
    <3>1. SUFFICES ASSUME walk.of = "posts"
                   PROVE  /\ Covered <= Len(threads'[WatchedThread])
                          /\ Len(walk.seen) = Covered
                          /\ \A k \in 1 .. Covered :
                                walk.seen[k] = threads'[WatchedThread][k]
      BY <2>6 DEF SeenSoFar
    <3>2. /\ Len(threads[WatchedThread]) <= Len(threads'[WatchedThread])
          /\ \A k \in 1 .. Len(threads[WatchedThread]) :
                threads'[WatchedThread][k] = threads[WatchedThread][k]
      BY <1>1, <1>4, ThreadGrows, WalkAssumption DEF WalkInv
    <3>3. Len(threads[WatchedThread]) \in Nat /\ Len(threads'[WatchedThread]) \in Nat
      <4>1. threads[WatchedThread] \in Seq(PostIds)
        BY WalkAssumption DEF WalkInv, LikesInv, PostsInv, ThreadsTyped
      <4>2. threads'[WatchedThread] \in Seq(PostIds)
        BY <1>2, WalkAssumption DEF LikesInv, PostsInv, ThreadsTyped, PostIds
      <4> QED  BY <4>1, <4>2, LenProperties
    <3>4. /\ Covered <= Len(threads[WatchedThread]) /\ Len(walk.seen) = Covered
          /\ \A k \in 1 .. Covered : walk.seen[k] = threads[WatchedThread][k]
      BY <3>1 DEF WalkInv, SeenSoFar
    <3>5. \A k \in 1 .. Covered : k \in 1 .. Len(threads[WatchedThread])
      BY <2>8, <3>3, <3>4
    <3> QED  BY <2>8, <3>2, <3>3, <3>4, <3>5
  <2>10. MissedSoFar'
    <3>1. SUFFICES ASSUME walk.of = "likers"
                   PROVE  /\ stayed \subseteq Likers(WatchedPost)'
                          /\ Cardinality(Missed') <= count
      BY <2>6 DEF MissedSoFar
    <3>2. left = gone
      BY <3>1 DEF left
    <3>3. /\ walk.stayed \subseteq Likers(WatchedPost)
          /\ Cardinality(Missed) <= walk.left
      BY <3>1 DEF WalkInv, MissedSoFar
    <3>4. /\ stayed \subseteq Likers(WatchedPost)'
          /\ \E y : stayed \cap Passed(likes'[WatchedPost], Covered) \subseteq
                       Passed(likes[WatchedPost], Covered)
                          \cup (IF left = {} THEN {} ELSE {y})
      BY <1>1, <1>4, <2>8, <3>2, <3>3, SlipsPast DEF WalkInv, stayed
    <3>5. PICK y : stayed \cap Passed(likes'[WatchedPost], Covered) \subseteq
                      Passed(likes[WatchedPost], Covered)
                         \cup (IF left = {} THEN {} ELSE {y})
      BY <3>4
    <3>6. Missed' = (stayed \cap Passed(likes'[WatchedPost], Covered)) \ Elements(walk.seen)
      BY <2>6 DEF Missed
    <3>7. Missed' \subseteq Missed \cup (IF left = {} THEN {} ELSE {y})
      BY <3>5, <3>6 DEF Missed, stayed
    <3>8. IsFiniteSet(Missed) /\ Cardinality(Missed) \in Nat
      <4>1. likes[WatchedPost] \in Seq(Users)
        BY WalkAssumption DEF WalkInv, LikesInv, LikesTyped
      <4>2. IsFiniteSet(Likers(WatchedPost))
        BY <4>1, ElementsFinite DEF Likers
      <4>3. Missed \subseteq Likers(WatchedPost)
        BY <3>3 DEF Missed
      <4> QED  BY <4>2, <4>3, FS_Subset, FS_CardinalityType
    <3>9. walk.left \in Nat
      BY <2>2 DEF WalkTyped
    <3>10. CASE left = {}
      <4>1. Missed' \subseteq Missed
        BY <3>7, <3>10
      <4>2. Cardinality(Missed') <= Cardinality(Missed) /\ IsFiniteSet(Missed')
        BY <3>8, <4>1, FS_Subset
      <4>3. Cardinality(Missed') \in Nat
        BY <4>2, FS_CardinalityType
      <4> QED  BY <2>3, <3>3, <3>4, <3>8, <3>9, <4>2, <4>3 DEF count
    <3>11. CASE left # {}
      <4>1. Cardinality(left) >= 1
        BY <2>3, <3>11, FS_EmptySet
      <4>2. Missed' \subseteq Missed \cup {y}
        BY <3>7, <3>11
      <4>3. /\ IsFiniteSet(Missed \cup {y})
            /\ Cardinality(Missed \cup {y}) <= Cardinality(Missed) + 1
            /\ Cardinality(Missed \cup {y}) \in Nat
        BY <3>8, FS_AddElement, FS_CardinalityType
      <4>4. Cardinality(Missed') <= Cardinality(Missed \cup {y}) /\ IsFiniteSet(Missed')
        BY <4>2, <4>3, FS_Subset
      <4>5. Cardinality(Missed') \in Nat
        BY <4>4, FS_CardinalityType
      <4> QED  BY <2>3, <3>3, <3>4, <3>8, <3>9, <4>1, <4>3, <4>4, <4>5 DEF count
    <3> QED  BY <3>10, <3>11
  <2> QED  BY <1>2, <2>7, <2>9, <2>10 DEF WalkInv
<1> QED  BY <1>3, <1>4

LEMMA WalkStep == WalkInv /\ [WNext]_wvars => WalkInv'
<1> SUFFICES ASSUME WalkInv, [WNext]_wvars PROVE WalkInv'
  OBVIOUS
<1>1. CASE UNCHANGED wvars
  <2>1. UNCHANGED fvars /\ UNCHANGED walk
    BY <1>1 DEF wvars
  <2>2. LikesInv'
    BY <2>1, LikesStep DEF WalkInv
  <2> QED  BY <2>1, <2>2 DEF WalkInv, WalkTyped, SeenSoFar, MissedSoFar, Missed,
                             Covered, Likers, fvars, Readable
<1>2. CASE Begin("posts") \/ Begin("likers")
  BY <1>2, BeginStep
<1>3. CASE Read
  BY <1>3, ReadStep
<1>4. CASE Write
  BY <1>4, WriteStep
<1> QED  BY <1>1, <1>2, <1>3, <1>4 DEF WNext

LEMMA WalkInit == WInit => WalkInv
<1> SUFFICES ASSUME WInit PROVE WalkInv
  OBVIOUS
<1>1. LikesInv /\ walk = Idle
  BY LikesInit DEF WInit
<1> DEFINE e == <<>>
<1>2. e \in Seq(Readable)
  BY EmptySeq
<1> HIDE DEF e
<1>3. walk = [of |-> "nothing", page |-> 1, seen |-> e, stayed |-> {}, left |-> 0]
  BY <1>1 DEF Idle, e
<1>4. WalkTyped
  BY <1>2, <1>3 DEF WalkTyped
<1>5. walk.of = "nothing"
  BY <1>3
<1> QED  BY <1>1, <1>4, <1>5 DEF WalkInv, SeenSoFar, MissedSoFar

\* Every reachable state of a reader among writers.
THEOREM WalkInvariant == WSpec => []WalkInv
BY WalkInit, WalkStep, PTL DEF WSpec

\* A walk ends with its last page, never by a write.
LEMMA EndsIsRead ==
  ASSUME WalkInv, [WNext]_wvars, NEW of \in {"posts", "likers"}, Ends(of)
  PROVE  Read
<1>1. walk.of = of /\ walk'.of = "nothing" /\ walk' # Idle
  BY DEF Ends
<1>2. ~UNCHANGED wvars
  BY <1>1 DEF wvars
<1>3. ~Begin("posts") /\ ~Begin("likers")
  BY <1>1 DEF Begin, Reading
<1>4. ASSUME Write PROVE FALSE
  <2>1. walk'.of = walk.of
    BY <1>1, <1>4 DEF Write, WalkInv, WalkTyped
  <2> QED  BY <1>1, <2>1
<1> QED  BY <1>2, <1>3, <1>4 DEF WNext

\* A walk through the posts of a thread ends having seen each post once, in
\* order, those written while it was reading included.
THEOREM PostsWalksAreComplete == WSpec => PostsWalkMissesNobody
<1>1. ASSUME WalkInv, [WNext]_wvars, Ends("posts")
      PROVE  walk'.seen = threads[WatchedThread]
  BY <1>1, EndsIsRead, ReadPosts DEF Ends
<1>2. WalkInv /\ [WNext]_wvars =>
         [Ends("posts") => walk'.seen = threads[WatchedThread]]_wvars
  BY <1>1
<1> QED  BY <1>2, WalkInvariant, PTL DEF WSpec, PostsWalkMissesNobody

\* A walk through the likers of a post misses, of those who were there all the
\* time, at most one for each that left under it.
THEOREM LikersWalksMissFew == WSpec => LikersWalkMissesOnePerUnlike
<1>1. ASSUME WalkInv, [WNext]_wvars, Ends("likers")
      PROVE  Cardinality(walk'.stayed \ Elements(walk'.seen)) <= walk'.left
  BY <1>1, EndsIsRead, ReadLikers DEF Ends
<1>2. WalkInv /\ [WNext]_wvars =>
         [Ends("likers") =>
            Cardinality(walk'.stayed \ Elements(walk'.seen)) <= walk'.left]_wvars
  BY <1>1
<1> QED  BY <1>2, WalkInvariant, PTL DEF WSpec, LikersWalkMissesOnePerUnlike

\* A reader writes nothing: the forum under it is the forum, so what is proved
\* of the forum holds while somebody reads.
THEOREM ReadersLeaveTheForumAlone == WSpec => FSpec
<1>1. WInit => FInit
  BY DEF WInit
<1>2. [WNext]_wvars => [FNext]_fvars
  BY DEF WNext, wvars, Begin, Read, Write
<1> QED  BY <1>1, <1>2, PTL DEF WSpec, FSpec

=============================================================================
