---------------------------- MODULE GauntletProofs ----------------------------
(***************************************************************************)
(* Theorems about Gauntlet, for every number of buyers and attempts, every *)
(* menu and every header: the pipeline's types, the market's invariant     *)
(* behind the middleware, the scorecard, and what a client may conclude    *)
(* from its answers.                                                       *)
(***************************************************************************)
EXTENDS Gauntlet, OneSaleProofs, FiniteSetTheorems

-----------------------------------------------------------------------------
(* The pipeline *)

Phases == {"unsent", "arrived", "asleep", "short", "handler", "answered"}

Bodies == {"none", "error", "cut", "pending", "invalid_account", "empty",
           "broken", "lying"}

Req == [phase : Phases, header : Headers \cup {NoHeader},
        force : ForceHeaders \cup {"absent"}, seq : Nat,
        fault : FaultKind \cup {NoFault}, status : Nat, body : Bodies]

\* A request that is on its way has a forced-error header clients send, a
\* fault that may be armed, and a phase its fault leads to; a client's later
\* requests have not been sent.
PipeOK ==
    /\ req \in [Requests -> Req]
    /\ nextSeq \in Nat \ {0}
    /\ injected \in Seq([seq : Nat, fault : FaultKind])
    /\ attempt \in [Clients -> 0 .. MaxAttempts]
    /\ client \in [Clients -> {"ready", "waiting", "done"}]
    /\ \A r \in Requests :
          /\ req[r].phase # "unsent" => req[r].force \in ForceHeaders
          /\ req[r].fault \in DomainFaults => req[r].fault \in Armed
          /\ req[r].phase = "short" => req[r].fault \in PreResponse
          /\ req[r].phase = "asleep" => req[r].fault \in {"slow", "timeout"}
    /\ \A c \in Clients : \A k \in Attempts :
          k > attempt[c] => req[<<c, k>>].phase = "unsent"

\* The buyers' lot has an id the market may issue.
LEMMA TargetIsItem == Target \in Items
BY ClientAssumption DEF Target, Items

\* A request is a client's.
LEMMA RequestOwner ==
    ASSUME NEW r \in Requests
    PROVE  r[1] \in Clients /\ r[2] \in Attempts /\ r = <<r[1], r[2]>>
BY DEF Requests

\* What the planner may return is a fault that is known and armed, or none.
LEMMA DecisionType ==
    ASSUME NEW h \in Headers \cup {NoHeader}, h.kind # "unknown",
           NEW fault \in Decisions(h)
    PROVE  /\ fault \in FaultKind \cup {NoFault}
           /\ fault \in DomainFaults => fault \in Armed
<1>1. NoFault \notin DomainFaults
  BY DEF NoFault, DomainFaults
<1>2. CASE h.kind # "absent"
  <2>1. h \in Headers
    BY <1>2 DEF NoHeader
  <2>2. h.kind \in FaultKind
    BY <1>2, <2>1, FaultAssumption
  <2> QED  BY <1>1, <1>2, <2>1, <2>2, FaultAssumption DEF Decisions
<1>3. CASE h.kind = "absent"
  BY <1>1, <1>3, FaultAssumption DEF Decisions
<1> QED  BY <1>2, <1>3

\* Before anything is sent.
LEMMA PipeInit == GInit => PipeOK
<1> SUFFICES ASSUME GInit  PROVE PipeOK
  OBVIOUS
<1>1. [phase |-> "unsent", header |-> NoHeader, force |-> "absent", seq |-> 0,
       fault |-> NoFault, status |-> 0, body |-> "none"] \in Req
  BY DEF Req, Phases, Bodies
<1>2. NoFault \notin DomainFaults
  BY DEF NoFault, DomainFaults
<1>3. MaxAttempts \in Nat
  BY ClientAssumption
<1> QED  BY <1>1, <1>2, <1>3, RequestOwner DEF GInit, PipeOK, Requests

\* A request that changes alone and stays well formed leaves the rest so.
LEMMA OneRequest ==
    ASSUME PipeOK, NEW r \in Requests, NEW q \in Req,
           req' = [req EXCEPT ![r] = q], req[r].phase # "unsent",
           q.phase # "unsent", q.force = req[r].force,
           q.fault \in DomainFaults => q.fault \in Armed,
           q.phase = "short" => q.fault \in PreResponse,
           q.phase = "asleep" => q.fault \in {"slow", "timeout"},
           UNCHANGED <<attempt, client>>, nextSeq' \in Nat \ {0},
           injected' \in Seq([seq : Nat, fault : FaultKind])
    PROVE  PipeOK'
<1>1. /\ req' \in [Requests -> Req]
      /\ req'[r] = q /\ \A s \in Requests : s # r => req'[s] = req[s]
  BY DEF PipeOK
<1>2. \A c \in Clients : \A k \in Attempts :
         k > attempt[c] => <<c, k>> \in Requests /\ <<c, k>> # r
  BY DEF PipeOK, Requests
<1> QED  BY <1>1, <1>2 DEF PipeOK

\* What the buy handler answers is a status and a body.
LEMMA BodyType ==
    ASSUME NEW fault, NEW status, NEW note
    PROVE  Rewritten(fault, PlainBody(status, note)) \in Bodies
BY DEF Rewritten, PlainBody, Bodies

\* A handled request brings a token, a fault and a header the market knows.
LEMMA HandledBuy ==
    ASSUME PipeOK, NEW r \in Requests, Handle(r)
    PROVE  Next
<1>1. r[1] \in Tokens
  BY RequestOwner, ClientAssumption
<1>2. Stashed(r) \in Armed \cup {NoFault}
  BY DEF PipeOK, Stashed
<1>3. req[r].force \in ForceHeaders
  BY DEF PipeOK, Handle, At
<1>4. FastBuy(r[1], Target, Stashed(r), req[r].force)
  BY DEF Handle
<1> QED  BY <1>1, <1>2, <1>3, <1>4, TargetIsItem DEF Next

\* Behind the middleware the market makes its own steps, or none.
LEMMA GauntletMoves == PipeOK /\ [GNext]_gvars => [Next]_vars
<1> SUFFICES ASSUME PipeOK, [GNext]_gvars  PROVE [Next]_vars
  OBVIOUS
<1>1. ASSUME NEW r \in Requests, Serve(r)  PROVE [Next]_vars
  <2>1. CASE Handle(r)
    BY <2>1, HandledBuy
  <2>2. CASE UNCHANGED vars
    BY <2>2
  <2> QED
    BY <1>1, <2>1, <2>2 DEF Serve, FastPath, UnknownFault, Decide, Wake,
                            ShortCircuit
<1>2. ASSUME NEW c \in Clients, Act(c) \/ TimeOut(c)  PROVE UNCHANGED vars
  BY <1>2 DEF Act, Send, Receive, TimeOut
<1>3. CASE UNCHANGED gvars
  BY <1>3 DEF gvars
<1> QED  BY <1>1, <1>2, <1>3 DEF GNext, Settled

\* Every step of the middleware and of the clients keeps the pipeline.
LEMMA PipeStep == PipeOK /\ TypeOK' /\ [GNext]_gvars => PipeOK'
<1> SUFFICES ASSUME PipeOK, TypeOK', [GNext]_gvars  PROVE PipeOK'
  OBVIOUS
<1> DEFINE Log == Seq([seq : Nat, fault : FaultKind])
<1>0. /\ \A r \in Requests : req[r] \in Req
      /\ nextSeq \in Nat /\ nextSeq + 1 \in Nat \ {0}
      /\ NoFault \notin DomainFaults /\ NoHeader \in Headers \cup {NoHeader}
  BY DEF PipeOK, NoFault, DomainFaults
<1>1. ASSUME NEW r \in Requests, FastPath(r)  PROVE PipeOK'
  <2> DEFINE q == [req[r] EXCEPT !.phase = "handler"]
  <2>1. q \in Req /\ q.phase = "handler" /\ q.force = req[r].force
        /\ q.fault = req[r].fault
    BY <1>0 DEF Req, Phases
  <2>2. req' = [req EXCEPT ![r] = q] /\ req[r].phase # "unsent"
        /\ UNCHANGED <<nextSeq, injected, attempt, client>>
    BY <1>1 DEF FastPath, Move, At
  <2>3. req[r].fault \in DomainFaults => req[r].fault \in Armed
    BY DEF PipeOK
  <2> HIDE DEF q
  <2> QED  BY <2>1, <2>2, <2>3, OneRequest DEF PipeOK
<1>2. ASSUME NEW r \in Requests, NEW bad \in Nat,
             req' = [req EXCEPT ![r].phase = "answered", ![r].status = bad,
                                ![r].body = "error", ![r].header = NoHeader],
             req[r].phase # "unsent", UNCHANGED <<injected, attempt, client>>,
             nextSeq' = nextSeq + 1
      PROVE  PipeOK'
  <2> DEFINE q == [req[r] EXCEPT !.phase = "answered", !.status = bad,
                                 !.body = "error", !.header = NoHeader]
  <2>1. q \in Req /\ q.phase = "answered" /\ q.force = req[r].force
        /\ q.fault = req[r].fault
    BY <1>0 DEF Req, Phases, Bodies
  <2>2. req' = [req EXCEPT ![r] = q]
    BY <1>2
  <2>3. req[r].fault \in DomainFaults => req[r].fault \in Armed
    BY DEF PipeOK
  <2> HIDE DEF q
  <2> QED  BY <1>0, <1>2, <2>1, <2>2, <2>3, OneRequest DEF PipeOK
<1>11. ASSUME NEW r \in Requests, UnknownFault(r)  PROVE PipeOK'
  <2>1. 400 \in Nat
    OBVIOUS
  <2>2. req[r].phase # "unsent"
    BY <1>11 DEF UnknownFault, At
  <2> QED  BY <1>2, <1>11, <2>1, <2>2, Zenon DEF UnknownFault
<1>3. ASSUME NEW r \in Requests, NEW f \in FaultKind \cup {NoFault}, Decide(r, f)
      PROVE  PipeOK'
  <2> DEFINE q == [req[r] EXCEPT !.fault = f, !.seq = nextSeq,
                                 !.phase = Route(f), !.header = NoHeader]
  <2>1. /\ Route(f) \in {"asleep", "short", "handler"}
        /\ Route(f) = "short" => f \in PreResponse
        /\ Route(f) = "asleep" => f \in {"slow", "timeout"}
    BY DEF Route
  <2>2. /\ q \in Req /\ q.phase = Route(f) /\ q.force = req[r].force
        /\ q.fault = f
    BY <1>0, <2>1 DEF Req, Phases
  <2>3. req' = [req EXCEPT ![r] = q] /\ req[r].phase # "unsent"
        /\ UNCHANGED <<attempt, client>> /\ nextSeq' = nextSeq + 1
    BY <1>3 DEF Decide, Decided, At
  <2>4. f \in DomainFaults => f \in Armed
    BY <1>0, <1>3, DecisionType DEF Decide, Req
  <2>5. injected' \in Log
    <3>1. injected \in Log
      BY DEF PipeOK
    <3>2. CASE f = NoFault
      BY <1>3, <3>1, <3>2 DEF Decide
    <3>3. CASE f # NoFault
      <4>1. [seq |-> nextSeq, fault |-> f] \in [seq : Nat, fault : FaultKind]
        BY <1>0, <3>3
      <4> QED  BY <1>3, <3>1, <3>3, <4>1, AppendProperties DEF Decide
    <3> QED  BY <3>2, <3>3
  <2> HIDE DEF q
  <2> QED  BY <1>0, <2>1, <2>2, <2>3, <2>4, <2>5, OneRequest
<1>4. ASSUME NEW r \in Requests, Wake(r)  PROVE PipeOK'
  <2> DEFINE to == IF req[r].fault = "slow" THEN "handler" ELSE "short"
             q  == [req[r] EXCEPT !.phase = to]
  <2>1. q \in Req /\ q.phase = to /\ q.force = req[r].force
        /\ q.fault = req[r].fault
    BY <1>0 DEF Req, Phases
  <2>2. req' = [req EXCEPT ![r] = q] /\ req[r].phase = "asleep"
        /\ UNCHANGED <<nextSeq, injected, attempt, client>>
    BY <1>4 DEF Wake, Move, At
  <2>3. /\ req[r].fault \in DomainFaults => req[r].fault \in Armed
        /\ req[r].fault \in {"slow", "timeout"}
    BY <2>2 DEF PipeOK
  <2>4. to = "short" => req[r].fault \in PreResponse
    BY <2>3 DEF PreResponse, PreStatus
  <2>5. to \in {"handler", "short"}
    OBVIOUS
  <2> HIDE DEF q, to
  <2> QED  BY <2>1, <2>2, <2>3, <2>4, <2>5, OneRequest DEF PipeOK
<1>5. ASSUME NEW r \in Requests, NEW status \in Nat, NEW body \in Bodies,
             Answer(r, status, body), req[r].phase # "unsent",
             UNCHANGED <<nextSeq, injected, attempt, client>>
      PROVE  PipeOK'
  <2> DEFINE q == [req[r] EXCEPT !.phase = "answered", !.status = status,
                                 !.body = body]
  <2>1. q \in Req /\ q.phase = "answered" /\ q.force = req[r].force
        /\ q.fault = req[r].fault
    BY <1>0 DEF Req, Phases
  <2>2. req' = [req EXCEPT ![r] = q]
    BY <1>5 DEF Answer
  <2>3. req[r].fault \in DomainFaults => req[r].fault \in Armed
    BY DEF PipeOK
  <2> HIDE DEF q
  <2> QED  BY <1>5, <2>1, <2>2, <2>3, OneRequest DEF PipeOK
<1>6. ASSUME NEW r \in Requests, ShortCircuit(r)  PROVE PipeOK'
  <2>1. PreStatus[req[r].fault] \in Nat
    BY <1>6 DEF ShortCircuit, At, PipeOK, PreResponse, PreStatus
  <2> QED  BY <1>5, <1>6, <2>1 DEF ShortCircuit, At, Bodies
<1>7. ASSUME NEW r \in Requests, Handle(r)  PROVE PipeOK'
  <2>1. resp'.status \in Nat
    BY DEF TypeOK
  <2> QED  BY <1>5, <1>7, <2>1, BodyType DEF Handle, At
<1>8. ASSUME NEW c \in Clients, NEW h \in Headers, NEW x \in ForceHeaders,
             Send(c, h, x)
      PROVE  PipeOK'
  <2> DEFINE r == <<c, attempt[c] + 1>>
             q == [req[r] EXCEPT !.phase = "arrived", !.header = h, !.force = x]
  <2>1. /\ attempt[c] \in Nat /\ attempt[c] + 1 \in 0 .. MaxAttempts
        /\ attempt[c] + 1 \in Attempts /\ r \in Requests
        /\ req[r].phase = "unsent"
    BY <1>8, ClientAssumption DEF Send, PipeOK, Attempts, Requests
  <2>2. q \in Req /\ q.phase = "arrived" /\ q.force = x
        /\ q.fault = req[r].fault
    BY <1>0, <2>1 DEF Req, Phases
  <2>3. /\ req' = [req EXCEPT ![r] = q]
        /\ attempt' = [attempt EXCEPT ![c] = attempt[c] + 1]
        /\ client' = [client EXCEPT ![c] = "waiting"]
        /\ UNCHANGED <<nextSeq, injected>>
    BY <1>8 DEF Send
  <2>4. /\ req' \in [Requests -> Req] /\ req'[r] = q
        /\ \A s \in Requests : s # r => req'[s] = req[s]
    BY <2>1, <2>2, <2>3 DEF PipeOK
  <2>5. req[r].fault \in DomainFaults => req[r].fault \in Armed
    BY <2>1 DEF PipeOK
  <2>6. \A d \in Clients : \A k \in Attempts :
           k > attempt'[d] => k > attempt[d] /\ <<d, k>> \in Requests /\ <<d, k>> # r
    BY <2>1, <2>3 DEF PipeOK, Requests, Attempts
  <2>7. attempt' \in [Clients -> 0 .. MaxAttempts]
        /\ client' \in [Clients -> {"ready", "waiting", "done"}]
    BY <2>1, <2>3 DEF PipeOK
  <2> HIDE DEF q, r
  <2> QED  BY <2>2, <2>3, <2>4, <2>5, <2>6, <2>7 DEF PipeOK
<1>9. ASSUME NEW c \in Clients, Receive(c) \/ TimeOut(c)  PROVE PipeOK'
  <2>1. /\ client' \in [Clients -> {"ready", "waiting", "done"}]
        /\ UNCHANGED <<nextSeq, injected, req, attempt>>
    BY <1>9 DEF Receive, TimeOut, PipeOK
  <2> QED  BY <2>1 DEF PipeOK
<1>10. CASE UNCHANGED gvars
  BY <1>10 DEF gvars, pipeline, PipeOK
<1> QED
  BY <1>1, <1>3, <1>4, <1>6, <1>7, <1>8, <1>9, <1>10, <1>11
     DEF GNext, Serve, Act, Settled

-----------------------------------------------------------------------------
(* The market behind the middleware *)

\* The market in which one lot has been put on sale is a proper market.
LEMMA GauntletInit == GInit => TypeOK /\ MarketInv
<1> SUFFICES ASSUME GInit  PROVE TypeOK /\ MarketInv
  OBVIOUS
<1>1. Target \in Items /\ Target < nextLot /\ Target \in Nat
  BY TargetIsItem DEF GInit, Target
<1>2. TypeOK
  <2>1. DOMAIN lots = {Target} /\ \A i \in DOMAIN lots : lots[i] \in Lot
    BY ClientAssumption DEF GInit, Lot
  <2>2. ticks \in [DOMAIN TickLimit -> [Items -> Nat]]
    BY DEF GInit
  <2>3. resp \in [route : Routes, token : Tokens \cup {NoToken},
                  item : Nat, status : Nat, note : Notes]
    BY <1>1, ClientAssumption DEF GInit, Routes, Notes
  <2>4. payments \in Seq(Payment)
    BY DEF GInit
  <2> QED  BY <1>1, <2>1, <2>2, <2>3, <2>4 DEF GInit, TypeOK
<1>3. MarketInv
  <2>1. DOMAIN payments = {} /\ DOMAIN lots = {Target}
    BY DEF GInit
  <2>2. Paid = {}
    BY <2>1 DEF Paid
  <2> QED
    BY <1>1, <2>1, <2>2 DEF GInit, MarketInv, NothingSoldIsOnSale, IdsIssued,
                            OneTracePerSale, LedgerAscends
<1> QED  BY <1>2, <1>3

GBase == TypeOK /\ MarketInv /\ PipeOK

\* What every later proof starts from: the pipeline is well formed and the
\* market behind it keeps its invariant, whatever the requests in flight do.
LEMMA GBaseStep == GBase /\ [GNext]_gvars => GBase'
BY GauntletMoves, TypeStep, MarketStep, PipeStep DEF GBase

\* The base of the invariants below holds in every reachable state.
LEMMA GauntletBase == GSpec => []GBase
<1>1. GInit => GBase
  BY GauntletInit, PipeInit DEF GBase
<1> QED  BY <1>1, GBaseStep, PTL DEF GSpec

\* What holds of the market alone survives the middleware: concurrency,
\* faults, retries and abandoned requests add no way to sell a lot twice.
THEOREM GauntletKeepsMarket ==
    GSpec => [](OneTracePerSale /\ NothingSoldIsOnSale /\ LedgerAscends)
<1>1. GBase => OneTracePerSale /\ NothingSoldIsOnSale /\ LedgerAscends
  BY DEF GBase, MarketInv
<1> QED  BY <1>1, GauntletBase, PTL

\* Type correctness of the pipeline and of the market behind it.
THEOREM GauntletTypes == GSpec => []GTypeOK
<1>1. GBase => GTypeOK
  BY DEF GBase, GTypeOK, PipeOK, Req, Phases
<1> QED  BY <1>1, GauntletBase, PTL

-----------------------------------------------------------------------------
(* The scorecard *)

\* That the next number is above every number on the scorecard is what makes
\* the order of the scorecard inductive.
ScoreInv ==
    /\ ScorecardInSeqOrder
    /\ \A k \in DOMAIN injected : injected[k].seq < nextSeq

\* What the scorecard holds are numbers and faults.
LEMMA LogNumbers ==
    ASSUME PipeOK
    PROVE  /\ nextSeq \in Nat
           /\ Len(injected) \in Nat /\ DOMAIN injected = 1 .. Len(injected)
           /\ \A k \in 1 .. Len(injected) : injected[k].seq \in Nat
<1>1. nextSeq \in Nat /\ injected \in Seq([seq : Nat, fault : FaultKind])
  BY DEF PipeOK
<1>2. /\ Len(injected) \in Nat /\ DOMAIN injected = 1 .. Len(injected)
      /\ \A k \in 1 .. Len(injected) : injected[k] \in [seq : Nat, fault : FaultKind]
  BY <1>1, ElementOfSeq, LenProperties
<1> QED  BY <1>1, <1>2

\* A step that records nothing and gives no request another fault or number.
LEMMA ScoreKept ==
    ASSUME PipeOK, ScoreInv, injected' = injected,
           nextSeq' \in {nextSeq, nextSeq + 1},
           \A r \in Requests : /\ req'[r].seq = req[r].seq
                               /\ req'[r].fault = req[r].fault
    PROVE  ScoreInv'
<1>1. /\ nextSeq \in Nat
      /\ \A k \in DOMAIN injected : injected[k].seq \in Nat
  BY LogNumbers
<1>2. \A k \in DOMAIN injected : injected[k].seq < nextSeq'
  BY <1>1 DEF ScoreInv
<1> QED  BY <1>2 DEF ScoreInv, ScorecardInSeqOrder

\* A request that changes alone, and keeps its fault and its number.
LEMMA SameScore ==
    ASSUME PipeOK, NEW r \in Requests, NEW q, req' = [req EXCEPT ![r] = q],
           q.seq = req[r].seq, q.fault = req[r].fault
    PROVE  \A s \in Requests : /\ req'[s].seq = req[s].seq
                               /\ req'[s].fault = req[s].fault
BY DEF PipeOK

\* A decision gives the request the next number, and records its fault.
LEMMA ScoreDecided ==
    ASSUME PipeOK, ScoreInv, NEW r \in Requests,
           NEW f \in FaultKind \cup {NoFault}, Decide(r, f)
    PROVE  ScoreInv'
<1> DEFINE n == Len(injected)
           entry == [seq |-> nextSeq, fault |-> f]
<1>1. /\ nextSeq \in Nat /\ nextSeq' = nextSeq + 1
      /\ injected \in Seq([seq : Nat, fault : FaultKind])
  BY DEF PipeOK, Decide
<1>2. /\ req'[r].seq = nextSeq /\ req'[r].fault = f
      /\ \A s \in Requests : s # r => req'[s] = req[s]
  <2>1. req' = [req EXCEPT ![r] = [req[r] EXCEPT
                   !.fault = f, !.seq = nextSeq, !.phase = Route(f),
                   !.header = NoHeader]]
    BY DEF Decide, Decided
  <2>2. req[r] \in Req
    BY DEF PipeOK
  <2>3. /\ [req[r] EXCEPT !.fault = f, !.seq = nextSeq, !.phase = Route(f),
                          !.header = NoHeader].fault = f
        /\ [req[r] EXCEPT !.fault = f, !.seq = nextSeq, !.phase = Route(f),
                          !.header = NoHeader].seq = nextSeq
    BY <2>2 DEF Req
  <2> QED  BY <2>1, <2>3 DEF PipeOK
<1>3. n \in Nat /\ DOMAIN injected = 1 .. n
      /\ \A k \in 1 .. n : injected[k].seq \in Nat
  BY LogNumbers
<1>4. /\ \A k, l \in 1 .. n : k < l => injected[k].seq < injected[l].seq
      /\ \A k \in 1 .. n : injected[k].seq < nextSeq
  BY <1>3 DEF ScoreInv, ScorecardInSeqOrder
<1>5. \A s \in Requests :
         req[s].seq > 0 /\ req[s].fault # NoFault =>
             \E k \in 1 .. n :
                 injected[k] = [seq |-> req[s].seq, fault |-> req[s].fault]
  BY <1>3 DEF ScoreInv, ScorecardInSeqOrder
<1>6. CASE f = NoFault
  <2>1. injected' = injected
    BY <1>6 DEF Decide
  <2>2. \A k \in 1 .. n : injected[k].seq < nextSeq'
    BY <1>1, <1>3, <1>4
  <2> HIDE DEF n
  <2> QED
    BY <1>2, <1>3, <1>4, <1>5, <1>6, <2>1, <2>2 DEF ScoreInv, ScorecardInSeqOrder
<1>7. CASE f # NoFault
  <2>1. entry \in [seq : Nat, fault : FaultKind] /\ entry.seq = nextSeq
    BY <1>1, <1>7
  <2>2. injected' = Append(injected, entry)
    BY <1>7 DEF Decide
  <2> HIDE DEF entry
  <2>3. /\ DOMAIN injected' = 1 .. n + 1
        /\ \A k \in 1 .. n : injected'[k] = injected[k]
        /\ injected'[n + 1] = entry
    BY <1>1, <1>3, <2>1, <2>2, AppendProperties
  <2> HIDE DEF n
  <2>a. /\ \A k \in 1 .. n : injected'[k].seq = injected[k].seq
        /\ injected'[n + 1].seq = nextSeq
    BY <2>1, <2>3
  <2>4. ASSUME NEW k \in 1 .. n + 1, NEW l \in 1 .. n + 1, k < l
        PROVE  injected'[k].seq < injected'[l].seq
    <3>1. k \in 1 .. n /\ (l \in 1 .. n \/ l = n + 1)
      BY <1>3, <2>4
    <3>2. CASE l \in 1 .. n
      BY <1>4, <2>a, <2>4, <3>1, <3>2
    <3>3. CASE l = n + 1
      BY <1>4, <2>a, <3>1, <3>3
    <3> QED  BY <3>1, <3>2, <3>3
  <2>5. \A k \in 1 .. n + 1 : injected'[k].seq < nextSeq'
    BY <1>1, <1>3, <1>4, <2>a
  <2>6. ASSUME NEW s \in Requests, req'[s].seq > 0, req'[s].fault # NoFault
        PROVE  \E k \in 1 .. n + 1 :
                  injected'[k] = [seq |-> req'[s].seq, fault |-> req'[s].fault]
    <3>1. CASE s = r
      <4>1. n + 1 \in 1 .. n + 1
        BY <1>3
      <4> QED  BY <1>2, <2>3, <3>1, <4>1 DEF entry
    <3>2. CASE s # r
      <4>1. PICK k \in 1 .. n :
               injected[k] = [seq |-> req[s].seq, fault |-> req[s].fault]
        BY <1>2, <1>5, <2>6, <3>2
      <4>2. k \in 1 .. n + 1
        BY <1>3
      <4> QED  BY <1>2, <2>3, <3>2, <4>1, <4>2
    <3> QED  BY <3>1, <3>2
  <2> QED  BY <2>3, <2>4, <2>5, <2>6 DEF ScoreInv, ScorecardInSeqOrder
<1> QED  BY <1>6, <1>7

\* Every step keeps the scorecard.
LEMMA ScoreStep == PipeOK /\ ScoreInv /\ [GNext]_gvars => ScoreInv'
<1> SUFFICES ASSUME PipeOK, ScoreInv, [GNext]_gvars  PROVE ScoreInv'
  OBVIOUS
<1> DEFINE Same == \A s \in Requests : /\ req'[s].seq = req[s].seq
                                       /\ req'[s].fault = req[s].fault
<1>1. \A r \in Requests : req[r] \in Req
  BY DEF PipeOK
<1>2. ASSUME NEW r \in Requests, NEW to, Move(r, to)  PROVE Same
  <2>1. [req[r] EXCEPT !.phase = to].seq = req[r].seq
        /\ [req[r] EXCEPT !.phase = to].fault = req[r].fault
    BY <1>1 DEF Req
  <2> QED  BY <1>2, <2>1, SameScore DEF Move
<1>3. ASSUME NEW r \in Requests, NEW status, NEW body, Answer(r, status, body)
      PROVE  Same
  <2> DEFINE q == [req[r] EXCEPT !.phase = "answered", !.status = status,
                                 !.body = body]
  <2>1. q.seq = req[r].seq /\ q.fault = req[r].fault
    BY <1>1 DEF Req
  <2>2. req' = [req EXCEPT ![r] = q]
    BY <1>3 DEF Answer
  <2> HIDE DEF q
  <2> QED  BY <2>1, <2>2, SameScore
<1>4. ASSUME NEW r \in Requests, FastPath(r) \/ Wake(r)  PROVE ScoreInv'
  BY <1>2, <1>4, ScoreKept DEF FastPath, Wake
<1>5. ASSUME NEW r \in Requests, ShortCircuit(r) \/ Handle(r)  PROVE ScoreInv'
  BY <1>3, <1>5, ScoreKept DEF ShortCircuit, Handle
<1>a. ASSUME NEW r \in Requests, NEW bad,
             req' = [req EXCEPT ![r].phase = "answered", ![r].status = bad,
                                ![r].body = "error", ![r].header = NoHeader]
      PROVE  Same
  <2> DEFINE q == [req[r] EXCEPT !.phase = "answered", !.status = bad,
                                 !.body = "error", !.header = NoHeader]
  <2>1. q.seq = req[r].seq /\ q.fault = req[r].fault
    BY <1>1 DEF Req
  <2>2. req' = [req EXCEPT ![r] = q]
    BY <1>a
  <2> HIDE DEF q
  <2> QED  BY <2>1, <2>2, SameScore
<1>6. ASSUME NEW r \in Requests, UnknownFault(r)  PROVE ScoreInv'
  <2>1. Same
    BY <1>a, <1>6, Zenon DEF UnknownFault
  <2> QED  BY <1>6, <2>1, ScoreKept DEF UnknownFault
<1>7. ASSUME NEW c \in Clients, NEW h \in Headers, NEW x \in ForceHeaders,
             Send(c, h, x)
      PROVE  ScoreInv'
  <2> DEFINE r == <<c, attempt[c] + 1>>
  <2>1. r \in Requests
    BY <1>7, ClientAssumption DEF Send, PipeOK, Attempts, Requests
  <2>2. req' = [req EXCEPT ![r] = [req[r] EXCEPT !.phase = "arrived",
                                      !.header = h, !.force = x]]
    BY <1>7 DEF Send
  <2> HIDE DEF r
  <2>3. /\ [req[r] EXCEPT !.phase = "arrived", !.header = h,
                          !.force = x].seq = req[r].seq
        /\ [req[r] EXCEPT !.phase = "arrived", !.header = h,
                          !.force = x].fault = req[r].fault
    BY <1>1, <2>1 DEF Req
  <2>4. Same
    BY <2>1, <2>2, <2>3, SameScore
  <2> QED  BY <1>7, <2>4, ScoreKept DEF Send
<1>8. CASE UNCHANGED pipeline
  BY <1>8, ScoreKept DEF pipeline
<1>9. ASSUME NEW c \in Clients, Receive(c) \/ TimeOut(c)  PROVE ScoreInv'
  BY <1>9, ScoreKept DEF Receive, TimeOut
<1> QED
  BY <1>4, <1>5, <1>6, <1>7, <1>8, <1>9, ScoreDecided
     DEF GNext, Serve, Act, Settled, gvars

\* The scorecard names every faulted request with the fault it met, in the
\* order of the numbers that seeded the rolls: ScorecardInSeqOrder, always.
THEOREM ScorecardReplays == GSpec => []ScorecardInSeqOrder
<1>1. GInit => ScoreInv
  <2> SUFFICES ASSUME GInit  PROVE ScoreInv
    OBVIOUS
  <2>1. DOMAIN injected = {}
    BY DEF GInit
  <2>2. \A r \in Requests : req[r].seq = 0
    BY DEF GInit
  <2> QED  BY <2>1, <2>2 DEF ScoreInv, ScorecardInSeqOrder
<1>2. GBase /\ ScoreInv /\ [GNext]_gvars => ScoreInv'
  BY ScoreStep DEF GBase
<1>3. ScoreInv => ScorecardInSeqOrder
  BY DEF ScoreInv
<1> QED  BY <1>1, <1>2, <1>3, GauntletBase, PTL DEF GSpec

-----------------------------------------------------------------------------
(* What an answer tells *)

\* A request that is answered has the status and the body it was given, and
\* no other request is touched.
LEMMA AnswerGiven ==
    ASSUME PipeOK, NEW r \in Requests, NEW status, NEW body,
           Answer(r, status, body)
    PROVE  /\ req'[r].phase = "answered"
           /\ req'[r].status = status
           /\ req'[r].body = body
           /\ \A s \in Requests : s # r => req'[s] = req[s]
<1> DEFINE q == [req[r] EXCEPT !.phase = "answered", !.status = status,
                               !.body = body]
<1>1. req[r] \in Req
  BY DEF PipeOK
<1>2. q.phase = "answered" /\ q.status = status /\ q.body = body
  BY <1>1 DEF Req
<1>3. req' = [req EXCEPT ![r] = q]
  BY DEF Answer
<1> HIDE DEF q
<1> QED  BY <1>2, <1>3 DEF PipeOK

\* A request that moves on within the middleware, without an answer.
LEMMA MovedOn ==
    ASSUME PipeOK, NEW r \in Requests, NEW to \in {"handler", "short"},
           Move(r, to)
    PROVE  /\ req'[r].phase # "answered"
           /\ \A s \in Requests : s # r => req'[s] = req[s]
<1>1. req[r] \in Req
  BY DEF PipeOK
<1>2. [req[r] EXCEPT !.phase = to].phase = to
  BY <1>1 DEF Req
<1> QED  BY <1>2 DEF PipeOK, Move

\* A step that is not the handler's leaves the ledger alone, and gives a
\* request, if it answers one, another status than 200.
LEMMA OnlyHandlerConfirms ==
    ASSUME PipeOK, [GNext]_gvars, ~ \E r \in Requests : Handle(r)
    PROVE  /\ payments' = payments
           /\ \A s \in Requests :
                 \/ req'[s] = req[s]
                 \/ /\ req[s].phase # "answered"
                    /\ req'[s].phase = "answered" => req'[s].status # 200
<1> DEFINE Change(s) ==
        \/ req'[s] = req[s]
        \/ /\ req[s].phase # "answered"
           /\ req'[s].phase = "answered" => req'[s].status # 200
    Goal == payments' = payments /\ \A s \in Requests : Change(s)
<1>0. \A r \in Requests : req[r] \in Req
  BY DEF PipeOK
<1>1. ASSUME NEW r \in Requests, FastPath(r) \/ Wake(r)  PROVE Goal
  <2>1. req[r].phase # "answered" /\ payments' = payments
    BY <1>1 DEF FastPath, Wake, At, vars
  <2>2. \E to \in {"handler", "short"} : Move(r, to)
    BY <1>1 DEF FastPath, Wake
  <2> QED  BY <2>1, <2>2, MovedOn
<1>2. ASSUME NEW r \in Requests, NEW bad,
             req' = [req EXCEPT ![r].phase = "answered", ![r].status = bad,
                                ![r].body = "error", ![r].header = NoHeader]
      PROVE  /\ req'[r].status = bad
             /\ \A s \in Requests : s # r => req'[s] = req[s]
  <2> DEFINE q == [req[r] EXCEPT !.phase = "answered", !.status = bad,
                                 !.body = "error", !.header = NoHeader]
  <2>1. q.status = bad
    BY <1>0 DEF Req
  <2>2. req' = [req EXCEPT ![r] = q]
    BY <1>2
  <2> HIDE DEF q
  <2> QED  BY <2>1, <2>2 DEF PipeOK
<1>3. ASSUME NEW r \in Requests, UnknownFault(r)  PROVE Goal
  <2>1. /\ req'[r].status = 400
        /\ \A s \in Requests : s # r => req'[s] = req[s]
    BY <1>2, <1>3, Zenon DEF UnknownFault
  <2>2. req[r].phase # "answered" /\ payments' = payments
    BY <1>3 DEF UnknownFault, At, vars
  <2> QED  BY <2>1, <2>2
<1>4. ASSUME NEW r \in Requests, NEW f, Decide(r, f)  PROVE Goal
  <2> DEFINE q == [req[r] EXCEPT !.fault = f, !.seq = nextSeq,
                                 !.phase = Route(f), !.header = NoHeader]
  <2>1. q.phase = Route(f) /\ Route(f) # "answered"
    BY <1>0 DEF Req, Route
  <2>2. req' = [req EXCEPT ![r] = q] /\ payments' = payments
        /\ req[r].phase # "answered"
    BY <1>4 DEF Decide, Decided, At, vars
  <2> HIDE DEF q
  <2> QED  BY <2>1, <2>2 DEF PipeOK
<1>5. ASSUME NEW r \in Requests, ShortCircuit(r)  PROVE Goal
  <2>1. PreStatus[req[r].fault] # 200
    BY <1>5 DEF ShortCircuit, At, PipeOK, PreResponse, PreStatus
  <2>2. req[r].phase # "answered" /\ payments' = payments
    BY <1>5 DEF ShortCircuit, At, vars
  <2>3. /\ req'[r].status = PreStatus[req[r].fault]
        /\ \A s \in Requests : s # r => req'[s] = req[s]
    BY <1>5, AnswerGiven DEF ShortCircuit
  <2> QED  BY <2>1, <2>2, <2>3
<1>6. ASSUME NEW c \in Clients, NEW h \in Headers, NEW x \in ForceHeaders,
             Send(c, h, x)
      PROVE  Goal
  <2> DEFINE r == <<c, attempt[c] + 1>>
             q == [req[r] EXCEPT !.phase = "arrived", !.header = h, !.force = x]
  <2>1. r \in Requests /\ req[r].phase = "unsent"
    BY <1>6, ClientAssumption DEF Send, PipeOK, Attempts, Requests
  <2>2. req' = [req EXCEPT ![r] = q] /\ payments' = payments
    BY <1>6 DEF Send, vars
  <2>3. q.phase = "arrived"
    BY <1>0, <2>1 DEF Req
  <2> HIDE DEF q, r
  <2> QED  BY <2>1, <2>2, <2>3 DEF PipeOK
<1>7. ASSUME NEW c \in Clients, Receive(c) \/ TimeOut(c)  PROVE Goal
  BY <1>7 DEF Receive, TimeOut, vars
<1>8. CASE UNCHANGED gvars
  BY <1>8 DEF gvars, vars, pipeline
<1> QED
  BY <1>1, <1>3, <1>4, <1>5, <1>6, <1>7, <1>8 DEF GNext, Serve, Act, Settled

\* The buy handler confirms exactly what it writes into the ledger: "pending"
\* is the one 200 that has charged nobody, and no fault can disguise it.
LEMMA BuyTells ==
    ASSUME PipeOK, NEW r \in Requests, Handle(r)
    PROVE  \/ ~Confirms(r)' /\ payments' = payments
           \/ Confirms(r)' /\ Available(Target) /\ Charge(r[1], Target)
<1> DEFINE f == Stashed(r)
           Quiet == ~Confirms(r)' /\ payments' = payments
<1>1. /\ req'[r].phase = "answered" /\ req'[r].status = resp'.status
      /\ req'[r].body =
            Rewritten(req[r].fault, PlainBody(resp'.status, resp'.note))
  BY AnswerGiven DEF Handle
<1>2. ASSUME NEW status, resp'.status = status, status # 200,
             payments' = payments
      PROVE  Quiet
  BY <1>1, <1>2 DEF Confirms
<1>3. CASE Forced("buy", r[1], Target, req[r].force)
  <2>1. resp'.status = ForcedStatus[req[r].force] /\ payments' = payments
    BY <1>3 DEF Forced, Reply, stores
  <2>2. ForcedStatus[req[r].force] # 200
    BY <1>3 DEF Forced, ForcedStatus
  <2> QED  BY <1>2, <2>1, <2>2
<1>4. CASE Refuse("buy", r[1], Target, 404)
  <2>1. resp'.status = 404 /\ payments' = payments
    BY <1>4 DEF Refuse, Reply, stores
  <2> QED  BY <1>2, <2>1
<1>5. CASE /\ Outcome(f, Target) \in DOMAIN KeepsLot
           /\ Reply("buy", r[1], Target, KeepsLot[Outcome(f, Target)],
                    Outcome(f, Target))
           /\ UNCHANGED stores
  <2>1. /\ resp'.status = KeepsLot[Outcome(f, Target)]
        /\ resp'.note = Outcome(f, Target) /\ payments' = payments
    BY <1>5 DEF Reply, stores
  <2>2. CASE Outcome(f, Target) = "pending"
    <3>1. f = "delayed_settlement"
      BY <2>2 DEF Outcome
    <3>2. req[r].fault = "delayed_settlement"
      BY <3>1 DEF Stashed, NoFault
    <3>3. resp'.status = 200 /\ resp'.note = "pending"
      BY <2>1, <2>2 DEF KeepsLot
    <3>4. PlainBody(resp'.status, resp'.note) = "pending"
      BY <3>3 DEF PlainBody
    <3>5. Rewritten(req[r].fault, "pending") = "pending"
      BY <3>2 DEF Rewritten, Byzantine
    <3> QED  BY <1>1, <2>1, <3>4, <3>5 DEF Confirms
  <2>3. CASE Outcome(f, Target) # "pending"
    <3>1. resp'.status # 200
      BY <1>5, <2>1, <2>3 DEF KeepsLot
    <3> QED  BY <1>2, <2>1, <3>1
  <2> QED  BY <2>2, <2>3
<1>6. CASE /\ Reply("buy", r[1], Target, 402, "charge_then_fail")
           /\ UNCHANGED payments
  <2>1. resp'.status = 402
    BY <1>6 DEF Reply
  <2> QED  BY <1>2, <1>6, <2>1
<1>7. CASE /\ Available(Target)
           /\ Outcome(f, Target) \in {"proceed", "fail_invalid"}
           /\ Charge(r[1], Target)
           /\ Reply("buy", r[1], Target, 200, Outcome(f, Target))
  <2>1. resp'.status = 200 /\ resp'.note \in {"proceed", "fail_invalid"}
    BY <1>7 DEF Reply
  <2>2. PlainBody(resp'.status, resp'.note) \in {"invalid_account", "empty"}
    BY <2>1 DEF PlainBody
  <2>3. req'[r].body # "pending"
    BY <1>1, <2>2 DEF Rewritten
  <2> QED  BY <1>1, <1>7, <2>1, <2>3 DEF Confirms, At
<1> QED
  BY <1>3, <1>4, <1>5, <1>6, <1>7 DEF Handle, FastBuy

-----------------------------------------------------------------------------
(* Payments and confirmations *)

\* One request is confirmed if the lot has been paid, none if it has not, and
\* the ledger names the client of that request.
ConfirmInv ==
    /\ \A k \in DOMAIN payments : payments[k].item = Target
    /\ \A r \in Requests : Confirms(r) =>
          \E k \in DOMAIN payments : payments[k].account = r[1]
    /\ \A r, s \in Requests : Confirms(r) /\ Confirms(s) => r = s
    /\ \A k \in DOMAIN payments :
          \E r \in Requests : Confirms(r) /\ r[1] = payments[k].account

\* A step that adds no payment and no confirmation, and takes none away.
LEMMA ConfirmKept ==
    ASSUME ConfirmInv, payments' = payments,
           \A s \in Requests : Confirms(s)' <=> Confirms(s)
    PROVE  ConfirmInv'
BY DEF ConfirmInv

\* Every step keeps payments and confirmations in step.
LEMMA ConfirmStep ==
    GBase /\ ConfirmInv /\ [GNext]_gvars => ConfirmInv'
<1> SUFFICES ASSUME TypeOK, MarketInv, PipeOK, ConfirmInv, [GNext]_gvars
             PROVE  ConfirmInv'
  BY DEF GBase
<1>1. CASE ~ \E r \in Requests : Handle(r)
  BY <1>1, OnlyHandlerConfirms, ConfirmKept DEF Confirms, At
<1>2. ASSUME NEW r \in Requests, Handle(r)  PROVE ConfirmInv'
  <2>1. /\ ~Confirms(r)
        /\ \A s \in Requests : s # r => (Confirms(s)' <=> Confirms(s))
    BY <1>2, AnswerGiven DEF Handle, Confirms, At
  <2>2. CASE ~Confirms(r)' /\ payments' = payments
    BY <2>1, <2>2, ConfirmKept
  <2>3. CASE Confirms(r)' /\ Available(Target) /\ Charge(r[1], Target)
    <3> DEFINE n == Len(payments)
               new == [op |-> nextPayment, account |-> r[1],
                       item |-> Target, amount |-> lots[Target].price]
    <3>1. new \in Payment /\ new.item = Target /\ new.account = r[1]
      <4>1. lots[Target].price \in Prices \cup {NoPrice}
        BY <2>3 DEF Available, TypeOK, Lot
      <4> QED
        BY <4>1, RequestOwner, ClientAssumption DEF TypeOK, Payment, Target
    <3>2. payments' = Append(payments, new)
      BY <2>3 DEF Charge
    <3> HIDE DEF new
    <3>3. /\ n \in Nat
          /\ DOMAIN payments = 1 .. n
          /\ DOMAIN payments' = 1 .. n + 1
          /\ \A k \in 1 .. n : payments'[k] = payments[k]
          /\ payments'[n + 1] = new
      BY <3>1, <3>2, AppendProperties, LenProperties DEF TypeOK
    <3> HIDE DEF n
    <3>4. n + 1 \in 1 .. n + 1 /\ \A k \in 1 .. n + 1 : k \in 1 .. n \/ k = n + 1
      BY <3>3
    <3>5. \A s \in Requests : ~Confirms(s)
      <4>1. Target \notin Paid
        BY <2>3 DEF Available, MarketInv, OneTracePerSale
      <4>2. DOMAIN payments = {}
        BY <4>1 DEF Paid, ConfirmInv
      <4> QED  BY <4>2 DEF ConfirmInv
    <3> QED
      BY <2>1, <2>3, <3>1, <3>3, <3>4, <3>5 DEF ConfirmInv
  <2> QED  BY <1>2, <2>2, <2>3, BuyTells
<1> QED  BY <1>1, <1>2

\* Payments and confirmations start empty and stay in step.
LEMMA ConfirmInvariant == GSpec => [](GBase /\ ConfirmInv)
<1>1. GInit => ConfirmInv
  <2> SUFFICES ASSUME GInit  PROVE ConfirmInv
    OBVIOUS
  <2>1. DOMAIN payments = {}
    BY DEF GInit
  <2>2. \A r \in Requests : ~Confirms(r)
    BY DEF GInit, Confirms, At
  <2> QED  BY <2>1, <2>2 DEF ConfirmInv
<1>2. GBase /\ ConfirmInv /\ [GNext]_gvars => ConfirmInv'
  BY ConfirmStep
<1> QED  BY <1>1, <1>2, GauntletBase, PTL DEF GSpec

\* Whoever times out, retries or is faulted: each payment was confirmed to
\* exactly one request of the account it charged.
THEOREM ConfirmedOnce == GSpec => []EveryPaymentIsConfirmedOnce
<1>1. ASSUME GBase, ConfirmInv  PROVE EveryPaymentIsConfirmedOnce
  <2> SUFFICES ASSUME NEW c \in Clients
               PROVE  Cardinality({k \in Attempts : Confirms(<<c, k>>)}) =
                        Cardinality({k \in DOMAIN payments :
                                        payments[k].account = c})
    BY DEF EveryPaymentIsConfirmedOnce
  <2> DEFINE A == {k \in Attempts : Confirms(<<c, k>>)}
             P == {k \in DOMAIN payments : payments[k].account = c}
  <2>1. \A k, l \in DOMAIN payments : k = l
    BY <1>1 DEF GBase, MarketInv, OneTracePerSale, ConfirmInv
  <2>2. CASE A = {}
    <3>1. P = {}
      <4> SUFFICES ASSUME NEW k \in P  PROVE FALSE
        OBVIOUS
      <4>1. PICK r \in Requests : Confirms(r) /\ r[1] = c
        BY <1>1 DEF ConfirmInv
      <4> QED  BY <2>2, <4>1, RequestOwner
    <3> QED  BY <2>2, <3>1
  <2>3. ASSUME NEW k0 \in A  PROVE Cardinality(A) = Cardinality(P)
    <3>1. A = {k0}
      <4>1. ASSUME NEW k \in A  PROVE k = k0
        <5>1. <<c, k>> \in Requests /\ <<c, k0>> \in Requests
          BY DEF Requests
        <5> QED  BY <1>1, <5>1 DEF ConfirmInv
      <4> QED  BY <4>1
    <3>2. PICK p \in DOMAIN payments : payments[p].account = c
      <4>1. <<c, k0>> \in Requests /\ Confirms(<<c, k0>>)
        BY DEF Requests
      <4> QED  BY <1>1, <4>1 DEF ConfirmInv
    <3>3. P = {p}
      BY <2>1, <3>2
    <3> HIDE DEF A, P
    <3> QED  BY <3>1, <3>3, FS_Singleton
  <2> QED  BY <2>2, <2>3
<1> QED  BY <1>1, ConfirmInvariant, PTL

-----------------------------------------------------------------------------
(* The last answer *)

\* A client that waits for its answers has had a retried status for every
\* request but its current one.
WaitInv ==
    \A c \in Clients :
        /\ \A k \in Attempts :
              k < attempt[c] \/ (k = attempt[c] /\ client[c] = "ready") =>
                  /\ req[<<c, k>>].phase = "answered"
                  /\ req[<<c, k>>].status \in RetriedStatuses
        /\ client[c] # "ready" => attempt[c] \in Attempts

\* An answer is never taken back.
LEMMA AnswersStay ==
    ASSUME PipeOK, [GNext]_gvars, NEW s \in Requests,
           req[s].phase = "answered"
    PROVE  req'[s] = req[s]
<1>1. CASE ~ \E r \in Requests : Handle(r)
  BY <1>1, OnlyHandlerConfirms
<1>2. ASSUME NEW r \in Requests, Handle(r)  PROVE req'[s] = req[s]
  BY <1>2, AnswerGiven DEF Handle, At
<1> QED  BY <1>1, <1>2

\* A client with no timeouts sends again only after an answer it retries.
LEMMA WaitStep ==
    ~ClientsTimeOut /\ PipeOK /\ WaitInv /\ [GNext]_gvars => WaitInv'
<1> SUFFICES ASSUME ~ClientsTimeOut, PipeOK, WaitInv, [GNext]_gvars,
                    NEW c \in Clients
             PROVE  /\ \A k \in Attempts :
                          k < attempt'[c] \/ (k = attempt'[c] /\ client'[c] = "ready") =>
                              /\ req'[<<c, k>>].phase = "answered"
                              /\ req'[<<c, k>>].status \in RetriedStatuses
                    /\ client'[c] # "ready" => attempt'[c] \in Attempts
  BY DEF WaitInv
<1>1. \A k \in Attempts : req[<<c, k>>].phase = "answered" =>
                              req'[<<c, k>>] = req[<<c, k>>]
  BY AnswersStay DEF Requests
<1>2. attempt[c] \in 0 .. MaxAttempts /\ MaxAttempts \in Nat /\ Attempts \subseteq Nat
  BY ClientAssumption DEF PipeOK, Attempts
<1>3. /\ \A k \in Attempts :
            k < attempt[c] \/ (k = attempt[c] /\ client[c] = "ready") =>
                /\ req[<<c, k>>].phase = "answered"
                /\ req[<<c, k>>].status \in RetriedStatuses
      /\ client[c] # "ready" => attempt[c] \in Attempts
  BY DEF WaitInv
<1>4. CASE attempt'[c] = attempt[c] /\ client'[c] = client[c]
  BY <1>1, <1>3, <1>4
<1>5. CASE \E h \in Headers, x \in ForceHeaders : Send(c, h, x)
  <2>1. /\ client[c] = "ready" /\ client'[c] = "waiting"
        /\ attempt'[c] = attempt[c] + 1 /\ attempt[c] < MaxAttempts
    BY <1>5 DEF Send, PipeOK
  <2>2. \A k \in Attempts : k < attempt'[c] => k < attempt[c] \/ k = attempt[c]
    BY <1>2, <2>1
  <2>3. attempt'[c] \in Attempts
    BY <1>2, <2>1 DEF Attempts
  <2> QED  BY <1>1, <1>2, <1>3, <2>1, <2>2, <2>3
<1>6. CASE Receive(c)
  <2>1. /\ client[c] = "waiting" /\ attempt' = attempt /\ req' = req
        /\ req[<<c, attempt[c]>>].phase = "answered"
        /\ \/ client'[c] = "ready"
              /\ req[<<c, attempt[c]>>].status \in RetriedStatuses
           \/ client'[c] = "done"
    BY <1>6 DEF Receive, Current, At, PipeOK
  <2> QED  BY <1>3, <2>1
<1>7. ASSUME NEW d \in Clients, d # c,
             Receive(d) \/ \E h \in Headers, x \in ForceHeaders : Send(d, h, x)
      PROVE  attempt'[c] = attempt[c] /\ client'[c] = client[c]
  BY <1>7 DEF Receive, Send, PipeOK
<1>8. ASSUME \/ \E r \in Requests : Serve(r)
             \/ UNCHANGED gvars
      PROVE  attempt'[c] = attempt[c] /\ client'[c] = client[c]
  BY <1>8 DEF Serve, FastPath, UnknownFault, Decide, Wake, ShortCircuit,
              Handle, gvars, pipeline
<1> QED
  BY <1>4, <1>5, <1>6, <1>7, <1>8 DEF GNext, Act, TimeOut, Settled

\* For clients that wait, and for every seed, menu, header and number of
\* buyers: the account is charged exactly if the last answer says so.
THEOREM LastAnswerIsTruth ==
    ASSUME ~ClientsTimeOut
    PROVE  GSpec => []VerdictMatchesLedger
<1>1. GInit => WaitInv
  <2> SUFFICES ASSUME GInit  PROVE WaitInv
    OBVIOUS
  <2>1. \A c \in Clients : attempt[c] = 0 /\ client[c] = "ready"
    BY DEF GInit
  <2>2. \A k \in Attempts : ~(k < 0) /\ k # 0
    BY ClientAssumption DEF Attempts
  <2> QED  BY <2>1, <2>2 DEF WaitInv
<1>2. PipeOK /\ WaitInv /\ [GNext]_gvars => WaitInv'
  BY WaitStep
<1>3. ASSUME GBase, ConfirmInv, WaitInv  PROVE VerdictMatchesLedger
  <2> SUFFICES ASSUME NEW c \in Clients, client[c] = "done"
               PROVE  PaidBy(c) <=> Confirms(Current(c))
    BY DEF VerdictMatchesLedger
  <2>1. attempt[c] \in Attempts /\ Current(c) \in Requests /\ Current(c)[1] = c
    BY <1>3 DEF WaitInv, Current, Requests
  <2>2. Confirms(Current(c)) => PaidBy(c)
    BY <1>3, <2>1 DEF ConfirmInv, PaidBy
  <2>3. ASSUME PaidBy(c)  PROVE Confirms(Current(c))
    <3>1. PICK r \in Requests : Confirms(r) /\ r[1] = c
      BY <1>3, <2>3 DEF PaidBy, ConfirmInv
    <3>2. r = <<c, r[2]>> /\ r[2] \in Attempts
      BY <3>1, RequestOwner
    <3>3. ~(r[2] < attempt[c])
      BY <1>3, <3>1, <3>2 DEF WaitInv, Confirms, RetriedStatuses
    <3>4. ~(r[2] > attempt[c])
      BY <1>3, <3>1, <3>2 DEF GBase, PipeOK, Confirms, At
    <3>5. r[2] = attempt[c]
      BY <2>1, <3>2, <3>3, <3>4, ClientAssumption DEF Attempts
    <3> QED  BY <3>1, <3>2, <3>5 DEF Current
  <2> QED  BY <2>2, <2>3
<1>4. GBase => PipeOK
  BY DEF GBase
<1> QED  BY <1>1, <1>2, <1>3, <1>4, ConfirmInvariant, PTL DEF GSpec

-----------------------------------------------------------------------------
(* The race, as the abstract market sees it *)

\* The handler of a request sells the lot, and tells, or takes it and fails,
\* or leaves the abstract market as it is.
LEMMA HandledSale ==
    ASSUME GBase, NEW r \in Requests, Handle(r)
    PROVE  \/ Sale!Sell(Target, r[1]) /\ ~Confirms(r) /\ Confirms(r)'
           \/ Sale!SellWithoutReceipt(Target) /\ req[r].fault = "charge_then_fail"
           \/ UNCHANGED Sale!vars
<1>1. r[1] \in Tokens
  BY RequestOwner, ClientAssumption
<1>2. FastBuy(r[1], Target, Stashed(r), req[r].force)
  BY DEF Handle
<1>3. ~Confirms(r)
  BY DEF Handle, At, Confirms
<1>4. CASE Charge(r[1], Target) /\ Sale!Sell(Target, r[1])
  <2>1. payments' # payments
    <3> DEFINE new == [op |-> nextPayment, account |-> r[1], item |-> Target,
                       amount |-> lots[Target].price]
    <3>1. payments' = Append(payments, new) /\ payments \in Seq(Payment)
      BY <1>4 DEF Charge, GBase, TypeOK
    <3> HIDE DEF new
    <3>2. Len(Append(payments, new)) = Len(payments) + 1 /\ Len(payments) \in Nat
      BY <3>1
    <3> QED  BY <3>1, <3>2
  <2> QED  BY <1>3, <1>4, <2>1, BuyTells DEF GBase
<1>5. CASE /\ Outcome(Stashed(r), Target) = "charge_then_fail"
           /\ Sale!SellWithoutReceipt(Target)
  <2>1. Stashed(r) = "charge_then_fail"
    BY <1>5 DEF Outcome
  <2> QED  BY <1>5, <2>1 DEF Stashed, NoFault
<1> QED  BY <1>1, <1>2, <1>4, <1>5, BuyIsASale, TargetIsItem DEF GBase

\* RaceIsOneSale: behind the middleware, for any clients, attempts and faults,
\* the market implements the abstract one from the moment the lot is offered.
THEOREM RacersMakeOneSale == GSpec => RaceIsOneSale
<1> DEFINE Sold == \E r \in Requests :
                      \/ /\ Sale!Sell(Target, r[1])
                         /\ ~Confirms(r) /\ Confirms(r)'
                      \/ /\ Sale!SellWithoutReceipt(Target)
                         /\ req[r].fault = "charge_then_fail"
<1>1. GInit => Target \in DOMAIN lots \ bought
  BY DEF GInit
<1>2. GBase /\ [GNext]_gvars => [Sold]_(Sale!vars)
  <2> SUFFICES ASSUME GBase, [GNext]_gvars  PROVE Sold \/ UNCHANGED Sale!vars
    OBVIOUS
  <2>1. UNCHANGED vars => UNCHANGED Sale!vars
    <3> SUFFICES ASSUME UNCHANGED vars  PROVE UNCHANGED Sale!vars
      OBVIOUS
    <3>1. UNCHANGED <<lots, bought, payments>>
      BY DEF vars, stores
    <3>2. Asking' = Asking
      BY <3>1 DEF Asking
    <3> QED  BY <3>1, <3>2, SaleStutter
  <2>2. ASSUME NEW r \in Requests, Serve(r)  PROVE UNCHANGED vars \/ Handle(r)
    BY <2>2 DEF Serve, FastPath, UnknownFault, Decide, Wake, ShortCircuit
  <2>3. ASSUME NEW c \in Clients, Act(c) \/ TimeOut(c)  PROVE UNCHANGED vars
    BY <2>3 DEF Act, Send, Receive, TimeOut
  <2>4. UNCHANGED vars \/ \E r \in Requests : Handle(r)
    BY <2>2, <2>3 DEF GNext, Settled, gvars
  <2> QED  BY <2>1, <2>4, HandledSale
<1> QED  BY <1>1, <1>2, GauntletBase, PTL DEF GSpec, RaceIsOneSale

===============================================================================
