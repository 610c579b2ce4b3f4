------------------------------- MODULE Gauntlet -------------------------------
(***************************************************************************)
(* Concurrent buyers of one lot, behind the fault injection middleware.    *)
(*                                                                         *)
(* A request arrives, takes a sequence number, gets a fault from its       *)
(* X-Chaos header or from the server's profile (FaultPlanner.decide), is   *)
(* recorded, and then goes the way its fault is applied: answered at once, *)
(* slept on, handed to the buy handler with the fault stashed in its       *)
(* scope, or handed to it and its answer rewritten.  Between two awaits    *)
(* the middleware is one action; every await lets other requests in.       *)
(*                                                                         *)
(* The clients are those of tests/helpers/gauntlet.py: they repeat the buy *)
(* while the status is transient.  Where ClientsTimeOut holds they also    *)
(* stop waiting and try again, and the request they left goes on: nothing  *)
(* in the server cancels it.                                               *)
(***************************************************************************)
EXTENDS LotMarket

CONSTANTS
    Clients,         \* bearer tokens of the buyers
    Seller,          \* token of the lot's seller
    MaxAttempts,     \* bound: requests a client sends for its buy
    ProfileArmed,    \* is there a profile, does every request roll?
    Menu,            \* faults the profile's menu has for the buy endpoint
    Headers,         \* X-Chaos values clients send (NoHeader for none)
    ClientsTimeOut   \* do clients stop waiting for an answer?

ASSUME ClientAssumption ==
    /\ Clients \subseteq Tokens
    /\ Seller \in Tokens \ Clients
    /\ MaxLots >= 1                   \* the lot they want is one of them
    /\ MaxAttempts \in Nat \ {0}
    /\ ProfileArmed \in BOOLEAN
    /\ ClientsTimeOut \in BOOLEAN

Target   == 1                \* the lot everyone wants
Attempts == 1 .. MaxAttempts
Requests == Clients \X Attempts

VARIABLES
    nextSeq,    \* SeedController._seq
    injected,   \* GauntletRecorder._injected
    req,        \* every request a client may send, with how far it has come
    attempt,    \* the client's current request, 0 before the first
    client      \* "ready" to send, "waiting" for an answer, or "done"

pipeline == <<nextSeq, injected, req, attempt, client>>
gvars    == <<vars, pipeline>>

-----------------------------------------------------------------------------
(* The X-Chaos header and the decision *)

\* X-Chaos: <kind> or <kind>@<endpoint>; "unknown" is no FaultKind.
NoHeader == [kind |-> "absent", endpoint |-> "*"]

ASSUME FaultAssumption ==
    /\ Menu \subseteq FaultKind
    /\ Menu \cap DomainFaults \subseteq Armed
    /\ \A h \in Headers : h.kind \in DomainFaults => h.kind \in Armed
    /\ Headers \subseteq [kind : FaultKind \cup {"absent", "unknown"},
                          endpoint : {"*", "buy", "list_lots", "payments"}]

\* What FaultPlanner.decide may return for a buy; with no profile and no
\* header the middleware does not even ask it.  A header aimed at another
\* endpoint switches the roll off, too.
Decisions(header) ==
    IF header.kind # "absent"
    THEN IF header.endpoint \in {"*", "buy"} THEN {header.kind} ELSE {NoFault}
    ELSE IF ProfileArmed THEN Menu \cup {NoFault} ELSE {NoFault}

Passthrough(header) == ~ProfileArmed /\ header.kind = "absent"

-----------------------------------------------------------------------------
(* Answers as the client reads them *)

\* The body the buy handler answers with, by the outcome it resolved.
PlainBody(status, note) ==
    CASE status # 200          -> "error"
      [] note = "pending"      -> "pending"
      [] note = "fail_invalid" -> "invalid_account"
      [] OTHER                 -> "empty"       \* the {} of a purchase

\* apply_post_response: a cut or extended body no longer parses; the
\* byzantine faults need a field to lie about, and {} has none.
Rewritten(fault, body) ==
    CASE fault \in {"malformed_json", "truncated_body"} -> "broken"
      [] fault \in Byzantine /\ body # "empty"          -> "lying"
      [] OTHER                                          -> body

-----------------------------------------------------------------------------
(* The middleware *)

At(r, phase)      == req[r].phase = phase
Move(r, to)       == req' = [req EXCEPT ![r].phase = to]
\* Once a decision is taken the header is of no further use: it is forgotten.
Decided(r, fault, to) ==
    req' = [req EXCEPT ![r].fault = fault, ![r].seq = nextSeq,
                       ![r].phase = to, ![r].header = NoHeader]
Answer(r, status, body) ==
    req' = [req EXCEPT ![r].phase = "answered", ![r].status = status,
                       ![r].body = body]

\* Nothing armed and no header: straight to the handler, no sequence number.
FastPath(r) ==
    /\ At(r, "arrived")
    /\ Passthrough(req[r].header)
    /\ Move(r, "handler")
    /\ UNCHANGED <<vars, nextSeq, injected, attempt, client>>

\* The header names no fault: 400, and nothing is recorded.
UnknownFault(r) ==
    /\ At(r, "arrived")
    /\ req[r].header.kind = "unknown"
    /\ nextSeq' = nextSeq + 1
    /\ req' = [req EXCEPT ![r].phase = "answered", ![r].status = 400,
                          ![r].body = "error", ![r].header = NoHeader]
    /\ UNCHANGED <<vars, injected, attempt, client>>

\* Mutant: a domain fault is stashed, and the app is not called.
RouteStashOnly(fault) ==
    CASE fault \in {"slow", "timeout"}             -> "asleep"
      [] fault \in PreResponse \ {"timeout"}       -> "short"
      [] fault \in DomainFaults                    -> "stashed"
      [] OTHER                                     -> "handler"

\* Where a request with this fault goes after the decision.
Route(fault) ==
    CASE fault \in {"slow", "timeout"}             -> "asleep"
      [] fault \in PreResponse \ {"timeout"}       -> "short"
      [] OTHER                                     -> "handler"

\* Mutants: a request that gets no fault is recorded as well; the sequence
\* number is read but not advanced.
DecideRecordsAll(r, fault) ==
    /\ At(r, "arrived")
    /\ ~Passthrough(req[r].header)
    /\ req[r].header.kind # "unknown"
    /\ fault \in Decisions(req[r].header)
    /\ nextSeq' = nextSeq + 1
    /\ injected' = Append(injected, [seq |-> nextSeq, fault |-> fault])
    /\ Decided(r, fault, Route(fault))
    /\ UNCHANGED <<vars, attempt, client>>

DecidePeeksSeq(r, fault) ==
    /\ At(r, "arrived")
    /\ ~Passthrough(req[r].header)
    /\ req[r].header.kind # "unknown"
    /\ fault \in Decisions(req[r].header)
    /\ injected' = IF fault = NoFault THEN injected
                   ELSE Append(injected, [seq |-> nextSeq, fault |-> fault])
    /\ Decided(r, fault, Route(fault))
    /\ UNCHANGED <<vars, nextSeq, attempt, client>>

Decide(r, fault) ==
    /\ At(r, "arrived")
    /\ ~Passthrough(req[r].header)
    /\ req[r].header.kind # "unknown"
    /\ fault \in Decisions(req[r].header)
    /\ nextSeq' = nextSeq + 1
    /\ injected' = IF fault = NoFault THEN injected
                   ELSE Append(injected, [seq |-> nextSeq, fault |-> fault])
    /\ Decided(r, fault, Route(fault))
    /\ UNCHANGED <<vars, attempt, client>>

\* The sleep of slow and timeout is over.
Wake(r) ==
    /\ At(r, "asleep")
    /\ Move(r, IF req[r].fault = "slow" THEN "handler" ELSE "short")
    /\ UNCHANGED <<vars, nextSeq, injected, attempt, client>>

\* Mutant: the connection is dropped, but the handler has run.
ShortCircuitTooLate(r) ==
    /\ At(r, "short")
    /\ FastBuy(r[1], Target, NoFault, req[r].force)
    /\ Answer(r, PreStatus[req[r].fault], "cut")
    /\ UNCHANGED <<nextSeq, injected, attempt, client>>

\* A dropped connection ends after the headers; the others send their body.
ShortCircuit(r) ==
    /\ At(r, "short")
    /\ Answer(r, PreStatus[req[r].fault],
              IF req[r].fault \in {"timeout", "connection_drop"}
              THEN "cut" ELSE "error")
    /\ UNCHANGED <<vars, nextSeq, injected, attempt, client>>

\* The buy handler sees the fault only when it is a domain fault.
Stashed(r) == IF req[r].fault \in DomainFaults THEN req[r].fault ELSE NoFault

Handle(r) ==
    /\ At(r, "handler")
    /\ FastBuy(r[1], Target, Stashed(r), req[r].force)
    /\ Answer(r, resp'.status,
              Rewritten(req[r].fault, PlainBody(resp'.status, resp'.note)))
    /\ UNCHANGED <<nextSeq, injected, attempt, client>>

-----------------------------------------------------------------------------
(* The clients *)

RetriedStatuses == {429, 500, 502, 503, 504}

Current(c) == <<c, attempt[c]>>

Send(c, header, force) ==
    /\ client[c] = "ready"
    /\ attempt[c] < MaxAttempts
    /\ attempt' = [attempt EXCEPT ![c] = @ + 1]
    /\ req' = [req EXCEPT ![<<c, attempt[c] + 1>>].phase = "arrived",
                          ![<<c, attempt[c] + 1>>].header = header,
                          ![<<c, attempt[c] + 1>>].force = force]
    /\ client' = [client EXCEPT ![c] = "waiting"]
    /\ UNCHANGED <<vars, nextSeq, injected>>

Receive(c) ==
    /\ client[c] = "waiting"
    /\ At(Current(c), "answered")
    /\ client' = [client EXCEPT ![c] =
           IF req[Current(c)].status \in RetriedStatuses /\ attempt[c] < MaxAttempts
           THEN "ready" ELSE "done"]
    /\ UNCHANGED <<vars, nextSeq, injected, req, attempt>>

\* The client gives the request up, not the buy.
TimeOut(c) ==
    /\ ClientsTimeOut
    /\ client[c] = "waiting"
    /\ ~At(Current(c), "answered")
    /\ attempt[c] < MaxAttempts
    /\ client' = [client EXCEPT ![c] = "ready"]
    /\ UNCHANGED <<vars, nextSeq, injected, req, attempt>>

-----------------------------------------------------------------------------
\* One lot has been put on sale, and nothing else has happened.
GInit ==
    /\ lots \in [{Target} -> [seller : {Seller}, price : Prices,
                              published : {"now"}]]
    /\ payments = <<>>
    /\ bought = {}
    /\ revoked = {}
    /\ nextLot = 2
    /\ nextPayment = 1
    /\ ticks = [f \in DOMAIN TickLimit |-> [i \in Items |-> 0]]
    /\ charged = {}
    /\ resp = [route |-> "create", token |-> Seller, item |-> Target,
               status |-> 200, note |-> "none"]
    /\ nextSeq = 1
    /\ injected = <<>>
    /\ req = [r \in Requests |->
                 [phase |-> "unsent", header |-> NoHeader, force |-> "absent",
                  seq |-> 0, fault |-> NoFault, status |-> 0, body |-> "none"]]
    /\ attempt = [c \in Clients |-> 0]
    /\ client = [c \in Clients |-> "ready"]

Serve(r) ==
    \/ FastPath(r)
    \/ UnknownFault(r)
    \/ \E f \in FaultKind \cup {NoFault} : Decide(r, f)
    \/ Wake(r)
    \/ ShortCircuit(r)
    \/ Handle(r)

Act(c) ==
    \/ \E h \in Headers, x \in ForceHeaders : Send(c, h, x)
    \/ Receive(c)

\* Every buyer has its verdict and the server nothing left to do.
Settled ==
    /\ \A c \in Clients : client[c] = "done"
    /\ \A r \in Requests : req[r].phase \in {"unsent", "answered"}
    /\ UNCHANGED gvars

GNext ==
    \/ \E r \in Requests : Serve(r)
    \/ \E c \in Clients : Act(c) \/ TimeOut(c)
    \/ Settled

GSpec == GInit /\ [][GNext]_gvars

\* The event loop runs every ready task and every sleep ends; a client that
\* is ready sends, and one that has an answer reads it.  Giving a request up
\* is nobody's duty.
GFairSpec ==
    /\ GSpec
    /\ \A r \in Requests : WF_gvars(Serve(r))
    /\ \A c \in Clients : WF_gvars(Act(c))

-----------------------------------------------------------------------------
(* Properties *)

GTypeOK ==
    /\ TypeOK
    /\ nextSeq \in Nat
    /\ injected \in Seq([seq : Nat, fault : FaultKind])
    /\ attempt \in [Clients -> 0 .. MaxAttempts]
    /\ client \in [Clients -> {"ready", "waiting", "done"}]
    /\ \A r \in Requests :
          req[r].phase \in {"unsent", "arrived", "asleep", "short", "handler",
                            "answered"}

PaidBy(c) == \E k \in DOMAIN payments : payments[k].account = c

\* An answer that tells its reader: the lot is yours and has been paid.
Confirms(r) ==
    /\ At(r, "answered")
    /\ req[r].status = 200
    /\ req[r].body # "pending"

\* For a client that waits for its answers the last one is the truth: its
\* account is charged in the ledger exactly when that answer is a 200 that is
\* not "pending".  No transport fault, no retry and no other buyer's request
\* in between makes a refusal of a sale or a sale of a refusal.
VerdictMatchesLedger ==
    \A c \in Clients :
        client[c] = "done" => (PaidBy(c) <=> Confirms(Current(c)))

\* Every payment was confirmed to the request that made it and to no other,
\* whoever still waits for it: a client that gave up a slow request and got
\* "not found" for the next finds its purchase in the ledger, once.
EveryPaymentIsConfirmedOnce ==
    \A c \in Clients :
        Cardinality({k \in Attempts : Confirms(<<c, k>>)}) =
            Cardinality({k \in DOMAIN payments : payments[k].account = c})

\* The scorecard is replayable: it lists each faulted request once, with the
\* fault it met, in the order of the sequence numbers that seed the rolls.
ScorecardInSeqOrder ==
    /\ \A k, l \in DOMAIN injected : k < l => injected[k].seq < injected[l].seq
    /\ \A r \in Requests :
          req[r].seq > 0 /\ req[r].fault # NoFault =>
              \E k \in DOMAIN injected :
                  injected[k] = [seq |-> req[r].seq, fault |-> req[r].fault]

\* To OneSale a race of requests is one sale of the lot on offer.  A receipt is
\* made out in the step that confirms the sale, to the client whose request is
\* confirmed; there is a sale without one only where charge_then_fail was drawn.
RaceIsOneSale ==
    /\ Target \in DOMAIN lots \ bought
    /\ [][\E r \in Requests :
             \/ /\ Sale!Sell(Target, r[1])
                /\ ~Confirms(r) /\ Confirms(r)'
             \/ /\ Sale!SellWithoutReceipt(Target)
                /\ req[r].fault = "charge_then_fail"]_(Sale!vars)

\* Every buyer gets to the end of its buy, faulted or not.
EveryBuyEnds == \A c \in Clients : <>(client[c] = "done")

\* retry_storm converges: with one more attempt than it has transient answers,
\* whoever makes it, the lot is sold.
StormEndsInASale == <>(Target \in bought)

=============================================================================
