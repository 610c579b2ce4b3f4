-------------------------------- MODULE Front --------------------------------
(***************************************************************************)
(* The front of the server: a process is started, its command line and its *)
(* environment arm an app (Arming), and the app answers requests, one at a *)
(* time, through the envelope, the fault injection middleware and whatever *)
(* router registered the path first, the catch-all last (RouteTable).      *)
(*                                                                         *)
(* An app keeps all its state on app.state and dies with its process; only *)
(* the random generator of ModelFactory and the settings cache outlive it. *)
(* Two runs of one armed configuration are compared through past.          *)
(***************************************************************************)
EXTENDS Arming, RouteTable

CONSTANTS
    Stream,          \* seed, seq -> coin and spin of that request's own RNG
    Hashes,          \* orders in which a set of classes may be walked
    Requests,        \* what clients send
    NoToken,         \* no, or a defective, Authorization header
    LotIds,          \* nth lot id that SeedController mints -> path segment
    WorldPage,       \* seed -> the world's first page: id segment -> seller
    MaxRequests      \* bound: requests a run answers

VARIABLES
    app,         \* app.state of the live app, or NoApp
    rng,         \* ModelFactory's generator: its seed and what it has drawn
    log,         \* history: the requests this run answered, in order
    past         \* history: the last run, if its app was armed like this one

front == <<app, rng>>
fvars == <<arming, front, log, past>>

\* X-Chaos: <kind> or <kind>@<endpoint>.
NoHeader == [kind |-> "absent", endpoint |-> "*"]
Untyped  == "untyped"        \* a method with no response model
NoApp    == <<>>             \* no app is up: there is no app.state
NoRun    == <<>>             \* there is no earlier run to compare with
Crash    == "crash"          \* choices() of weights that sum to nought raises
Unknown  == "unknown"        \* an X-Chaos header that names no FaultKind

\* POST /testnet/stateful/lots/{item_id}/buy, the one route Front leaves out.
BuyRoute == [verb |-> "POST",
             url  |-> <<"testnet", "stateful", "lots", Hole, "buy">>]

\* Requests have a path, and a header names a fault of the enum or none at all.
\* None is a buy: Gauntlet has that route, with this middleware around it.
ASSUME FrontAssumption ==
    /\ MaxRequests \in Nat \ {0}
    /\ \A r \in Requests :
          /\ r.path \in Seq(STRING) /\ r.path # <<>>
          /\ ~Matches(BuyRoute, r.verb, r.path)
          /\ r.chaos = NoHeader \/ r.chaos.kind \in FaultKind \cup {Unknown}
    /\ \A m \in Catalog : m.fields \in Nat \ {0}

\* The urls that app.py excludes are those of forum_posts.py, which has a route
\* for each method that upstream has there.
ASSUME OwnUrlsAssumption ==
    /\ Hole \notin {"testnet", "posts", "likes"}
    /\ \A m \in Catalog : m.url \in OwnUrls =>
          \/ m.url = <<"posts">> /\ m.verb \in {"GET", "POST"}
          \/ m.url = <<"posts", Hole, "likes">> /\ m.verb \in {"GET", "POST", "DELETE"}

\* Lot ids suffice for a run, and the ids of a world, 48 bits of a hash, are
\* taken for others.
ASSUME LotIdAssumption ==
    /\ \A n \in 1 .. MaxRequests : n \in DOMAIN LotIds /\ LotIds[n] \in STRING
    /\ \A seed \in DOMAIN Stream :
          DOMAIN WorldPage[seed] \cap {LotIds[n] : n \in DOMAIN LotIds} = {}

\* Every seed that can be asked for has a stream, long enough for a run.
ASSUME StreamAssumption ==
    /\ DOMAIN Stream \subseteq Int
    /\ \A seed \in DOMAIN Stream :
          Stream[seed] \in [1 .. MaxRequests -> [coin : Nat, spin : Nat]]
    /\ \A shell \in Shells : shell.seed \in DOMAIN Stream
    /\ \A flags \in Flags : flags.seed \in DOMAIN Stream \cup {Unset}
    /\ \A name \in DOMAIN Scenarios : Scenarios[name].seed \in DOMAIN Stream

-----------------------------------------------------------------------------
(* Answers *)

Object(status, fields, data) ==
    [status |-> status, kind |-> "object", fields |-> fields,
     data |-> data, lies |-> FALSE, envelope |-> FALSE]
Said(status, fields) == Object(status, fields, <<>>)
Listing(data)  == [Object(200, 0, data) EXCEPT !.kind = "list"]
Text(status)   == [Said(status, 0) EXCEPT !.kind = "text"]

\* register_error_handlers: the body names the error and what it is about.
ErrorBody(status) ==
    Said(status, CASE status = 402 -> 1 [] status = 501 -> 4 [] OTHER -> 2)

\* apply_pre_response: nginx's page and a dropped connection are no JSON.
ShortAnswer(fault) ==
    IF fault \in {"http_502_nginx", "connection_drop", "timeout"}
    THEN Text(PreStatus[fault]) ELSE Said(PreStatus[fault], 1)

\* apply_post_response: a cut or extended body no longer parses; a byzantine
\* fault takes the first field of a non-empty object away or falsifies it.
Rewritten(fault, reply) ==
    CASE fault \in {"malformed_json", "truncated_body"} ->
            [reply EXCEPT !.kind = "text"]
      [] fault \in Byzantine /\ reply.kind = "object" /\ reply.fields > 0 ->
            IF fault = "byzantine_missing_field"
            THEN [reply EXCEPT !.fields = @ - 1]
            ELSE [reply EXCEPT !.lies = TRUE]
      [] OTHER -> reply

OnStand(path) == Len(path) > 1 /\ path[1] = "testnet"

\* SystemInfoMiddleware: a successful, non-empty object of the imitated API.
Stamped(path, reply) ==
    IF /\ ~OnStand(path) /\ reply.status < 400
       /\ reply.kind = "object" /\ reply.fields > 0
    THEN [reply EXCEPT !.envelope = TRUE, !.fields = @ + 1] ELSE reply

\* Mutant: the envelope goes on inside the fault middleware.
AnsweredInside(path, fault, reply) == Rewritten(fault, Stamped(path, reply))

\* The envelope was added last, so it is outermost: rewritten, then stamped.
Answered(path, fault, reply) == Stamped(path, Rewritten(fault, reply))

-----------------------------------------------------------------------------
(* The handlers: what one answers, and the app and generator it leaves *)

Left(reply, a, g) == [reply |-> reply, app |-> a, rng |-> g]
Refuse(status)    == Left(ErrorBody(status), app, rng)

\* FakeGenerator.build: the first sample of a model is drawn and kept.
SampleOf(model) ==
    IF model \in DOMAIN app.samples THEN app.samples[model] ELSE rng

Drawing(model, reply) ==
    IF model \in DOMAIN app.samples THEN Left(reply, app, rng)
    ELSE Left(reply,
              [app EXCEPT !.samples =
                  [m \in DOMAIN @ \cup {model} |-> SampleOf(m)]],
              [rng EXCEPT !.drawn = Append(@, model)])

Forced(r) == r.force \in DOMAIN ForcedStatus

\* api/control.py: require_control_key, then the route.  What the stores of
\* injected lots and of threads do is in Catalog and ForumThreads.
Controlled(r, name) ==
    IF settings.key # Unset /\ r.key # settings.key THEN Refuse(401)
    ELSE CASE name = "reset" ->
                 Left(Said(200, 1),
                      [app EXCEPT !.revoked = {}, !.lots = <<>>], rng)
           [] name = "revoke-token" ->
                 Left(Said(200, 2),
                      [app EXCEPT !.revoked = @ \cup {r.token}], rng)
           [] name = "seed-like" -> Left(Said(200, 2), app, rng)
           [] OTHER              -> Left(Said(200, 3), app, rng)

\* The lot store with lots that are in it already, and new ones.
Stocked(new) ==
    [id \in DOMAIN app.lots \cup DOMAIN new |->
        IF id \in DOMAIN app.lots THEN app.lots[id] ELSE new[id]]

\* api/forum.py: a world is needed; a page of its lots is stored when read.
Visited(name) ==
    IF ~app.world THEN Refuse(409)
    ELSE CASE name = "world-lots" ->
                 Left(Said(200, 2),
                      [app EXCEPT !.lots = Stocked(WorldPage[app.seed])], rng)
           [] name = "world-posts" -> Left(Said(200, 1), app, rng)
           [] OTHER                -> Left(Said(200, 2), app, rng)

\* create_lot, list_lots: a lot is a copy of one sample, with its own values.
Created(r) ==
    LET drawn == Drawing("Lot", Object(200, 6, SampleOf("Lot")))
        lot   == [id \in {LotIds[app.lotId]} |-> r.token]
    IN Left(drawn.reply,
            [drawn.app EXCEPT !.lots = Stocked(lot), !.lotId = @ + 1],
            drawn.rng)

Listed ==
    IF DOMAIN app.lots = {} THEN Left(Listing(<<>>), app, rng)
    ELSE Drawing("Lot", Listing(SampleOf("Lot")))

\* _owned_lot, then the {} of bump and of set_price.
Edited(r) ==
    IF r.path[4] \in DOMAIN app.lots /\ app.lots[r.path[4]] = r.token
    THEN Left(Said(200, 0), app, rng) ELSE Refuse(404)

\* api/stateful.py but the buy: with no buy there are no payments.
Traded(r, name) ==
    IF name # "list-lots" /\ r.token = NoToken THEN Refuse(401)
    ELSE IF Forced(r) THEN Refuse(ForcedStatus[r.force])
    ELSE CASE name = "create-lot" -> Created(r)
           [] name = "list-lots"  -> Listed
           [] name = "payments"   -> Left(Listing(<<>>), app, rng)
           [] name = "set-price" /\ r.price = "" -> Refuse(400)
           [] OTHER               -> Edited(r)

Build(method) ==
    Drawing(method.model, Object(200, method.fields, SampleOf(method.model)))

\* Mutant: an untyped method answers the empty success that it used to.
ServedEmpty(method) ==
    IF method.model = Untyped THEN Left(Said(200, 0), app, rng)
    ELSE Build(method)

\* What the catch-all answers for its entry; an untyped method is a 501.
Served(method) ==
    IF method.model = Untyped THEN Refuse(501) ELSE Build(method)

Entry(r) == Match(app.at, r.verb, r.path)

CatchAll(r) ==
    IF r.token = NoToken THEN Refuse(401)
    ELSE IF Entry(r) = {} THEN Refuse(404)
    ELSE IF Forced(r) THEN Refuse(ForcedStatus[r.force])
    ELSE IF r.token \in app.revoked THEN Refuse(401)
    ELSE Served(CHOOSE m \in Entry(r) : TRUE)

\* The routes of the stand, registered before the catch-all, by their router.
Route(of, name, verb, url) ==
    [of |-> of, name |-> name, verb |-> verb, url |-> url]

Stand ==
    {Route("app", "health", "GET", <<"testnet", "health">>),
     Route("control", "reset", "POST", <<"testnet", "reset">>),
     Route("control", "revoke-token", "POST", <<"testnet", "revoke-token">>),
     Route("control", "inject-lot", "POST", <<"testnet", "inject-lot">>),
     Route("control", "seed-post", "POST", <<"testnet", "forum", "seed-post">>),
     Route("control", "seed-like", "POST", <<"testnet", "forum", "seed-like">>),
     Route("stateful", "create-lot", "POST", <<"testnet", "stateful", "lots">>),
     Route("stateful", "list-lots", "GET", <<"testnet", "stateful", "lots">>),
     Route("stateful", "payments", "GET", <<"testnet", "stateful", "payments">>),
     Route("stateful", "bump", "POST",
           <<"testnet", "stateful", "lots", Hole, "bump">>),
     Route("stateful", "set-price", "POST",
           <<"testnet", "stateful", "lots", Hole, "price">>),
     Route("world", "world-users", "GET", <<"testnet", "world", "forum", "users">>),
     Route("world", "world-threads", "GET",
           <<"testnet", "world", "forum", "threads">>),
     Route("world", "world-posts", "GET",
           <<"testnet", "world", "forum", "threads", Hole, "posts">>),
     Route("world", "world-lots", "GET", <<"testnet", "world", "lots">>),
     Route("world", "world-check", "GET",
           <<"testnet", "world", "lots", Hole, "check">>)}

Met(r) == {s \in Stand : Matches(s, r.verb, r.path)}

OnRoute(r, route) ==
    CASE route.of = "control"  -> Controlled(r, route.name)
      [] route.of = "stateful" -> Traded(r, route.name)
      [] route.of = "world"    -> Visited(route.name)
      [] OTHER                 -> Left(Said(200, 1), app, rng)

IsLikes(r) == Len(r.path) = 3 /\ r.path[1] = "posts" /\ r.path[3] = "likes"

\* Mutant: forum_posts has its three routes and no like and unlike.
PostsFieldsOfThree(r) ==
    CASE r.path = <<"posts">> /\ r.verb = "GET"  -> 3
      [] r.path = <<"posts">> /\ r.verb = "POST" -> 1
      [] IsLikes(r) /\ r.verb = "GET"            -> 2
      [] OTHER                                   -> 0

\* forum_posts.py: the fields its answer has, 0 if it has no such route.
PostsFields(r) ==
    CASE r.path = <<"posts">> /\ r.verb = "GET"  -> 3
      [] r.path = <<"posts">> /\ r.verb = "POST" -> 1
      [] IsLikes(r) /\ r.verb = "GET"            -> 2
      [] IsLikes(r) /\ r.verb \in {"POST", "DELETE"} -> 1
      [] OTHER                                   -> 0

\* Whoever registers first wins the path.
Handled(r) ==
    IF Met(r) # {} THEN OnRoute(r, CHOOSE route \in Met(r) : TRUE)
    ELSE IF PostsFields(r) > 0 THEN Left(Said(200, PostsFields(r)), app, rng)
    ELSE CatchAll(r)

-----------------------------------------------------------------------------
(* The fault injection middleware *)

\* _endpoint_key; "/lots" and "/payments" are taken for whole segments.
Endpoint(path) ==
    LET passes(segment) == \E k \in DOMAIN path : path[k] = segment
    IN CASE path[Len(path)] = "buy"                        -> "buy"
         [] path[Len(path)] # "buy" /\ passes("lots")      -> "list_lots"
         [] OTHER -> IF passes("payments") THEN "payments" ELSE "*"

\* Mutant: rolls come from the root generator, one after the other.
DrawFromRoot(seq) ==
    Stream[app.seed][1 + Cardinality({k \in DOMAIN log :
                                        log[k].request.chaos = NoHeader})]

\* SeedController.stream: the request's own generator.
Draw(seq) == Stream[app.seed][seq]

\* FaultPlanner._roll: the coin, the menu of the endpoint, the wheel.
Roll(menu, draw) ==
    IF draw.coin >= app.profile.probability \/ menu.kinds = {} THEN NoFault
    ELSE IF menu.wheel = <<>> THEN Crash
    ELSE menu.wheel[1 + (draw.spin % Len(menu.wheel))]

\* FaultPlanner.decide: the header first, and a header switches the roll off.
Decide(r, seq) ==
    IF r.chaos.kind = Unknown THEN Unknown
    ELSE IF r.chaos # NoHeader
    THEN IF r.chaos.endpoint \in {"*", Endpoint(r.path)} THEN r.chaos.kind
         ELSE NoFault
    ELSE Roll(MenuFor(app.profile, Endpoint(r.path)), Draw(seq))

Passthrough(r) == app.profile = NoProfile /\ r.chaos = NoHeader

\* Mutant: a fault that never reaches the handler is not recorded.
RecordedLate(seq, fault) ==
    IF fault \in {NoFault, Crash, Unknown} \cup PreResponse THEN app.scorecard
    ELSE Append(app.scorecard, [seq |-> seq, fault |-> fault])

\* A decided fault is recorded before it is applied.
Recorded(seq, fault) ==
    IF fault \in {NoFault, Crash, Unknown} THEN app.scorecard
    ELSE Append(app.scorecard, [seq |-> seq, fault |-> fault])

\* One request: the answer, and the app and the generator it leaves.
Outcome(r, fault) ==
    CASE fault = Unknown         -> Left(Said(400, 2), app, rng)
      [] fault = Crash           -> Left(Text(500), app, rng)
      [] fault \in PreResponse   -> Left(ShortAnswer(fault), app, rng)
      [] OTHER                   -> Handled(r)

\* The number a request takes; nought for one the middleware lets pass.
SeqOf(r)   == IF Passthrough(r) THEN 0 ELSE app.next
FaultOf(r) == IF Passthrough(r) THEN NoFault ELSE Decide(r, SeqOf(r))

\* The app and the generator that a request leaves, and what the log has of it.
AppAfter(r) ==
    [Outcome(r, FaultOf(r)).app EXCEPT
        !.next = IF SeqOf(r) = 0 THEN @ ELSE @ + 1,
        !.scorecard = Recorded(SeqOf(r), FaultOf(r))]

RngAfter(r) == Outcome(r, FaultOf(r)).rng

EntryOf(r) ==
    [request |-> r, seq |-> SeqOf(r), fault |-> FaultOf(r),
     by |-> {m.name : m \in Entry(r)},
     answer |-> Answered(r.path, FaultOf(r), Outcome(r, FaultOf(r)).reply)]

-----------------------------------------------------------------------------
(* Runs *)

Configuration(a, key) ==
    [seed |-> a.seed, profile |-> a.profile, world |-> a.world, key |-> key]

\* The run that ends when its process or its app does, if it answered at all.
LastRun == IF log = <<>> THEN past
           ELSE [configuration |-> Configuration(app, settings.key), log |-> log]

EndRun == past' = LastRun /\ log' = <<>> /\ app' = NoApp

Unseeded == [seed |-> Unset, drawn |-> <<>>]

Launch(shell) ==
    /\ NewProcess(shell)
    /\ rng' = Unseeded
    /\ EndRun

\* main of cli.py; bound: a process gets one command line.
Cli(flags) ==
    /\ asked = NoFlags
    /\ CommandLine(flags)
    /\ EndRun
    /\ UNCHANGED rng

\* Mutant: create_app does not seed the generation.
SeededNever(seed) == rng

\* SeedController.seed_generation reseeds the process's one generator.
Seeded(seed) == [seed |-> seed, drawn |-> <<>>]

\* The ids are those of the app's own SeedController: they start with it.
FreshApp(armed, hash) ==
    [profile |-> armed.profile, seed |-> armed.seed, world |-> armed.world,
     at |-> Collected(hash), next |-> 1, samples |-> <<>>, revoked |-> {},
     lots |-> <<>>, lotId |-> 1, scorecard |-> <<>>]

\* create_app: the settings are read, and cached if they were not.
CreateApp(hash) ==
    /\ settings' = Read
    /\ UNCHANGED <<env, asked>>
    /\ IF ~Loads(Read)
       THEN UNCHANGED <<front, log, past>>
       ELSE LET fresh == FreshApp(ArmedBy(Read), hash)
            IN /\ app' = fresh
               /\ log' = <<>>
               /\ rng' = Seeded(fresh.seed)
               /\ past' = IF /\ LastRun # NoRun
                             /\ LastRun.configuration =
                                   Configuration(fresh, Read.key)
                          THEN LastRun ELSE NoRun

Serve(r) ==
    /\ app # NoApp
    /\ Len(log) < MaxRequests
    /\ app' = AppAfter(r)
    /\ rng' = RngAfter(r)
    /\ log' = Append(log, EntryOf(r))
    /\ UNCHANGED <<arming, past>>

FInit ==
    /\ env \in Shells
    /\ asked = NoFlags
    /\ settings = NotRead
    /\ app = NoApp
    /\ rng = Unseeded
    /\ log = <<>>
    /\ past = NoRun

FNext ==
    \/ \E shell \in Shells : Launch(shell)
    \/ \E flags \in Flags : Cli(flags)
    \/ \E hash \in Hashes : CreateApp(hash)
    \/ \E r \in Requests : Serve(r)

FSpec == FInit /\ [][FNext]_fvars

-----------------------------------------------------------------------------
(* Properties *)

\* A generator is told by its seed and by the models it has drawn, in order.
Models    == {m.model : m \in Catalog} \cup {"Lot"}
Generator == [seed : Int \cup {Unset}, drawn : Seq(Models)]

Answer == [status : 200 .. 504, kind : {"object", "list", "text"}, fields : Nat,
           data : {<<>>} \cup Generator, lies : BOOLEAN, envelope : BOOLEAN]

\* Type correctness of the app, the generator and the runs.
FTypeOK ==
    /\ env \in Environment /\ settings \in Environment \cup {NotRead}
    /\ rng \in Generator
    /\ app # NoApp =>
          /\ settings # NotRead
          /\ app.next \in 1 .. MaxRequests + 1
          /\ app.seed = rng.seed
          /\ \A k \in DOMAIN app.scorecard : app.scorecard[k].fault \in FaultKind
    /\ \A k \in DOMAIN log : log[k].answer \in Answer
    /\ past # NoRun => past.log # <<>>

\* seed.py and planner.py promise that a fault depends on the seed and the
\* sequence number alone: in two runs armed alike, and in one, requests to one
\* endpoint with one header get one fault at one number, whatever came before.
SameFaultAtSeq ==
    LET entries == {log[k] : k \in DOMAIN log} \cup
                   (IF past = NoRun \/ app = NoApp THEN {}
                    ELSE {past.log[k] : k \in DOMAIN past.log})
    IN \A e, f \in entries :
          /\ e.seq = f.seq /\ e.seq # 0
          /\ e.request.chaos = f.request.chaos
          /\ Endpoint(e.request.path) = Endpoint(f.request.path)
          => e.fault = f.fault

\* "Same seed, same sequence": while two runs armed alike are sent the same
\* requests they answer alike, the data and the method that made it included,
\* whatever the process did before and however its classes were hashed.
SameSeedSameAnswers ==
    past # NoRun /\ app # NoApp =>
        \A n \in DOMAIN log \cap DOMAIN past.log :
            (\A k \in 1 .. n : log[k].request = past.log[k].request)
            => log[n].answer = past.log[n].answer /\ log[n].by = past.log[n].by

\* The command line is obeyed by the app of its process: a scenario always (or
\* there is no app), a seed and an intensity if no scenario is in the way.
FlagsWin ==
    app # NoApp =>
        /\ asked.seed # Unset /\ env.scenario = Unset => app.seed = asked.seed
        /\ asked.scenario # Unset =>
              /\ asked.scenario \in DOMAIN Scenarios
              /\ app.profile = ToProfile(Scenarios[asked.scenario])
        /\ asked.mode # Unset /\ env.scenario = Unset =>
              app.profile = ProfileFor(asked.mode)

\* A path that some upstream method spells out is never answered by one that
\* takes more of its segments for parameters (/{item_id} before /steam).
LiteralFirst ==
    \A k \in DOMAIN log : \A m, n \in Catalog :
        /\ m.name \in log[k].by
        /\ n.url \notin OwnUrls
        /\ Matches(n, log[k].request.verb, log[k].request.path)
        => Holes(m) <= Holes(n)

\* No upstream method is lost: a request that fits one, off the stand's own
\* paths, is answered 404 only if it forced that, though two modules and the
\* table, where an excluded url goes for all verbs, share the paths out.
NoEndpointVanishes ==
    \A k \in DOMAIN log :
        /\ log[k].answer.status = 404
        /\ ~OnStand(log[k].request.path)
        /\ log[k].request.force # "not_found"
        => \A m \in Catalog :
              ~Matches(m, log[k].request.verb, log[k].request.path)

\* What the scorecard does not tell of did not happen: a request it has no
\* fault for got what the handlers alone would have answered, but for a header
\* that names no fault and a menu that cannot be drawn from.
UnrecordedIsPlain ==
    [][Len(log') = Len(log) + 1 =>
          LET last == log'[Len(log')]
          IN last.fault \notin {Unknown, Crash} /\ app'.scorecard = app.scorecard
             => last.answer = Stamped(last.request.path,
                                      Handled(last.request).reply)]_fvars

\* The envelope is never all an answer has: one that a fault, or a method with
\* nothing to say, left empty does not get to look like an answer.
EnvelopeOnSubstance ==
    \A k \in DOMAIN log :
        log[k].answer.kind = "object" /\ log[k].answer.envelope
        => log[k].answer.fields > 1

\* An empty success of the imitated API is always a fault, and one the scorecard
\* has: no upstream method answers {} with 200 of its own accord, as the stand's
\* own bump, set_price and buy do.
NoEmptySuccess ==
    \A k \in DOMAIN log :
        /\ ~OnStand(log[k].request.path)
        /\ log[k].answer.status = 200 /\ log[k].answer.kind = "object"
        /\ log[k].answer.fields = 0
        => \E s \in DOMAIN app.scorecard :
              app.scorecard[s] = [seq |-> log[k].seq,
                                  fault |-> "byzantine_missing_field"]

\* Intensity off, in the settings or in a scenario with no rate of its own.
Quiet(s) ==
    IF s.scenario = Unset THEN s.mode = "off"
    ELSE /\ Scenarios[s.scenario].intensity = "off"
         /\ Scenarios[s.scenario].probability = Unset

\* Who asked for no chaos gets none, whatever menu a scenario file has: only
\* a header makes a fault then.
QuietServerIsClean ==
    app # NoApp /\ Quiet(settings) =>
        \A k \in DOMAIN log :
            log[k].request.chaos = NoHeader => log[k].fault = NoFault

-----------------------------------------------------------------------------
(* What comments say, and the code does not do *)

\* app.py:49 has a named scenario override the bare intensity and the seed;
\* create_app prefers any seed of the settings but nought to the scenario's.
ScenarioSetsSeed ==
    app # NoApp /\ settings.scenario # Unset =>
        app.seed = Scenarios[settings.scenario].seed
===============================================================================
