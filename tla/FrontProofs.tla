----------------------------- MODULE FrontProofs -----------------------------
(***************************************************************************)
(* Theorems about the route table, for every catalog, and about the front  *)
(* of the server, for every set of scenarios, shells, command lines and    *)
(* requests.                                                               *)
(***************************************************************************)
EXTENDS Front, ProofTools

-----------------------------------------------------------------------------
(* The route table: a path is answered by one method at most, by one if    *)
(* any fits, and by none that takes more of it for parameters than another *)
(* does.                                                                   *)

\* The parameters of a method are counted by a number.
LEMMA HolesType ==
  ASSUME NEW m \in Catalog
  PROVE  Holes(m) \in Nat
<1> DEFINE K == {k \in DOMAIN m.url : m.url[k] = Hole}
<1>1. DOMAIN m.url = 1 .. Len(m.url) /\ Len(m.url) \in Nat
  BY CatalogAssumption
<1>2. IsFiniteSet(1 .. Len(m.url))
  BY <1>1, FS_Interval
<1>3. IsFiniteSet(K)
  BY <1>1, <1>2, FS_Subset
<1> QED  BY <1>3, FS_CardinalityType DEF Holes

\* The position of a name does not depend on how the classes are hashed.
LEMMA CollectedType ==
  ASSUME NEW hash, NEW m \in Catalog
  PROVE  Collected(hash)[m.name] = m.name /\ m.name \in Nat
BY CatalogAssumption DEF Collected, Names

\* A path is answered by one method at most.
THEOREM OneMethodAnswers ==
  ASSUME NEW hash, NEW verb, NEW path,
         NEW m \in Match(Collected(hash), verb, path),
         NEW n \in Match(Collected(hash), verb, path)
  PROVE  m = n
<1> DEFINE at == Collected(hash)
<1>1. /\ m \in Catalog /\ n \in Catalog
      /\ m \in Entries(at) /\ n \in Entries(at)
      /\ Matches(m, verb, path) /\ Matches(n, verb, path)
  BY DEF Match, Entries
<1>2. at[m.name] = m.name /\ at[n.name] = n.name
      /\ m.name \in Nat /\ n.name \in Nat
  BY <1>1, CollectedType
<1>3. Holes(m) \in Nat /\ Holes(n) \in Nat
  BY <1>1, HolesType
<1>4. /\ n = m \/ TriedBefore(m, n, at)
      /\ m = n \/ TriedBefore(n, m, at)
  BY <1>1 DEF Match
<1> HIDE DEF at
<1> QED  BY <1>2, <1>3, <1>4 DEF TriedBefore

\* A method that fits a path, or a namesake of its route, is in the table:
\* only the aliases of a route are dropped, never the route.
LEMMA RouteIsKept ==
  ASSUME NEW hash, NEW n \in Catalog, n.url # <<>>, n.url \notin OwnUrls
  PROVE  \E m \in Entries(Collected(hash)) : SameRoute(m, n)
<1> DEFINE at == Collected(hash)
           Same == {m \in Catalog : SameRoute(m, n)}
           Places == {m.name : m \in Same}
<1>1. Places \in SUBSET Nat /\ n.name \in Places
  BY CatalogAssumption DEF SameRoute
<1>2. PICK x \in Places : \A y \in Places : x <= y
  <2> HIDE DEF Places
  <2> QED  BY <1>1, Least
<1>3. PICK m \in Same : m.name = x
  BY <1>2
<1>4. ASSUME NEW k \in Catalog, SameRoute(m, k)
      PROVE  at[m.name] <= at[k.name]
  <2>1. k \in Same
    BY <1>3, <1>4 DEF SameRoute
  <2>2. m.name <= k.name
    BY <1>2, <1>3, <2>1
  <2>3. at[m.name] = m.name /\ at[k.name] = k.name
    BY <1>3, CollectedType
  <2> QED  BY <2>2, <2>3
<1>5. m \in Entries(at)
  BY <1>3, <1>4 DEF Entries, SameRoute
<1> QED  BY <1>3, <1>5

\* A path that some method of the catalog fits is answered by a method, and
\* by one that takes as few of its segments for parameters as any that fits.
THEOREM FewestParametersWin ==
  ASSUME NEW hash, NEW verb, NEW path, path # <<>>,
         NEW n \in Catalog, n.url \notin OwnUrls, Matches(n, verb, path)
  PROVE  /\ Match(Collected(hash), verb, path) # {}
         /\ \A m \in Match(Collected(hash), verb, path) : Holes(m) <= Holes(n)
<1> DEFINE at   == Collected(hash)
           Fits == {m \in Entries(at) : Matches(m, verb, path)}
<1>1. Fits \subseteq Catalog
  BY DEF Entries
<1>2. \A m \in Fits : /\ Holes(m) \in Nat /\ m.name \in Nat
                      /\ at[m.name] = m.name
  BY <1>1, HolesType, CollectedType
<1>3. n.url # <<>>
  BY CatalogAssumption DEF Matches
<1>4. PICK e \in Entries(at) : SameRoute(e, n)
  BY <1>3, RouteIsKept
<1>5. e \in Fits /\ Holes(e) = Holes(n)
  BY <1>4 DEF SameRoute, Matches, Holes
<1>6. Match(at, verb, path) # {}
  <2> DEFINE Counts == {Holes(m) : m \in Fits}
  <2>1. Counts \in SUBSET Nat /\ Counts # {}
    BY <1>2, <1>5
  <2>2. PICK c \in Counts : \A d \in Counts : c <= d
    <3> HIDE DEF Counts
    <3> QED  BY <2>1, Least
  <2> DEFINE Few   == {m \in Fits : Holes(m) = c}
             Places == {m.name : m \in Few}
  <2>3. Places \in SUBSET Nat /\ Places # {}
    BY <1>2, <2>2
  <2>4. PICK x \in Places : \A y \in Places : x <= y
    <3> HIDE DEF Places
    <3> QED  BY <2>3, Least
  <2>5. PICK w \in Few : w.name = x
    BY <2>4
  <2>6. ASSUME NEW k \in Fits, k # w
        PROVE  TriedBefore(w, k, at)
    <3>1. w \in Fits /\ Holes(w) = c /\ c <= Holes(k)
      BY <2>2, <2>5, <2>6
    <3>2. Holes(k) = c => w.name <= k.name
      BY <2>4, <2>5, <2>6
    <3>3. w.name # k.name
      BY <1>1, <2>6, <3>1, CatalogAssumption
    <3> HIDE DEF Fits, at, Few, Places, Counts
    <3> QED  BY <1>2, <2>6, <3>1, <3>2, <3>3 DEF TriedBefore
  <2>7. w \in Match(at, verb, path)
    BY <2>5, <2>6 DEF Match
  <2> QED  BY <2>7
<1>7. ASSUME NEW m \in Match(at, verb, path)
      PROVE  Holes(m) <= Holes(n)
  <2>1. m \in Fits /\ (e = m \/ TriedBefore(m, e, at))
    BY <1>5, <1>7 DEF Match
  <2> HIDE DEF Fits, at
  <2> QED  BY <1>2, <1>5, <2>1 DEF TriedBefore
<1> QED  BY <1>6, <1>7

-----------------------------------------------------------------------------
(* What a handler does to the app, and what it answers *)

\* app.state as far as no handler changes it.
Wiring == {"profile", "seed", "world", "at", "next", "scorecard"}
AppFields == Wiring \cup {"samples", "revoked", "lots", "lotId"}
Keeps(a) == DOMAIN a = DOMAIN app /\ \A f \in Wiring : a[f] = app[f]

\* An answer before any fault and any envelope.
Plain(reply) == reply.envelope = FALSE /\ reply.fields \in Nat

\* One that says something, if it is an object.
Says(reply) == reply.kind = "object" => reply.fields > 0

Good(out) == Plain(out.reply) /\ Keeps(out.app)

\* An error answer names its error and changes nothing.
LEMMA RefuseIsGood ==
  ASSUME NEW status  PROVE Good(Refuse(status))
BY DEF Good, Plain, Keeps, Refuse, Left, ErrorBody, Said, Object

\* So is an answer that says something and changes nothing.
LEMMA SaidIsGood ==
  ASSUME NEW status, NEW n \in Nat
  PROVE  Good(Left(Said(status, n), app, rng))
BY DEF Good, Plain, Keeps, Left, Said, Object

\* Drawing a sample changes the samples and the generator alone.
LEMMA DrawingIsGood ==
  ASSUME NEW model, NEW reply, Plain(reply)
  PROVE  Good(Drawing(model, reply))
<1>1. CASE model \in DOMAIN app.samples
  BY <1>1 DEF Good, Keeps, Drawing, Left
<1>2. CASE model \notin DOMAIN app.samples
  <2> DEFINE a == [app EXCEPT !.samples =
                      [m \in DOMAIN @ \cup {model} |-> SampleOf(m)]]
  <2>1. Keeps(a)
    BY DEF Keeps, Wiring
  <2>2. Drawing(model, reply).app = a /\ Drawing(model, reply).reply = reply
    BY <1>2 DEF Drawing, Left
  <2> HIDE DEF a
  <2> QED  BY <2>1, <2>2 DEF Good
<1> QED  BY <1>1, <1>2

\* A list is no object, empty or not.
LEMMA ListingIsPlain ==
  ASSUME NEW data  PROVE Plain(Listing(data))
BY DEF Plain, Listing, Object

\* Reset and revocation touch neither profile nor numbers nor scorecard.
LEMMA ControlledIsGood ==
  ASSUME NEW r, NEW name  PROVE Good(Controlled(r, name))
<1> DEFINE a == [app EXCEPT !.revoked = {}, !.lots = <<>>]
           b == [app EXCEPT !.revoked = @ \cup {r.token}]
<1>1. Keeps(a) /\ Keeps(b)
  BY DEF Keeps, Wiring
<1>2. \/ Controlled(r, name) = Refuse(401)
      \/ Controlled(r, name) = Left(Said(200, 1), a, rng)
      \/ Controlled(r, name) = Left(Said(200, 2), b, rng)
      \/ Controlled(r, name) = Left(Said(200, 2), app, rng)
      \/ Controlled(r, name) = Left(Said(200, 3), app, rng)
  BY DEF Controlled
<1> HIDE DEF a, b
<1>3. Good(Left(Said(200, 1), a, rng)) /\ Good(Left(Said(200, 2), b, rng))
  BY <1>1 DEF Good, Plain, Left, Said, Object
<1> QED  BY <1>2, <1>3, RefuseIsGood, SaidIsGood

\* The world's listing fills the store, or there is no world.
LEMMA VisitedIsGood ==
  ASSUME NEW name  PROVE Good(Visited(name))
<1> DEFINE a == [app EXCEPT !.lots = Stocked(WorldPage[app.seed])]
<1>1. Keeps(a)
  BY DEF Keeps, Wiring
<1>2. \/ Visited(name) = Refuse(409)
      \/ Visited(name) = Left(Said(200, 2), a, rng)
      \/ Visited(name) = Left(Said(200, 1), app, rng)
      \/ Visited(name) = Left(Said(200, 2), app, rng)
  BY DEF Visited
<1> HIDE DEF a
<1>3. Good(Left(Said(200, 2), a, rng))
  BY <1>1 DEF Good, Plain, Left, Said, Object
<1> QED  BY <1>2, <1>3, RefuseIsGood, SaidIsGood

\* A new lot is in the store and took an id; the wiring is as it was.
LEMMA CreatedIsGood ==
  ASSUME NEW r  PROVE Good(Created(r))
<1> DEFINE drawn == Drawing("Lot", Object(200, 6, SampleOf("Lot")))
           lots  == Stocked([id \in {LotIds[app.lotId]} |-> r.token])
           a     == [drawn.app EXCEPT !.lots = lots, !.lotId = @ + 1]
<1>1. Good(drawn)
  <2>1. Plain(Object(200, 6, SampleOf("Lot")))
    BY DEF Plain, Object
  <2> QED  BY <2>1, DrawingIsGood
<1>2. Created(r) = Left(drawn.reply, a, drawn.rng)
  BY DEF Created
<1> HIDE DEF drawn, lots
<1>3. Keeps(a)
  BY <1>1 DEF Good, Keeps, Wiring
<1> HIDE DEF a
<1> QED  BY <1>1, <1>2, <1>3 DEF Good, Left

\* The market's routes draw a sample, store a lot, or change nothing.
LEMMA TradedIsGood ==
  ASSUME NEW r, NEW name  PROVE Good(Traded(r, name))
<1>1. Good(Left(Listing(<<>>), app, rng))
  BY ListingIsPlain DEF Good, Keeps, Left
<1>2. Good(Drawing("Lot", Listing(SampleOf("Lot"))))
  BY ListingIsPlain, DrawingIsGood
<1>3. Good(Listed)
  BY <1>1, <1>2 DEF Listed
<1>4. Good(Edited(r))
  BY SaidIsGood, RefuseIsGood DEF Edited
<1> QED  BY <1>1, <1>3, <1>4, CreatedIsGood, RefuseIsGood DEF Traded

\* The catch-all answers an error or a model with fields.
LEMMA CatchAllIsGood ==
  ASSUME NEW r  PROVE Good(CatchAll(r))
<1>1. ASSUME NEW m \in Catalog  PROVE Good(Served(m))
  <2>1. Plain(Object(200, m.fields, SampleOf(m.model)))
    BY FrontAssumption DEF Plain, Object
  <2> QED  BY <2>1, DrawingIsGood, RefuseIsGood DEF Served, Build
<1>2. Entry(r) # {} => (CHOOSE m \in Entry(r) : TRUE) \in Catalog
  BY DEF Entry, Match, Entries
<1> QED  BY <1>1, <1>2, RefuseIsGood DEF CatchAll

\* A handler leaves the wiring of its app alone.
LEMMA HandledIsGood ==
  ASSUME NEW r  PROVE Good(Handled(r))
<1>1. PostsFields(r) \in Nat
  BY DEF PostsFields
<1>2. Good(Left(Said(200, PostsFields(r)), app, rng))
  BY <1>1, SaidIsGood
<1>3. ASSUME NEW route  PROVE Good(OnRoute(r, route))
  BY SaidIsGood, ControlledIsGood, TradedIsGood, VisitedIsGood DEF OnRoute
<1> QED  BY <1>2, <1>3, CatchAllIsGood DEF Handled

\* What the fault middleware lets out, the handler's answer or its own.
LEMMA OutcomeIsGood ==
  ASSUME NEW r, NEW fault  PROVE Good(Outcome(r, fault))
<1>1. fault \in PreResponse => Good(Left(ShortAnswer(fault), app, rng))
  BY DEF Good, Plain, Keeps, Left, ShortAnswer, Text, Said, Object
<1>2. Good(Left(Said(400, 2), app, rng))
  BY SaidIsGood
<1>3. Good(Left(Text(500), app, rng))
  BY DEF Good, Plain, Keeps, Left, Text, Said, Object
<1> QED  BY <1>1, <1>2, <1>3, HandledIsGood DEF Outcome

\* The routes of the stand all begin with testnet, and have a segment more.
LEMMA StandUrls ==
  ASSUME NEW route \in Stand
  PROVE  Len(route.url) > 1 /\ route.url[1] = "testnet"
<1>1. Len(route.url) > 1
  BY SMTT(60) DEF Stand, Route
<1>2. route.url[1] = "testnet"
  BY SMTT(60) DEF Stand, Route
<1> QED  BY <1>1, <1>2

\* So a path of the imitated API meets none of them.
LEMMA OffStand ==
  ASSUME NEW r \in Requests, ~OnStand(r.path)
  PROVE  Met(r) = {}
<1> SUFFICES ASSUME NEW route \in Stand, Matches(route, r.verb, r.path)
             PROVE  FALSE
  BY DEF Met
<1>1. Len(route.url) > 1 /\ route.url[1] = "testnet"
  BY StandUrls
<1>2. r.path \in Seq(STRING) /\ Len(route.url) = Len(r.path)
      /\ \A k \in DOMAIN r.path : route.url[k] \in {Hole, r.path[k]}
  BY FrontAssumption DEF Matches
<1>3. 1 \in DOMAIN r.path
  BY <1>1, <1>2
<1>4. r.path[1] = "testnet"
  BY <1>1, <1>2, <1>3, OwnUrlsAssumption
<1> QED  BY <1>1, <1>2, <1>4 DEF OnStand

\* What answers there is an error, or has fields.
LEMMA OutcomeSays ==
  ASSUME NEW r \in Requests, ~OnStand(r.path), NEW fault
  PROVE  Says(Outcome(r, fault).reply)
<1>1. \A status : Says(Refuse(status).reply)
  BY DEF Says, Refuse, Left, ErrorBody, Said, Object
<1>2. \A status, n, a, g : n > 0 => Says(Left(Said(status, n), a, g).reply)
  BY DEF Says, Left, Said, Object
<1>3. ASSUME NEW m \in Catalog  PROVE Says(Served(m).reply)
  <2>1. Says(Object(200, m.fields, SampleOf(m.model)))
    BY FrontAssumption DEF Says, Object
  <2> QED  BY <1>1, <2>1 DEF Served, Build, Drawing, Left
<1>4. Entry(r) # {} => (CHOOSE m \in Entry(r) : TRUE) \in Catalog
  BY DEF Entry, Match, Entries
<1>5. Says(CatchAll(r).reply)
  BY <1>1, <1>3, <1>4 DEF CatchAll
<1>6. Says(Handled(r).reply)
  BY <1>2, <1>5, OffStand DEF Handled
<1>7. Says(Left(ShortAnswer(fault), app, rng).reply)
  BY DEF Says, Left, ShortAnswer, Text, Said, Object
<1>8. Says(Left(Text(500), app, rng).reply)
  BY DEF Says, Left, Text, Said, Object
<1> QED  BY <1>2, <1>6, <1>7, <1>8 DEF Outcome

-----------------------------------------------------------------------------
(* The arming of the process and the wiring of its app *)

\* The environment has the flags that were given, and the settings, once
\* read, are the environment's.
Armed ==
    /\ DOMAIN env = {"mode", "seed", "scenario", "world", "key"}
    /\ env.seed \in DOMAIN Stream
    /\ asked.mode     # Unset => env.mode = asked.mode
    /\ asked.seed     # Unset => env.seed = asked.seed
    /\ asked.scenario # Unset => env.scenario = asked.scenario
    /\ settings \in {NotRead, env}

\* The live app is the one its settings arm, its table is in the order of the
\* names, and it has numbered no more requests than it has answered.
Wired ==
    app # NoApp =>
        /\ settings = env
        /\ DOMAIN app = AppFields
        /\ Loads(env)
        /\ app.profile = ArmedBy(env).profile
        /\ app.seed = ArmedBy(env).seed
        /\ app.seed \in DOMAIN Stream
        /\ app.at = [name \in Names |-> name]
        /\ app.next \in 1 .. Len(log) + 1
        /\ \E S : app.scorecard \in Seq(S)

Logged ==
    /\ \E S : log \in Seq(S)
    /\ Len(log) <= MaxRequests
    /\ app = NoApp => log = <<>>

Base == Armed /\ Wired /\ Logged

\* What Append does to a sequence, whatever its elements are.
LEMMA Appended ==
  ASSUME NEW s, \E S : s \in Seq(S), NEW e
  PROVE  /\ \E S : Append(s, e) \in Seq(S)
         /\ Len(s) \in Nat /\ DOMAIN s = 1 .. Len(s)
         /\ Len(Append(s, e)) = Len(s) + 1
         /\ DOMAIN Append(s, e) = 1 .. Len(s) + 1
         /\ \A k \in 1 .. Len(s) : Append(s, e)[k] = s[k]
         /\ Append(s, e)[Len(s) + 1] = e
<1>1. PICK S : s \in Seq(S)
  OBVIOUS
<1> DEFINE T == S \cup {e}
<1>2. s \in Seq(T)
  BY <1>1
<1>3. e \in T
  OBVIOUS
<1> HIDE DEF T
<1>4. Append(s, e) \in Seq(T)
  BY <1>2, <1>3
<1> QED  BY <1>2, <1>3, <1>4

\* What the handler or the fault makes of one request.
ReplyOf(r) == Outcome(r, FaultOf(r)).reply

\* One request: one entry, at most one number and one record more.
LEMMA ServeAdds ==
  ASSUME Base, NEW r \in Requests, Serve(r)
  PROVE  /\ app # NoApp /\ app' # NoApp
         /\ log' = Append(log, EntryOf(r))
         /\ DOMAIN app' = DOMAIN app
         /\ \A f \in Wiring \ {"next", "scorecard"} : app'[f] = app[f]
         /\ app'.next = IF SeqOf(r) = 0 THEN app.next ELSE app.next + 1
         /\ app'.scorecard = Recorded(SeqOf(r), FaultOf(r))
         /\ UNCHANGED <<env, asked, settings, past>>
<1> DEFINE o == Outcome(r, FaultOf(r))
<1>1. Keeps(o.app)
  BY OutcomeIsGood DEF Good
<1>2. app' = [o.app EXCEPT !.next = IF SeqOf(r) = 0 THEN @ ELSE @ + 1,
                           !.scorecard = Recorded(SeqOf(r), FaultOf(r))]
  BY DEF Serve, AppAfter
<1>3. DOMAIN app = AppFields
  BY DEF Serve, Base, Wired
<1>4. /\ DOMAIN app' = DOMAIN app
      /\ \A f \in Wiring \ {"next", "scorecard"} : app'[f] = app[f]
      /\ app'.next = IF SeqOf(r) = 0 THEN app.next ELSE app.next + 1
      /\ app'.scorecard = Recorded(SeqOf(r), FaultOf(r))
  <2> HIDE DEF o
  <2> QED  BY <1>1, <1>2, <1>3 DEF Keeps, Wiring, AppFields
<1>5. log' = Append(log, EntryOf(r))
  BY DEF Serve
<1>6. UNCHANGED <<env, asked, settings, past>> /\ app # NoApp
  BY DEF Serve, arming
<1>7. app' # NoApp
  BY <1>3, <1>4 DEF NoApp, AppFields, Wiring
<1> QED  BY <1>4, <1>5, <1>6, <1>7

\* A process that has read nothing is wired.
LEMMA BaseInit ==
  ASSUME FInit  PROVE Base
<1>1. Armed
  <2>1. DOMAIN env = {"mode", "seed", "scenario", "world", "key"}
    BY ShellAssumption DEF FInit, Environment
  <2> QED  BY <2>1, StreamAssumption DEF FInit, Armed, NoFlags
<1>2. Wired /\ Logged
  BY FrontAssumption DEF FInit, Wired, Logged
<1> QED  BY <1>1, <1>2 DEF Base

\* A new process starts with an environment of Shells and no app.
LEMMA LaunchKeepsBase ==
  ASSUME Base, NEW shell \in Shells, Launch(shell)  PROVE Base'
<1>1. Armed'
  <2>1. DOMAIN env' = {"mode", "seed", "scenario", "world", "key"}
    BY ShellAssumption DEF Launch, NewProcess, Environment
  <2> QED  BY <2>1, StreamAssumption DEF Launch, NewProcess, Armed, NoFlags
<1>2. Wired' /\ Logged'
  BY FrontAssumption DEF Launch, EndRun, Wired, Logged
<1> QED  BY <1>1, <1>2 DEF Base

\* The command line clears the cache, so no app keeps stale settings.
LEMMA CliKeepsBase ==
  ASSUME Base, NEW flags \in Flags, Cli(flags)  PROVE Base'
<1>1. /\ DOMAIN env' = DOMAIN env
      /\ env'.mode = Given(flags.mode, env.mode)
      /\ env'.seed = Given(flags.seed, env.seed)
      /\ env'.scenario = Given(flags.scenario, env.scenario)
      /\ asked' = flags /\ settings' = NotRead
  BY DEF Cli, CommandLine, Base, Armed
<1>2. Armed'
  BY <1>1, StreamAssumption DEF Base, Armed, Given
<1>3. app' = NoApp /\ log' = <<>>
  BY DEF Cli, EndRun
<1> QED  BY <1>2, <1>3, FrontAssumption DEF Base, Wired, Logged

\* Whatever the precedence picks for a seed has a stream.
LEMMA SeedHasStream ==
  ASSUME Armed, Loads(env)  PROVE ArmedBy(env).seed \in DOMAIN Stream
<1>1. CASE env.scenario = Unset
  BY <1>1 DEF ArmedBy, Armed
<1>2. CASE env.scenario # Unset
  <2>1. ArmedBy(env).seed =
            IF env.seed # 0 THEN env.seed ELSE Scenarios[env.scenario].seed
    BY <1>2 DEF ArmedBy
  <2> QED  BY <1>2, <2>1, StreamAssumption DEF Armed, Loads
<1> QED  BY <1>1, <1>2

\* Where no scenario file is read there is no app; the run goes on as it was.
LEMMA CreateAppSteps ==
  ASSUME Base, NEW hash \in Hashes, CreateApp(hash)
  PROVE  /\ UNCHANGED <<env, asked>> /\ settings' = env
         /\ \/ ~Loads(env) /\ UNCHANGED <<app, rng, log, past>>
            \/ /\ Loads(env)
               /\ app' = FreshApp(ArmedBy(env), hash)
               /\ rng' = Seeded(ArmedBy(env).seed)
               /\ log' = <<>>
               /\ past' # NoRun =>
                     past' = LastRun /\ LastRun.configuration =
                                Configuration(app', settings'.key)
<1>1. Read = env
  BY DEF Read, Base, Armed
<1> QED  BY <1>1 DEF CreateApp, front, FreshApp

\* A new app is armed by the environment as it is now.
LEMMA CreateAppKeepsBase ==
  ASSUME Base, NEW hash \in Hashes, CreateApp(hash)  PROVE Base'
<1>1. Armed'
  BY CreateAppSteps DEF Base, Armed
<1>2. CASE ~Loads(env) /\ UNCHANGED <<app, rng, log, past>>
  BY <1>1, <1>2, CreateAppSteps DEF Base, Wired, Logged
<1>3. CASE /\ Loads(env) /\ log' = <<>>
           /\ app' = FreshApp(ArmedBy(env), hash)
  <2>1. /\ DOMAIN app' = AppFields
        /\ app'.profile = ArmedBy(env).profile
        /\ app'.seed = ArmedBy(env).seed
        /\ app'.at = [name \in Names |-> name]
        /\ app'.next = 1 /\ app'.scorecard = <<>>
    BY <1>3 DEF FreshApp, Collected, AppFields, Wiring
  <2>2. app'.seed \in DOMAIN Stream
    BY <1>3, <2>1, SeedHasStream DEF Base
  <2>3. app' # NoApp
    BY <2>1 DEF NoApp, AppFields, Wiring
  <2>4. UNCHANGED env /\ settings' = env
    BY CreateAppSteps
  <2>5. Wired'
    BY <1>3, <2>1, <2>2, <2>4 DEF Wired
  <2>6. Logged'
    BY <1>3, <2>3, FrontAssumption DEF Logged
  <2> QED  BY <1>1, <2>5, <2>6 DEF Base
<1> QED  BY <1>2, <1>3, CreateAppSteps

\* The log keeps its entries and gains that of the request.
LEMMA LogGrows ==
  ASSUME Base, NEW r \in Requests, Serve(r)
  PROVE  /\ \E S : log' \in Seq(S)
         /\ Len(log) \in Nat /\ Len(log') = Len(log) + 1
         /\ DOMAIN log = 1 .. Len(log) /\ DOMAIN log' = 1 .. Len(log) + 1
         /\ \A k \in 1 .. Len(log) : log'[k] = log[k]
         /\ log'[Len(log) + 1] = EntryOf(r)
<1>1. log' = Append(log, EntryOf(r))
  BY ServeAdds
<1>2. \E S : log \in Seq(S)
  BY DEF Base, Logged
<1> DEFINE e == EntryOf(r)
<1> HIDE DEF e
<1>3. /\ \E S : Append(log, e) \in Seq(S)
      /\ Len(log) \in Nat /\ DOMAIN log = 1 .. Len(log)
      /\ Len(Append(log, e)) = Len(log) + 1
      /\ DOMAIN Append(log, e) = 1 .. Len(log) + 1
      /\ \A k \in 1 .. Len(log) : Append(log, e)[k] = log[k]
      /\ Append(log, e)[Len(log) + 1] = e
  BY <1>2, Appended
<1> QED  BY <1>1, <1>3 DEF e

\* Requests leave arming and wiring as they are.
LEMMA ServeKeepsBase ==
  ASSUME Base, NEW r \in Requests, Serve(r)  PROVE Base'
<1>1. /\ \E S : log' \in Seq(S)
      /\ Len(log) \in Nat /\ Len(log') = Len(log) + 1
  BY LogGrows
<1>2. Len(log) < MaxRequests
  BY DEF Serve
<1>3. app # NoApp /\ app' # NoApp
  BY ServeAdds
<1>4. Logged'
  BY <1>1, <1>2, <1>3, FrontAssumption DEF Logged
<1>5. Armed'
  BY ServeAdds DEF Base, Armed
<1>6. app.next \in 1 .. Len(log) + 1 /\ settings = env
      /\ DOMAIN app = AppFields
  BY <1>3 DEF Base, Wired
<1>7. app'.next \in 1 .. Len(log') + 1
  BY <1>1, <1>6, ServeAdds
<1>8. \E S : app'.scorecard \in Seq(S)
  <2>1. \E S : app.scorecard \in Seq(S)
    BY <1>3 DEF Base, Wired
  <2>2. \E S : Append(app.scorecard,
                     [seq |-> SeqOf(r), fault |-> FaultOf(r)]) \in Seq(S)
    BY <2>1, Appended
  <2> QED  BY <2>1, <2>2, ServeAdds DEF Recorded
<1>9. /\ DOMAIN app' = AppFields
      /\ app'.profile = app.profile /\ app'.seed = app.seed
      /\ app'.at = app.at /\ UNCHANGED <<env, settings>>
  BY <1>6, ServeAdds DEF Wiring
<1>10. Wired'
  BY <1>3, <1>6, <1>7, <1>8, <1>9 DEF Base, Wired
<1> QED  BY <1>4, <1>5, <1>10 DEF Base

\* Every step keeps the strengthening.
LEMMA BaseStep ==
  ASSUME Base, [FNext]_fvars  PROVE Base'
<1>1. CASE UNCHANGED fvars
  BY <1>1 DEF fvars, arming, front, Base, Armed, Wired, Logged
<1>2. CASE FNext
  BY <1>2, LaunchKeepsBase, CliKeepsBase, CreateAppKeepsBase, ServeKeepsBase
     DEF FNext
<1> QED  BY <1>1, <1>2

\* The front's strengthening: arming, wiring and log, in every state.
THEOREM WiringInvariant == FSpec => []Base
<1>1. FInit => Base
  BY BaseInit
<1>2. Base /\ [FNext]_fvars => Base'
  BY BaseStep
<1> QED  BY <1>1, <1>2, PTL DEF FSpec

\* The flags of the command line decide over the app: FlagsWin, always.
THEOREM CommandLineDecides == FSpec => []FlagsWin
<1>1. ASSUME Base  PROVE FlagsWin
  <2> SUFFICES ASSUME app # NoApp  PROVE FlagsWin
    BY DEF FlagsWin
  <2>1. /\ app.profile = ArmedBy(env).profile
        /\ app.seed = ArmedBy(env).seed
        /\ env.scenario # Unset => env.scenario \in DOMAIN Scenarios
    BY <1>1 DEF Base, Wired, Loads
  <2>2. env.scenario # Unset =>
            ArmedBy(env).profile = ToProfile(Scenarios[env.scenario])
    BY DEF ArmedBy
  <2>3. env.scenario = Unset => /\ ArmedBy(env).profile = ProfileFor(env.mode)
                                /\ ArmedBy(env).seed = env.seed
    BY DEF ArmedBy
  <2>4. /\ asked.mode # Unset => env.mode = asked.mode
        /\ asked.seed # Unset => env.seed = asked.seed
        /\ asked.scenario # Unset => env.scenario = asked.scenario
    BY <1>1 DEF Base, Armed
  <2> QED  BY <2>1, <2>2, <2>3, <2>4 DEF FlagsWin
<1> QED  BY <1>1, WiringInvariant, PTL

-----------------------------------------------------------------------------
(* What holds of every answer of the log *)

\* A step answers a request, or ends the run, or changes neither.
LEMMA ThreeSteps ==
  ASSUME Base, [FNext]_fvars
  PROVE  \/ UNCHANGED <<app, log, past>> /\ (app # NoApp => UNCHANGED settings)
         \/ log' = <<>>
         \/ \E r \in Requests : Serve(r)
<1>1. CASE UNCHANGED fvars
  BY <1>1 DEF fvars, front, arming
<1>2. CASE \E shell \in Shells : Launch(shell)
  BY <1>2 DEF Launch, EndRun
<1>3. CASE \E flags \in Flags : Cli(flags)
  BY <1>3 DEF Cli, EndRun
<1>4. CASE \E hash \in Hashes : CreateApp(hash)
  <2>1. app # NoApp => settings = env
    BY DEF Base, Wired
  <2> QED  BY <1>4, <2>1, CreateAppSteps
<1> QED  BY <1>1, <1>2, <1>3, <1>4 DEF FNext

\* The method that answers has no more holes than any that fits.
LEMMA MatchOfLog ==
  ASSUME Base, NEW r, app # NoApp
  PROVE  \A m \in Catalog, n \in Catalog :
            /\ r \in Requests
            /\ m.name \in EntryOf(r).by
            /\ n.url \notin OwnUrls
            /\ Matches(n, r.verb, r.path)
            => Holes(m) <= Holes(n)
<1> SUFFICES ASSUME NEW m \in Catalog, NEW n \in Catalog, r \in Requests,
                    m.name \in EntryOf(r).by, n.url \notin OwnUrls,
                    Matches(n, r.verb, r.path)
             PROVE  Holes(m) <= Holes(n)
  OBVIOUS
<1>1. app.at = Collected({})
  BY DEF Base, Wired, Collected
<1>2. PICK k \in Entry(r) : k.name = m.name
  BY DEF EntryOf
<1>3. k \in Match(Collected({}), r.verb, r.path) /\ k \in Catalog
  BY <1>1, <1>2 DEF Entry, Match, Entries
<1>4. k = m
  BY <1>2, <1>3, CatalogAssumption
<1>5. r.path # <<>>
  BY FrontAssumption
<1> QED  BY <1>3, <1>4, <1>5, FewestParametersWin

\* A spelt-out path wins over a placeholder: LiteralFirst, always.
THEOREM LiteralsWin == FSpec => []LiteralFirst
<1>1. FInit => LiteralFirst
  BY DEF FInit, LiteralFirst
<1>2. ASSUME Base, LiteralFirst, [FNext]_fvars  PROVE LiteralFirst'
  <2>1. CASE UNCHANGED <<app, log, past>>
    BY <1>2, <2>1 DEF LiteralFirst
  <2>2. CASE log' = <<>>
    BY <2>2 DEF LiteralFirst
  <2>3. ASSUME NEW r \in Requests, Serve(r)  PROVE LiteralFirst'
    <3>1. app # NoApp
      BY <1>2, <2>3, ServeAdds
    <3>2. \A k \in DOMAIN log' :
             (k \in DOMAIN log /\ log'[k] = log[k]) \/ log'[k] = EntryOf(r)
      BY <1>2, <2>3, LogGrows
    <3>3. EntryOf(r).request = r
      BY DEF EntryOf
    <3> DEFINE e == EntryOf(r)
    <3>4. \A m \in Catalog, n \in Catalog :
             /\ m.name \in e.by /\ n.url \notin OwnUrls
             /\ Matches(n, e.request.verb, e.request.path)
             => Holes(m) <= Holes(n)
      BY <1>2, <3>1, <3>3, MatchOfLog
    <3> HIDE DEF e
    <3> QED  BY <1>2, <3>2, <3>4 DEF LiteralFirst, e
  <2> QED  BY <1>2, <2>1, <2>2, <2>3, ThreeSteps
<1> QED  BY <1>1, <1>2, WiringInvariant, PTL DEF FSpec

\* The envelope never makes an empty body look like an answer.
LEMMA EnvelopeAdds ==
  ASSUME NEW path, NEW fault, NEW reply, Plain(reply),
         Answered(path, fault, reply).envelope
  PROVE  Answered(path, fault, reply).fields > 1
<1> DEFINE R == Rewritten(fault, reply)
<1>1. R.envelope = FALSE /\ R.fields \in Nat
  BY DEF Plain, Rewritten
<1>2. Answered(path, fault, reply) = Stamped(path, R)
  BY DEF Answered
<1>3. Stamped(path, R).envelope => Stamped(path, R).fields = R.fields + 1
                                   /\ R.fields > 0
  BY <1>1 DEF Stamped
<1> QED  BY <1>1, <1>2, <1>3

\* EnvelopeOnSubstance, always.
THEOREM EnvelopesHaveSubstance == FSpec => []EnvelopeOnSubstance
<1>1. FInit => EnvelopeOnSubstance
  BY DEF FInit, EnvelopeOnSubstance
<1>2. ASSUME Base, EnvelopeOnSubstance, [FNext]_fvars
      PROVE  EnvelopeOnSubstance'
  <2>1. CASE UNCHANGED <<app, log, past>>
    BY <1>2, <2>1 DEF EnvelopeOnSubstance
  <2>2. CASE log' = <<>>
    BY <2>2 DEF EnvelopeOnSubstance
  <2>3. ASSUME NEW r \in Requests, Serve(r)  PROVE EnvelopeOnSubstance'
    <3>1. \A k \in DOMAIN log' :
             (k \in DOMAIN log /\ log'[k] = log[k]) \/ log'[k] = EntryOf(r)
      BY <1>2, <2>3, LogGrows
    <3>2. EntryOf(r).answer = Answered(r.path, FaultOf(r), ReplyOf(r))
      BY DEF EntryOf, ReplyOf
    <3>3. Plain(ReplyOf(r))
      BY OutcomeIsGood DEF Good, ReplyOf
    <3>4. EntryOf(r).answer.envelope => EntryOf(r).answer.fields > 1
      BY <3>2, <3>3, EnvelopeAdds
    <3> QED  BY <1>2, <3>1, <3>4 DEF EnvelopeOnSubstance
  <2> QED  BY <1>2, <2>1, <2>2, <2>3, ThreeSteps
<1> QED  BY <1>1, <1>2, WiringInvariant, PTL DEF FSpec

\* Only one fault takes the last field of an answer away.
LEMMA EmptyIsAFault ==
  ASSUME NEW path, NEW fault, NEW reply, Plain(reply), Says(reply),
         Answered(path, fault, reply).kind = "object",
         Answered(path, fault, reply).fields = 0
  PROVE  fault = "byzantine_missing_field"
<1> SUFFICES ASSUME fault # "byzantine_missing_field"  PROVE FALSE
  OBVIOUS
<1> DEFINE R == Rewritten(fault, reply)
<1>1. R.fields = reply.fields /\ (R.kind = "object" => reply.kind = "object")
  BY DEF Rewritten
<1>2. /\ Stamped(path, R).kind = R.kind
      /\ Stamped(path, R).fields \in {R.fields, R.fields + 1}
  BY DEF Stamped
<1>3. Answered(path, fault, reply) = Stamped(path, R)
  BY DEF Answered
<1> HIDE DEF R
<1> QED  BY <1>1, <1>2, <1>3 DEF Plain, Says

\* An empty 200 of the imitated API is on the scorecard: NoEmptySuccess, always.
THEOREM EmptySuccessIsRecorded == FSpec => []NoEmptySuccess
<1>1. FInit => NoEmptySuccess
  BY DEF FInit, NoEmptySuccess
<1>2. ASSUME Base, NoEmptySuccess, [FNext]_fvars  PROVE NoEmptySuccess'
  <2>1. CASE UNCHANGED <<app, log, past>>
    BY <1>2, <2>1 DEF NoEmptySuccess
  <2>2. CASE log' = <<>>
    BY <2>2 DEF NoEmptySuccess
  <2>3. ASSUME NEW r \in Requests, Serve(r)  PROVE NoEmptySuccess'
    <3> DEFINE note == [seq |-> SeqOf(r), fault |-> FaultOf(r)]
               card == app.scorecard
    <3>1. \A k \in DOMAIN log' :
             (k \in DOMAIN log /\ log'[k] = log[k]) \/ log'[k] = EntryOf(r)
      BY <1>2, <2>3, LogGrows
    <3>2. \E S : card \in Seq(S)
      BY <1>2, <2>3, ServeAdds DEF Base, Wired
    <3>3. /\ \A n \in DOMAIN card : n \in DOMAIN Append(card, note)
                                   /\ Append(card, note)[n] = card[n]
          /\ \E n \in DOMAIN Append(card, note) : Append(card, note)[n] = note
      <4> HIDE DEF note, card
      <4>1. /\ Len(card) \in Nat /\ DOMAIN card = 1 .. Len(card)
            /\ DOMAIN Append(card, note) = 1 .. Len(card) + 1
            /\ \A k \in 1 .. Len(card) : Append(card, note)[k] = card[k]
            /\ Append(card, note)[Len(card) + 1] = note
        BY <3>2, Appended
      <4> QED  BY <4>1
    <3>4. app'.scorecard = IF FaultOf(r) \in {NoFault, Crash, Unknown}
                           THEN card ELSE Append(card, note)
      BY <1>2, <2>3, ServeAdds DEF Recorded
    <3>5. \A n \in DOMAIN card : n \in DOMAIN app'.scorecard
                                /\ app'.scorecard[n] = card[n]
      <4> HIDE DEF note
      <4> QED  BY <3>3, <3>4
    <3>6. /\ ~OnStand(r.path)
          /\ EntryOf(r).answer.kind = "object" /\ EntryOf(r).answer.fields = 0
          => FaultOf(r) = "byzantine_missing_field"
      <4>1. EntryOf(r).answer = Answered(r.path, FaultOf(r), ReplyOf(r))
        BY DEF EntryOf, ReplyOf
      <4>2. Plain(ReplyOf(r))
        BY OutcomeIsGood DEF Good, ReplyOf
      <4>3. ~OnStand(r.path) => Says(ReplyOf(r))
        BY OutcomeSays DEF ReplyOf
      <4> QED  BY <4>1, <4>2, <4>3, EmptyIsAFault
    <3>7. FaultOf(r) = "byzantine_missing_field"
          => \E n \in DOMAIN app'.scorecard : app'.scorecard[n] = note
      <4>1. "byzantine_missing_field" \notin {NoFault, Crash, Unknown}
        BY DEF NoFault, Crash, Unknown
      <4> HIDE DEF note, card
      <4> QED  BY <3>3, <3>4, <4>1
    <3>8. EntryOf(r).seq = SeqOf(r) /\ EntryOf(r).request = r
      BY DEF EntryOf
    <3>9. ASSUME NEW k \in DOMAIN log', ~OnStand(log'[k].request.path),
                 log'[k].answer.status = 200,
                 log'[k].answer.kind = "object", log'[k].answer.fields = 0
          PROVE  \E n \in DOMAIN app'.scorecard :
                    app'.scorecard[n] = [seq |-> log'[k].seq,
                                         fault |-> "byzantine_missing_field"]
      <4>1. CASE k \in DOMAIN log /\ log'[k] = log[k]
        <5>1. PICK n \in DOMAIN card :
                 card[n] = [seq |-> log[k].seq,
                            fault |-> "byzantine_missing_field"]
          BY <1>2, <3>9, <4>1 DEF NoEmptySuccess
        <5> HIDE DEF card
        <5> QED  BY <3>5, <4>1, <5>1
      <4>2. CASE log'[k] = EntryOf(r)
        BY <3>6, <3>7, <3>8, <3>9, <4>2
      <4> QED  BY <3>1, <4>1, <4>2
    <3> QED  BY <3>9 DEF NoEmptySuccess
  <2> QED  BY <1>2, <2>1, <2>2, <2>3, ThreeSteps
<1> QED  BY <1>1, <1>2, WiringInvariant, PTL DEF FSpec

-----------------------------------------------------------------------------
(* What decides about a fault *)

\* No profile, or one of rate nought: only a header makes a fault.
LEMMA QuietGetsNoFault ==
  ASSUME Base, NEW r \in Requests, Serve(r), Quiet(settings),
         r.chaos = NoHeader
  PROVE  FaultOf(r) = NoFault
<1>1. /\ app # NoApp /\ settings = env /\ Len(log) < MaxRequests
      /\ app.profile = ArmedBy(env).profile /\ app.seed \in DOMAIN Stream
      /\ app.next \in 1 .. Len(log) + 1 /\ Len(log) \in Nat
  BY LogGrows DEF Serve, Base, Wired
<1>2. ProfileFor("off") = NoProfile
  BY MenuAssumption DEF ProfileFor
<1>3. CASE env.scenario = Unset
  <2>1. app.profile = NoProfile
    BY <1>1, <1>2, <1>3 DEF Quiet, ArmedBy
  <2> QED  BY <2>1 DEF FaultOf, Passthrough
<1>4. CASE env.scenario # Unset
  <2>1. app.profile = ToProfile(Scenarios[env.scenario])
    BY <1>1, <1>4 DEF ArmedBy
  <2>2. app.profile.probability = 0
    BY <1>1, <1>2, <1>4, <2>1 DEF Quiet, ToProfile
  <2>3. app.next \in 1 .. MaxRequests
    BY <1>1, FrontAssumption
  <2>4. Draw(app.next).coin \in Nat
    BY <1>1, <2>3, StreamAssumption DEF Draw
  <2>5. r.chaos.kind # Unknown
    BY DEF NoHeader, Unknown
  <2>6. Decide(r, app.next) =
            Roll(MenuFor(app.profile, Endpoint(r.path)), Draw(app.next))
    BY <2>5 DEF Decide
  <2>7. Decide(r, app.next) = NoFault
    BY <2>2, <2>4, <2>6 DEF Roll
  <2> QED  BY <2>7 DEF FaultOf, SeqOf
<1> QED  BY <1>3, <1>4

\* QuietServerIsClean, always.
THEOREM QuietStaysClean == FSpec => []QuietServerIsClean
<1>1. FInit => QuietServerIsClean
  BY DEF FInit, QuietServerIsClean
<1>2. ASSUME Base, QuietServerIsClean, [FNext]_fvars
      PROVE  QuietServerIsClean'
  <2>1. CASE /\ UNCHANGED <<app, log, past>>
             /\ app # NoApp => UNCHANGED settings
    BY <1>2, <2>1 DEF QuietServerIsClean, Quiet
  <2>2. CASE log' = <<>>
    BY <2>2 DEF QuietServerIsClean
  <2>3. ASSUME NEW r \in Requests, Serve(r)  PROVE QuietServerIsClean'
    <3>1. \A k \in DOMAIN log' :
             (k \in DOMAIN log /\ log'[k] = log[k]) \/ log'[k] = EntryOf(r)
      BY <1>2, <2>3, LogGrows
    <3>2. app # NoApp /\ UNCHANGED settings
      BY <1>2, <2>3, ServeAdds
    <3>3. EntryOf(r).request = r /\ EntryOf(r).fault = FaultOf(r)
      BY DEF EntryOf
    <3>4. Quiet(settings) /\ r.chaos = NoHeader => FaultOf(r) = NoFault
      BY <1>2, <2>3, QuietGetsNoFault
    <3>5. Quiet(settings)' => Quiet(settings)
      BY <3>2 DEF Quiet
    <3> QED  BY <1>2, <3>1, <3>2, <3>3, <3>4, <3>5 DEF QuietServerIsClean
  <2> QED  BY <1>2, <2>1, <2>2, <2>3, ThreeSteps
<1> QED  BY <1>1, <1>2, WiringInvariant, PTL DEF FSpec

\* The fault a seed and a profile give a request that takes a number.
FaultAt(seed, profile, chaos, endpoint, seq) ==
    IF chaos.kind = Unknown THEN Unknown
    ELSE IF chaos # NoHeader
    THEN IF chaos.endpoint \in {"*", endpoint} THEN chaos.kind ELSE NoFault
    ELSE LET menu == MenuFor(profile, endpoint)
             draw == Stream[seed][seq]
         IN IF draw.coin >= profile.probability \/ menu.kinds = {} THEN NoFault
            ELSE IF menu.wheel = <<>> THEN Crash
            ELSE menu.wheel[1 + (draw.spin % Len(menu.wheel))]

\* Each entry of a log that took a number has the fault of its number.
Replays(entries, seed, profile) ==
    \A k \in DOMAIN entries :
        entries[k].seq # 0 =>
            entries[k].fault =
                FaultAt(seed, profile, entries[k].request.chaos,
                        Endpoint(entries[k].request.path), entries[k].seq)

\* This run and the last one replay, and the last was armed like this one.
Replayed ==
    /\ Replays(log, app.seed, app.profile)
    /\ past # NoRun =>
          Replays(past.log, past.configuration.seed, past.configuration.profile)
    /\ past # NoRun /\ app # NoApp =>
          /\ past.configuration.seed = app.seed
          /\ past.configuration.profile = app.profile

\* The decision reads seed, profile, header, endpoint and number only.
LEMMA NumberDecides ==
  ASSUME NEW r, SeqOf(r) # 0
  PROVE  FaultOf(r) = FaultAt(app.seed, app.profile, r.chaos,
                              Endpoint(r.path), SeqOf(r))
<1>1. FaultOf(r) = Decide(r, SeqOf(r))
  BY DEF SeqOf, FaultOf
<1> QED  BY <1>1 DEF Decide, FaultAt, Roll, Draw

\* A run that ends is replayable as it was.
LEMMA LastRunReplays ==
  ASSUME Replayed, LastRun # NoRun
  PROVE  Replays(LastRun.log, LastRun.configuration.seed,
                 LastRun.configuration.profile)
BY DEF Replayed, LastRun, Configuration

\* A request adds an entry that replays.
LEMMA ServeReplays ==
  ASSUME Base, Replayed, NEW r \in Requests, Serve(r)  PROVE Replayed'
<1>1. \A k \in DOMAIN log' :
         (k \in DOMAIN log /\ log'[k] = log[k]) \/ log'[k] = EntryOf(r)
  BY LogGrows
<1>2. /\ app'.seed = app.seed /\ app'.profile = app.profile
      /\ app # NoApp /\ UNCHANGED past
  BY ServeAdds DEF Wiring
<1>3. /\ EntryOf(r).request = r /\ EntryOf(r).seq = SeqOf(r)
      /\ EntryOf(r).fault = FaultOf(r)
  BY DEF EntryOf
<1>4. SeqOf(r) # 0 =>
        FaultOf(r) = FaultAt(app.seed, app.profile, r.chaos,
                             Endpoint(r.path), SeqOf(r))
  BY NumberDecides
<1>5. Replays(log', app.seed, app.profile)
  BY <1>1, <1>3, <1>4 DEF Replays, Replayed
<1> QED  BY <1>2, <1>5 DEF Replayed

\* Every step keeps both runs replayable.
LEMMA ReplayStep ==
  ASSUME Base, Replayed, [FNext]_fvars  PROVE Replayed'
<1>1. CASE UNCHANGED <<app, log, past>>
  BY <1>1 DEF Replayed
<1>2. ASSUME EndRun  PROVE Replayed'
  BY <1>2, LastRunReplays DEF EndRun, Replayed, Replays
<1>3. ASSUME NEW hash \in Hashes, CreateApp(hash)  PROVE Replayed'
  <2>1. CASE UNCHANGED <<app, rng, log, past>>
    BY <1>1, <2>1
  <2>2. CASE /\ log' = <<>>
             /\ past' # NoRun =>
                   past' = LastRun /\ LastRun.configuration =
                              Configuration(app', settings'.key)
    BY <2>2, LastRunReplays DEF Replayed, Replays, Configuration
  <2> QED  BY <1>3, <2>1, <2>2, CreateAppSteps
<1>4. CASE UNCHANGED fvars
  BY <1>1, <1>4 DEF fvars, front
<1>5. CASE FNext
  BY <1>2, <1>3, <1>5, ServeReplays DEF FNext, Launch, Cli
<1> QED  BY <1>4, <1>5

\* The seed and the number decide the fault: SameFaultAtSeq, always.
THEOREM NumbersReplay == FSpec => []SameFaultAtSeq
<1>1. FInit => Replayed
  BY DEF FInit, Replayed, Replays
<1>2. Base /\ Replayed /\ [FNext]_fvars => Replayed'
  BY ReplayStep
<1>3. ASSUME Replayed, Logged  PROVE SameFaultAtSeq
  <2> DEFINE entries == {log[k] : k \in DOMAIN log} \cup
                        (IF past = NoRun \/ app = NoApp THEN {}
                         ELSE {past.log[k] : k \in DOMAIN past.log})
  <2>1. ASSUME NEW e \in entries, e.seq # 0
        PROVE  e.fault = FaultAt(app.seed, app.profile, e.request.chaos,
                                 Endpoint(e.request.path), e.seq)
    BY <1>3, <2>1 DEF Replayed, Replays
  <2> HIDE DEF entries
  <2>2. ASSUME NEW e \in entries, NEW f \in entries,
               e.seq = f.seq, e.seq # 0,
               e.request.chaos = f.request.chaos,
               Endpoint(e.request.path) = Endpoint(f.request.path)
        PROVE  e.fault = f.fault
    BY <2>1, <2>2
  <2> QED  BY <2>2 DEF SameFaultAtSeq, entries
<1>4. Base => Logged
  BY DEF Base
<1> QED  BY <1>1, <1>2, <1>3, <1>4, WiringInvariant, PTL DEF FSpec

\* A request without a record got the plain answer: UnrecordedIsPlain.
THEOREM RecordIsComplete == FSpec => UnrecordedIsPlain
<1>1. ASSUME Base, [FNext]_fvars, Len(log') = Len(log) + 1,
             log'[Len(log')].fault \notin {Unknown, Crash},
             app'.scorecard = app.scorecard
      PROVE  log'[Len(log')].answer =
                Stamped(log'[Len(log')].request.path,
                        Handled(log'[Len(log')].request).reply)
  <2>1. Len(log) \in Nat
    BY <1>1 DEF Base, Logged
  <2>2. PICK r \in Requests : Serve(r)
    BY <1>1, <2>1, ThreeSteps
  <2>3. log'[Len(log')] = EntryOf(r)
    BY <1>1, <2>2, LogGrows
  <2>4. FaultOf(r) = NoFault
    <3> DEFINE note == [seq |-> SeqOf(r), fault |-> FaultOf(r)]
    <3>1. \E S : app.scorecard \in Seq(S)
      BY <1>1, <2>2, ServeAdds DEF Base, Wired
    <3>2. Append(app.scorecard, note) # app.scorecard
      <4> HIDE DEF note
      <4>1. /\ Len(app.scorecard) \in Nat
            /\ Len(Append(app.scorecard, note)) = Len(app.scorecard) + 1
        BY <3>1, Appended
      <4> QED  BY <4>1
    <3>3. app'.scorecard = Recorded(SeqOf(r), FaultOf(r))
      BY <1>1, <2>2, ServeAdds
    <3>4. EntryOf(r).fault = FaultOf(r)
      BY DEF EntryOf
    <3> QED  BY <1>1, <2>3, <3>2, <3>3, <3>4 DEF Recorded
  <2>5. ReplyOf(r) = Handled(r).reply
    BY <2>4 DEF ReplyOf, Outcome, NoFault, Unknown, Crash, PreResponse, PreStatus
  <2>6. Rewritten(NoFault, ReplyOf(r)) = ReplyOf(r)
    BY DEF Rewritten, NoFault, Byzantine
  <2>7. EntryOf(r).answer = Answered(r.path, FaultOf(r), ReplyOf(r))
        /\ EntryOf(r).request = r
    BY DEF EntryOf, ReplyOf
  <2> QED  BY <2>3, <2>4, <2>5, <2>6, <2>7 DEF Answered
<1>2. Base /\ [FNext]_fvars =>
        [Len(log') = Len(log) + 1 =>
          LET last == log'[Len(log')]
          IN last.fault \notin {Unknown, Crash} /\ app'.scorecard = app.scorecard
             => last.answer = Stamped(last.request.path,
                                      Handled(last.request).reply)]_fvars
  BY <1>1
<1> QED  BY <1>2, WiringInvariant, PTL DEF FSpec, UnrecordedIsPlain
-----------------------------------------------------------------------------
(* What a 404 means *)

\* A forced error of 404 is the one that was asked for by its name.
LEMMA ForcedNotFound ==
  ASSUME NEW r, Forced(r), ForcedStatus[r.force] = 404
  PROVE  r.force = "not_found"
BY DEF Forced, ForcedStatus

\* Off the stand the catch-all alone answers 404 unasked, where it has no
\* entry for the path.
LEMMA NotFoundIsCatchAll ==
  ASSUME NEW r \in Requests, ~OnStand(r.path),
         Handled(r).reply.status = 404, r.force # "not_found"
  PROVE  Entry(r) = {} /\ PostsFields(r) = 0
<1>1. \A status : Refuse(status).reply.status = status
  BY DEF Refuse, Left, ErrorBody, Said, Object
<1>2. \A n : Left(Said(200, n), app, rng).reply.status = 200
  BY DEF Left, Said, Object
<1>3. \A model, reply : Drawing(model, reply).reply = reply
  BY DEF Drawing, Left
<1>4. \A m : Served(m).reply.status # 404
  BY <1>1, <1>3 DEF Served, Build, Object
<1>5. CatchAll(r).reply.status = 404 => Entry(r) = {}
  BY <1>1, <1>4, ForcedNotFound DEF CatchAll
<1>6. PostsFields(r) \in 0 .. 3
  BY DEF PostsFields
<1> QED  BY <1>2, <1>5, <1>6, OffStand DEF Handled

\* No fault answers 404.
LEMMA NoFaultIsNotFound ==
  ASSUME NEW r, EntryOf(r).answer.status = 404
  PROVE  Handled(r).reply.status = 404
<1> DEFINE fault == FaultOf(r)
<1>1. \A reply : Rewritten(fault, reply).status = reply.status
  BY DEF Rewritten
<1>2. \A reply : Stamped(r.path, reply).status = reply.status
  BY DEF Stamped
<1>3. ReplyOf(r).status = 404
  BY <1>1, <1>2 DEF EntryOf, Answered, ReplyOf
<1>4. fault \in PreResponse => ShortAnswer(fault).status # 404
  BY DEF PreResponse, PreStatus, ShortAnswer, Text, Said, Object
<1> QED  BY <1>3, <1>4 DEF ReplyOf, Outcome, Left, Said, Text, Object

\* The urls that the table leaves out are served by forum_posts.py.
LEMMA OwnUrlsAreServed ==
  ASSUME NEW r \in Requests, NEW m \in Catalog, m.url \in OwnUrls,
         Matches(m, r.verb, r.path)
  PROVE  PostsFields(r) # 0
<1>1. /\ r.path \in Seq(STRING) /\ Len(m.url) = Len(r.path)
      /\ DOMAIN r.path = 1 .. Len(r.path)
      /\ \A k \in DOMAIN r.path : m.url[k] \in {Hole, r.path[k]}
      /\ r.verb = m.verb
  BY FrontAssumption DEF Matches
<1>2. CASE m.url = <<"posts">> /\ m.verb \in {"GET", "POST"}
  <2>1. Len(r.path) = 1 /\ r.path[1] = "posts"
    BY <1>1, <1>2, OwnUrlsAssumption
  <2>2. r.path = <<"posts">>
    BY <1>1, <2>1
  <2> QED  BY <1>1, <1>2, <2>2 DEF PostsFields
<1>3. CASE /\ m.url = <<"posts", Hole, "likes">>
           /\ m.verb \in {"GET", "POST", "DELETE"}
  <2>1. Len(r.path) = 3 /\ r.path[1] = "posts" /\ r.path[3] = "likes"
    BY <1>1, <1>3, OwnUrlsAssumption
  <2> QED  BY <1>1, <1>3, <2>1 DEF PostsFields, IsLikes
<1> QED  BY <1>2, <1>3, OwnUrlsAssumption

\* Between the table, which leaves whole urls out, and the module that serves
\* those, no upstream method is lost: NoEndpointVanishes, always.
THEOREM NoEndpointIsLost == FSpec => []NoEndpointVanishes
<1>1. FInit => NoEndpointVanishes
  BY DEF FInit, NoEndpointVanishes
<1>2. ASSUME Base, NoEndpointVanishes, [FNext]_fvars
      PROVE  NoEndpointVanishes'
  <2>1. CASE UNCHANGED <<app, log, past>>
    BY <1>2, <2>1 DEF NoEndpointVanishes
  <2>2. CASE log' = <<>>
    BY <2>2 DEF NoEndpointVanishes
  <2>3. ASSUME NEW r \in Requests, Serve(r)  PROVE NoEndpointVanishes'
    <3>1. \A k \in DOMAIN log' :
             (k \in DOMAIN log /\ log'[k] = log[k]) \/ log'[k] = EntryOf(r)
      BY <1>2, <2>3, LogGrows
    <3>2. EntryOf(r).request = r
      BY DEF EntryOf
    <3>3. ASSUME EntryOf(r).answer.status = 404, ~OnStand(r.path),
                 r.force # "not_found", NEW m \in Catalog, Matches(m, r.verb, r.path)
          PROVE  FALSE
      <4>1. Entry(r) = {} /\ PostsFields(r) = 0
        BY <3>3, NoFaultIsNotFound, NotFoundIsCatchAll
      <4>2. m.url \notin OwnUrls
        BY <3>3, <4>1, OwnUrlsAreServed
      <4>3. app.at = Collected({})
        BY <1>2, <2>3, ServeAdds DEF Base, Wired, Collected
      <4>4. r.path # <<>>
        BY FrontAssumption
      <4> QED  BY <3>3, <4>1, <4>2, <4>3, <4>4, FewestParametersWin DEF Entry
    <3> DEFINE e == EntryOf(r)
    <3>4. /\ e.answer.status = 404 /\ ~OnStand(e.request.path)
          /\ e.request.force # "not_found"
          => \A m \in Catalog : ~Matches(m, e.request.verb, e.request.path)
      BY <3>2, <3>3
    <3> HIDE DEF e
    <3> QED  BY <1>2, <3>1, <3>4 DEF NoEndpointVanishes, e
  <2> QED  BY <1>2, <2>1, <2>2, <2>3, ThreeSteps
<1> QED  BY <1>1, <1>2, WiringInvariant, PTL DEF FSpec
-----------------------------------------------------------------------------
(* Types: what an answer can be, and what is in the generator              *)

\* The values that no handler checks: generator, samples, records, answers.
TypedApp ==
    app # NoApp =>
        /\ app.seed = rng.seed
        /\ \A m \in DOMAIN app.samples : app.samples[m] \in Generator
        /\ \A k \in DOMAIN app.scorecard : app.scorecard[k].fault \in FaultKind

Typed ==
    /\ env \in Environment
    /\ rng \in Generator
    /\ TypedApp
    /\ \A k \in DOMAIN log : log[k].answer \in Answer
    /\ past # NoRun => past.log # <<>>

\* An answer of the type, from a generator of the type and of the same seed.
Sound(out) ==
    /\ out.reply \in Answer
    /\ out.rng \in Generator /\ out.rng.seed = rng.seed
    /\ \A m \in DOMAIN out.app.samples : out.app.samples[m] \in Generator

Sampled ==
    /\ rng \in Generator
    /\ DOMAIN app = AppFields
    /\ \A m \in DOMAIN app.samples : app.samples[m] \in Generator

\* The constructors of an answer.
LEMMA ObjectType ==
  ASSUME NEW status \in 200 .. 504, NEW n \in Nat,
         NEW data \in {<<>>} \cup Generator
  PROVE  Object(status, n, data) \in Answer
BY DEF Object, Answer

LEMMA SaidType ==
  ASSUME NEW status \in 200 .. 504, NEW n \in Nat
  PROVE  Said(status, n) \in Answer /\ Text(status) \in Answer
<1>1. Said(status, n) \in Answer /\ Said(status, 0) \in Answer
  BY ObjectType DEF Said
<1>2. ASSUME NEW a \in Answer  PROVE [a EXCEPT !.kind = "text"] \in Answer
  BY DEF Answer
<1> QED  BY <1>1, <1>2 DEF Text

LEMMA ListingType ==
  ASSUME NEW data \in {<<>>} \cup Generator  PROVE Listing(data) \in Answer
<1>1. Object(200, 0, data) \in Answer
  BY ObjectType
<1>2. ASSUME NEW a \in Answer  PROVE [a EXCEPT !.kind = "list"] \in Answer
  BY DEF Answer
<1> QED  BY <1>1, <1>2 DEF Listing

\* Faults and envelope make an answer of an answer.
LEMMA AnsweredType ==
  ASSUME NEW path, NEW fault, NEW reply \in Answer
  PROVE  Answered(path, fault, reply) \in Answer
<1>1. Rewritten(fault, reply) \in Answer
  <2>1. [reply EXCEPT !.kind = "text"] \in Answer
    BY DEF Answer
  <2>2. ASSUME reply.fields > 0  PROVE [reply EXCEPT !.fields = @ - 1] \in Answer
    <3> DEFINE n == reply.fields - 1
    <3>1. n \in Nat
      BY <2>2 DEF Answer
    <3> HIDE DEF n
    <3>2. [reply EXCEPT !.fields = n] \in Answer
      BY <3>1 DEF Answer
    <3> QED  BY <3>2 DEF n
  <2>3. [reply EXCEPT !.lies = TRUE] \in Answer
    BY DEF Answer
  <2> QED  BY <2>1, <2>2, <2>3 DEF Rewritten
<1>2. ASSUME NEW a \in Answer  PROVE Stamped(path, a) \in Answer
  <2> DEFINE n == a.fields + 1
  <2>1. [a EXCEPT !.envelope = TRUE, !.fields = @ + 1] \in Answer
    <3>1. n \in Nat
      BY DEF Answer
    <3> HIDE DEF n
    <3>2. [a EXCEPT !.envelope = TRUE, !.fields = n] \in Answer
      BY <3>1 DEF Answer
    <3> QED  BY <3>2 DEF n
  <2> QED  BY <2>1 DEF Stamped
<1> QED  BY <1>1, <1>2 DEF Answered

\* What changes no sample and draws nothing.
LEMMA StillIsSound ==
  ASSUME Sampled, NEW reply \in Answer, NEW a, a.samples = app.samples
  PROVE  Sound(Left(reply, a, rng))
BY DEF Sound, Sampled, Left

LEMMA RefuseIsSound ==
  ASSUME Sampled, NEW status \in 200 .. 504  PROVE Sound(Refuse(status))
<1>1. ErrorBody(status) \in Answer
  BY SaidType DEF ErrorBody
<1> QED  BY <1>1, StillIsSound DEF Refuse

\* A draw is of a model of the catalog, or of the market's lots.
LEMMA DrawingIsSound ==
  ASSUME Sampled, NEW model \in Models, NEW reply \in Answer
  PROVE  Sound(Drawing(model, reply))
<1>1. CASE model \in DOMAIN app.samples
  BY <1>1, StillIsSound DEF Drawing
<1>2. CASE model \notin DOMAIN app.samples
  <2> DEFINE s == [m \in DOMAIN app.samples \cup {model} |-> SampleOf(m)]
             a == [app EXCEPT !.samples = s]
             g == [rng EXCEPT !.drawn = Append(@, model)]
  <2>1. g \in Generator /\ g.seed = rng.seed
    BY DEF Sampled, Generator
  <2>2. \A m \in DOMAIN s : s[m] \in Generator
    BY DEF Sampled, SampleOf
  <2>3. a.samples = s
    <3> HIDE DEF s
    <3> QED  BY DEF Sampled, AppFields
  <2>5. Drawing(model, reply) = Left(reply, a, g)
    BY <1>2 DEF Drawing
  <2> HIDE DEF s, a, g
  <2>6. \A m \in DOMAIN a.samples : a.samples[m] \in Generator
    BY <2>2, <2>3
  <2> QED  BY <2>1, <2>5, <2>6 DEF Sound, Left
<1> QED  BY <1>1, <1>2

\* A sample is a generator's state.
LEMMA SampleType ==
  ASSUME Sampled, NEW model  PROVE SampleOf(model) \in Generator
BY DEF Sampled, SampleOf

\* What the routes of the stand say is of the type.
LEMMA SaidIsSound ==
  ASSUME Sampled, NEW n \in Nat, NEW a, a.samples = app.samples
  PROVE  Sound(Left(Said(200, n), a, rng))
<1>1. Said(200, n) \in Answer
  BY SaidType
<1> QED  BY <1>1, StillIsSound

LEMMA ControlledIsSound ==
  ASSUME Sampled, NEW r, NEW name  PROVE Sound(Controlled(r, name))
<1> DEFINE a == [app EXCEPT !.revoked = {}, !.lots = <<>>]
           b == [app EXCEPT !.revoked = @ \cup {r.token}]
<1>1. a.samples = app.samples /\ b.samples = app.samples
  OBVIOUS
<1>2. \/ Controlled(r, name) = Refuse(401)
      \/ Controlled(r, name) = Left(Said(200, 1), a, rng)
      \/ Controlled(r, name) = Left(Said(200, 2), b, rng)
      \/ Controlled(r, name) = Left(Said(200, 2), app, rng)
      \/ Controlled(r, name) = Left(Said(200, 3), app, rng)
  BY DEF Controlled
<1> HIDE DEF a, b
<1> QED  BY <1>1, <1>2, RefuseIsSound, SaidIsSound

LEMMA VisitedIsSound ==
  ASSUME Sampled, NEW name  PROVE Sound(Visited(name))
<1> DEFINE a == [app EXCEPT !.lots = Stocked(WorldPage[app.seed])]
<1>1. a.samples = app.samples
  OBVIOUS
<1>2. \/ Visited(name) = Refuse(409)
      \/ Visited(name) = Left(Said(200, 2), a, rng)
      \/ Visited(name) = Left(Said(200, 1), app, rng)
      \/ Visited(name) = Left(Said(200, 2), app, rng)
  BY DEF Visited
<1> HIDE DEF a
<1> QED  BY <1>1, <1>2, RefuseIsSound, SaidIsSound

LEMMA CreatedIsSound ==
  ASSUME Sampled, NEW r  PROVE Sound(Created(r))
<1> DEFINE drawn == Drawing("Lot", Object(200, 6, SampleOf("Lot")))
           lots  == Stocked([id \in {LotIds[app.lotId]} |-> r.token])
           a     == [drawn.app EXCEPT !.lots = lots, !.lotId = @ + 1]
<1>1. Sound(drawn)
  <2>1. Object(200, 6, SampleOf("Lot")) \in Answer
    <3>1. 200 \in 200 .. 504 /\ 6 \in Nat
      OBVIOUS
    <3> QED  BY <3>1, SampleType, ObjectType
  <2> QED  BY <2>1, DrawingIsSound DEF Models
<1>2. Created(r) = Left(drawn.reply, a, drawn.rng)
  BY DEF Created
<1> HIDE DEF drawn, lots
<1>3. a.samples = drawn.app.samples
  OBVIOUS
<1> HIDE DEF a
<1> QED  BY <1>1, <1>2, <1>3 DEF Sound, Left

\* A forced error has a status of its own.
LEMMA ForcedType ==
  ASSUME NEW r, Forced(r)  PROVE ForcedStatus[r.force] \in 200 .. 504
BY DEF Forced, ForcedStatus

LEMMA TradedIsSound ==
  ASSUME Sampled, NEW r, NEW name  PROVE Sound(Traded(r, name))
<1>1. Sound(Drawing("Lot", Listing(SampleOf("Lot"))))
  BY SampleType, ListingType, DrawingIsSound DEF Models
<1>2. Sound(Left(Listing(<<>>), app, rng))
  BY ListingType, StillIsSound
<1>3. Sound(Listed)
  BY <1>1, <1>2 DEF Listed
<1>4. Sound(Edited(r))
  BY SaidIsSound, RefuseIsSound DEF Edited
<1>5. Sound(Refuse(401)) /\ Sound(Refuse(400))
  BY RefuseIsSound
<1>6. Forced(r) => Sound(Refuse(ForcedStatus[r.force]))
  BY ForcedType, RefuseIsSound
<1> QED  BY <1>2, <1>3, <1>4, <1>5, <1>6, CreatedIsSound DEF Traded

LEMMA CatchAllIsSound ==
  ASSUME Sampled, NEW r  PROVE Sound(CatchAll(r))
<1>1. ASSUME NEW m \in Catalog  PROVE Sound(Served(m))
  <2>1. Object(200, m.fields, SampleOf(m.model)) \in Answer
    <3>1. m.fields \in Nat
      BY FrontAssumption
    <3>2. SampleOf(m.model) \in Generator
      BY SampleType
    <3>3. 200 \in 200 .. 504
      OBVIOUS
    <3> QED  BY <3>1, <3>2, <3>3, ObjectType
  <2>2. m.model \in Models
    BY DEF Models
  <2> QED  BY <2>1, <2>2, DrawingIsSound, RefuseIsSound DEF Served, Build
<1>2. Entry(r) # {} => (CHOOSE m \in Entry(r) : TRUE) \in Catalog
  BY DEF Entry, Match, Entries
<1> QED  BY <1>1, <1>2, ForcedType, RefuseIsSound DEF CatchAll

\* Every handler, and every fault in its place, answers as the type says.
LEMMA OutcomeIsSound ==
  ASSUME Sampled, NEW r, NEW fault  PROVE Sound(Outcome(r, fault))
<1>1. PostsFields(r) \in 0 .. 3
  BY DEF PostsFields
<1>2. Sound(Left(Said(200, PostsFields(r)), app, rng))
  <2>1. Said(200, PostsFields(r)) \in Answer
    BY <1>1, SaidType
  <2> QED  BY <2>1, StillIsSound
<1>3. Sound(Left(Said(200, 1), app, rng)) /\ Sound(Left(Said(400, 2), app, rng))
  <2>1. Said(200, 1) \in Answer /\ Said(400, 2) \in Answer
    BY SaidType
  <2> QED  BY <2>1, StillIsSound
<1>4. Sound(Left(Text(500), app, rng))
  <2>1. Text(500) \in Answer
    <3>1. 500 \in 200 .. 504 /\ 0 \in Nat
      OBVIOUS
    <3> QED  BY <3>1, SaidType
  <2> QED  BY <2>1, StillIsSound
<1>5. Sound(Handled(r))
  <2>1. ASSUME NEW route  PROVE Sound(OnRoute(r, route))
    BY <1>3, ControlledIsSound, TradedIsSound, VisitedIsSound DEF OnRoute
  <2> QED  BY <1>2, <2>1, CatchAllIsSound DEF Handled
<1>6. fault \in PreResponse => Sound(Left(ShortAnswer(fault), app, rng))
  <2>1. fault \in PreResponse => PreStatus[fault] \in 200 .. 504
    BY DEF PreResponse, PreStatus
  <2> QED  BY <2>1, SaidType, StillIsSound DEF ShortAnswer
<1> QED  BY <1>3, <1>4, <1>5, <1>6 DEF Outcome

\* A profile that is armed has menus of known faults.
LEMMA MenuType ==
  ASSUME Base, app # NoApp, app.profile # NoProfile, NEW endpoint
  PROVE  MenuFor(app.profile, endpoint) \in Menu
<1> DEFINE p == app.profile
           Fit(q) == q.base \in Menu /\ \A e \in DOMAIN q.per : q.per[e] \in Menu
<1>1. \A intensity : LET q == ProfileFor(intensity)
                     IN q = NoProfile \/ Fit(q)
  BY MenuAssumption DEF ProfileFor
<1>2. EmptyMenu \in Menu
  BY DEF EmptyMenu, Menu
<1>3. ASSUME NEW name \in DOMAIN Scenarios
      PROVE  Fit(ToProfile(Scenarios[name]))
  BY <1>1, <1>2, <1>3, ScenarioAssumption DEF ToProfile
<1>4. Fit(p)
  <2>1. p = ArmedBy(env).profile /\ Loads(env)
    BY DEF Base, Wired
  <2>2. CASE env.scenario = Unset
    BY <1>1, <2>1, <2>2 DEF ArmedBy
  <2>3. CASE env.scenario # Unset
    BY <1>3, <2>1, <2>3 DEF ArmedBy, Loads
  <2> QED  BY <2>2, <2>3
<1> QED  BY <1>4 DEF MenuFor

\* What is decided is a fault of the enum, or none.
LEMMA FaultType ==
  ASSUME Base, NEW r \in Requests, Serve(r)
  PROVE  FaultOf(r) \in FaultKind \cup {NoFault, Crash, Unknown}
<1> DEFINE menu == MenuFor(app.profile, Endpoint(r.path))
           draw == Draw(app.next)
<1>1. CASE r.chaos # NoHeader
  <2>1. r.chaos.kind \in FaultKind \cup {Unknown}
    BY <1>1, FrontAssumption
  <2>2. FaultOf(r) \in {Unknown, r.chaos.kind, NoFault}
    BY <1>1 DEF FaultOf, Passthrough, Decide
  <2> QED  BY <2>1, <2>2
<1>2. CASE r.chaos = NoHeader /\ app.profile = NoProfile
  BY <1>2 DEF FaultOf, Passthrough
<1>3. CASE r.chaos = NoHeader /\ app.profile # NoProfile
  <2>1. FaultOf(r) = Roll(menu, draw)
    <3>1. r.chaos.kind # Unknown
      BY <1>3 DEF NoHeader, Unknown
    <3> QED  BY <1>3, <3>1 DEF FaultOf, SeqOf, Passthrough, Decide
  <2>2. menu \in Menu
    BY <1>3, MenuType DEF Serve
  <2>3. draw.spin \in Nat
    <3>1. /\ app.next \in 1 .. Len(log) + 1 /\ app.seed \in DOMAIN Stream
          /\ Len(log) < MaxRequests /\ Len(log) \in Nat
      BY LogGrows DEF Serve, Base, Wired
    <3>2. app.next \in 1 .. MaxRequests
      BY <3>1, FrontAssumption
    <3> QED  BY <3>1, <3>2, StreamAssumption DEF Draw
  <2>4. ASSUME menu.wheel # <<>>
        PROVE  menu.wheel[1 + (draw.spin % Len(menu.wheel))] \in FaultKind
    <3> HIDE DEF menu, draw
    <3>1. menu.wheel \in Seq(FaultKind)
      BY <2>2 DEF Menu
    <3>2. Len(menu.wheel) \in Nat \ {0}
      BY <2>4, <3>1
    <3>3. (draw.spin % Len(menu.wheel)) \in 0 .. Len(menu.wheel) - 1
      BY <2>3, <3>2
    <3>4. 1 + (draw.spin % Len(menu.wheel)) \in 1 .. Len(menu.wheel)
      BY <3>2, <3>3
    <3> QED  BY <3>1, <3>4
  <2> HIDE DEF menu, draw
  <2> QED  BY <2>1, <2>4 DEF Roll
<1> QED  BY <1>1, <1>2, <1>3

\* A request keeps the types.
LEMMA ServeKeepsTypes ==
  ASSUME Base, Typed, NEW r \in Requests, Serve(r)  PROVE Typed'
<1> DEFINE o == Outcome(r, FaultOf(r))
<1>1. Sampled
  BY DEF Typed, TypedApp, Sampled, Serve, Base, Wired
<1>2. Sound(o)
  BY <1>1, OutcomeIsSound
<1>3. rng' = o.rng /\ app'.samples = o.app.samples
  <2>1. DOMAIN o.app = AppFields
    BY OutcomeIsGood DEF Good, Keeps, Base, Wired, Serve
  <2> QED  BY <2>1 DEF Serve, RngAfter, AppAfter
<1>4. rng' \in Generator /\ rng'.seed = rng.seed
      /\ \A m \in DOMAIN app'.samples : app'.samples[m] \in Generator
  BY <1>2, <1>3 DEF Sound
<1>5. app'.seed = app.seed
  BY ServeAdds DEF Wiring
<1>6. \A k \in DOMAIN app'.scorecard : app'.scorecard[k].fault \in FaultKind
  <2> DEFINE note == [seq |-> SeqOf(r), fault |-> FaultOf(r)]
             card == app.scorecard
  <2>1. \E S : card \in Seq(S)
    BY ServeAdds DEF Base, Wired
  <2>2. \A k \in DOMAIN Append(card, note) :
           \/ Append(card, note)[k] = note
           \/ k \in DOMAIN card /\ Append(card, note)[k] = card[k]
    <3> HIDE DEF note, card
    <3>1. /\ Len(card) \in Nat /\ DOMAIN card = 1 .. Len(card)
          /\ DOMAIN Append(card, note) = 1 .. Len(card) + 1
          /\ \A k \in 1 .. Len(card) : Append(card, note)[k] = card[k]
          /\ Append(card, note)[Len(card) + 1] = note
      BY <2>1, Appended
    <3> QED  BY <3>1
  <2>3. app'.scorecard = IF FaultOf(r) \in {NoFault, Crash, Unknown}
                         THEN card ELSE Append(card, note)
    BY ServeAdds DEF Recorded
  <2>4. FaultOf(r) \notin {NoFault, Crash, Unknown} => note.fault \in FaultKind
    BY FaultType
  <2>5. \A k \in DOMAIN card : card[k].fault \in FaultKind
    BY DEF Typed, TypedApp, Serve
  <2> HIDE DEF note, card
  <2> QED  BY <2>2, <2>3, <2>4, <2>5
<1>7. \A k \in DOMAIN log' : log'[k].answer \in Answer
  <2>1. EntryOf(r).answer \in Answer
    BY <1>2, AnsweredType DEF EntryOf, Sound
  <2>2. \A k \in DOMAIN log' :
           (k \in DOMAIN log /\ log'[k] = log[k]) \/ log'[k] = EntryOf(r)
    BY LogGrows
  <2> QED  BY <2>1, <2>2 DEF Typed
<1>8. app.seed = rng.seed /\ UNCHANGED <<env, past>>
  BY ServeAdds DEF Typed, TypedApp, Serve
<1> QED  BY <1>4, <1>5, <1>6, <1>7, <1>8 DEF Typed, TypedApp

\* The app of a process is seeded when it is created.
LEMMA CreateAppKeepsTypes ==
  ASSUME Base, Typed, NEW hash \in Hashes, CreateApp(hash)  PROVE Typed'
<1>1. CASE UNCHANGED <<env, app, rng, log, past>>
  BY <1>1 DEF Typed, TypedApp
<1>2. CASE /\ Loads(env) /\ log' = <<>>
           /\ app' = FreshApp(ArmedBy(env), hash)
           /\ rng' = Seeded(ArmedBy(env).seed)
           /\ past' # NoRun => past' = LastRun
           /\ UNCHANGED env
  <2>1. ArmedBy(env).seed \in Int
    BY <1>2, SeedHasStream, StreamAssumption DEF Base
  <2>2. rng' \in Generator /\ rng'.seed = ArmedBy(env).seed
    BY <1>2, <2>1 DEF Seeded, Generator
  <2>3. app'.seed = rng'.seed /\ app'.samples = <<>> /\ app'.scorecard = <<>>
    BY <1>2, <2>2 DEF FreshApp
  <2>4. past' # NoRun => past'.log # <<>>
    BY <1>2 DEF LastRun, Typed
  <2> QED  BY <1>2, <2>2, <2>3, <2>4 DEF Typed, TypedApp
<1> QED  BY <1>1, <1>2, CreateAppSteps

\* A process or a command line that ends a run keeps the types.
LEMMA EndRunKeepsTypes ==
  ASSUME Base, Typed, EndRun, rng' \in Generator, env' \in Environment
  PROVE  Typed'
BY DEF Typed, TypedApp, EndRun, LastRun

\* FTypeOK, always, with the samples and the generator it rests on.
THEOREM FrontTypes == FSpec => []FTypeOK
<1>1. FInit => Typed
  BY ShellAssumption DEF FInit, Typed, TypedApp, Unseeded, Generator
<1>2. ASSUME Base, Typed, [FNext]_fvars  PROVE Typed'
  <2>1. CASE UNCHANGED fvars
    BY <1>2, <2>1 DEF fvars, front, arming, Typed, TypedApp
  <2>2. ASSUME NEW shell \in Shells, Launch(shell)  PROVE Typed'
    <3>1. rng' \in Generator
      BY <2>2 DEF Launch, Unseeded, Generator
    <3>2. env' \in Environment
      BY <2>2, ShellAssumption DEF Launch, NewProcess
    <3> QED  BY <1>2, <2>2, <3>1, <3>2, EndRunKeepsTypes DEF Launch
  <2>3. ASSUME NEW flags \in Flags, Cli(flags)  PROVE Typed'
    <3>1. env' \in Environment
      BY <1>2, <2>3, ShellAssumption
         DEF Cli, CommandLine, Typed, Environment, Given
    <3> QED  BY <1>2, <2>3, <3>1, EndRunKeepsTypes DEF Cli, Typed
  <2> QED  BY <1>2, <2>1, <2>2, <2>3, ServeKeepsTypes, CreateAppKeepsTypes
           DEF FNext
<1>3. Base /\ Typed => FTypeOK
  <2> SUFFICES ASSUME Base, Typed  PROVE FTypeOK
    OBVIOUS
  <2>1. settings \in {NotRead, env} /\ env \in Environment
    BY DEF Base, Armed, Typed
  <2>2. app # NoApp => settings # NotRead /\ app.next \in 1 .. MaxRequests + 1
    <3> SUFFICES ASSUME app # NoApp
                 PROVE  settings # NotRead /\ app.next \in 1 .. MaxRequests + 1
      OBVIOUS
    <3>1. settings = env /\ app.next \in 1 .. Len(log) + 1
          /\ Len(log) <= MaxRequests
      BY DEF Base, Wired, Logged
    <3>2. Len(log) \in Nat
      BY DEF Base, Logged
    <3> QED  BY <2>1, <3>1, <3>2, ShellAssumption, FrontAssumption
  <2> QED  BY <2>1, <2>2 DEF FTypeOK, Typed, TypedApp
<1> QED  BY <1>1, <1>2, <1>3, WiringInvariant, PTL DEF FSpec
-----------------------------------------------------------------------------
(* One seed, one run: the answer to a request, and what it leaves, are a   *)
(* function of the app, of the generator and of the control key.  A run is *)
(* traced by the states that its requests led through, from the one that   *)
(* its configuration started in.                                           *)

\* What Front's operators make of a state s that is not the current one.
At(s) == INSTANCE Front WITH app <- s.app, rng <- s.rng,
                             settings <- [key |-> s.key],
                             env <- <<>>, asked <- <<>>, log <- <<>>,
                             past <- <<>>

State == [app |-> app, rng |-> rng, key |-> settings.key]

\* The state is s as far as a request can tell.
Is(s) == s.app = app /\ s.rng = rng /\ s.key = settings.key

\* The state a request leaves, and the one an app starts in.
After(s, r) == [app |-> At(s)!AppAfter(r), rng |-> At(s)!RngAfter(r),
                key |-> s.key]
Start(c) == [app |-> FreshApp([profile |-> c.profile, seed |-> c.seed,
                               world |-> c.world], {}),
             rng |-> Seeded(c.seed), key |-> c.key]

\* The constructors of an answer read no state at all.
LEMMA AtAnswers ==
  ASSUME NEW s
  PROVE  /\ \A status, n : At(s)!Said(status, n) = Said(status, n)
         /\ \A status, n, d : At(s)!Object(status, n, d) = Object(status, n, d)
         /\ \A d : At(s)!Listing(d) = Listing(d)
         /\ \A status : At(s)!Text(status) = Text(status)
         /\ \A status : At(s)!ErrorBody(status) = ErrorBody(status)
         /\ \A reply, a, g : At(s)!Left(reply, a, g) = Left(reply, a, g)
<1>1. \A status, n, d : At(s)!Object(status, n, d) = Object(status, n, d)
  BY DEF At!Object, Object
<1>2. \A status, n : At(s)!Said(status, n) = Said(status, n)
  BY <1>1 DEF At!Said, Said
<1>3. \A d : At(s)!Listing(d) = Listing(d)
  BY <1>1 DEF At!Listing, Listing
<1>4. \A status : At(s)!Text(status) = Text(status)
  BY <1>2 DEF At!Text, Text
<1>5. \A status : At(s)!ErrorBody(status) = ErrorBody(status)
  BY <1>2 DEF At!ErrorBody, ErrorBody
<1>6. \A reply, a, g : At(s)!Left(reply, a, g) = Left(reply, a, g)
  BY DEF At!Left, Left
<1> QED  BY <1>1, <1>2, <1>3, <1>4, <1>5, <1>6

\* Nor do the faults and the envelope.
LEMMA AtAnswered ==
  ASSUME NEW s
  PROVE  /\ \A fault : At(s)!ShortAnswer(fault) = ShortAnswer(fault)
         /\ \A path, fault, reply :
               At(s)!Answered(path, fault, reply) = Answered(path, fault, reply)
<1>1. At(s)!PreStatus = PreStatus /\ At(s)!Byzantine = Byzantine
  BY DEF At!PreStatus, PreStatus, At!Byzantine, Byzantine
<1>2. \A fault : At(s)!ShortAnswer(fault) = ShortAnswer(fault)
  BY <1>1, AtAnswers DEF At!ShortAnswer, ShortAnswer
<1>3. \A fault, reply : At(s)!Rewritten(fault, reply) = Rewritten(fault, reply)
  BY <1>1 DEF At!Rewritten, Rewritten
<1>4. \A path, reply : At(s)!Stamped(path, reply) = Stamped(path, reply)
  BY DEF At!Stamped, Stamped, At!OnStand, OnStand
<1> QED  BY <1>2, <1>3, <1>4 DEF At!Answered, Answered

\* The table is the one of the app.
LEMMA AtEntry ==
  ASSUME NEW s, Is(s), NEW r  PROVE At(s)!Entry(r) = Entry(r)
<1>1. \A m : At(s)!Holes(m) = Holes(m)
  <2>1. \A set : At(s)!Cardinality(set) = Cardinality(set)
    BY Zenon DEF At!Cardinality, Cardinality
  <2> QED  BY <2>1 DEF At!Holes, Holes
<1>2. \A m, v, p : At(s)!Matches(m, v, p) = Matches(m, v, p)
  BY DEF At!Matches, Matches
<1>3. \A at : At(s)!Entries(at) = Entries(at)
  BY DEF At!Entries, Entries, At!SameRoute, SameRoute
<1>4. \A m, n, at : At(s)!TriedBefore(m, n, at) = TriedBefore(m, n, at)
  BY <1>1 DEF At!TriedBefore, TriedBefore
<1>5. \A at, v, p : At(s)!Match(at, v, p) = Match(at, v, p)
  BY <1>2, <1>3, <1>4 DEF At!Match, Match
<1> QED  BY <1>5 DEF At!Entry, Entry, Is

\* The handlers that draw a sample.
LEMMA AtDrawing ==
  ASSUME NEW s, Is(s)
  PROVE  /\ \A model : At(s)!SampleOf(model) = SampleOf(model)
         /\ \A model, reply : At(s)!Drawing(model, reply) = Drawing(model, reply)
         /\ \A m : At(s)!Served(m) = Served(m)
         /\ \A status : At(s)!Refuse(status) = Refuse(status)
<1>1. \A model : At(s)!SampleOf(model) = SampleOf(model)
  BY DEF At!SampleOf, SampleOf, Is
<1>2. \A status : At(s)!Refuse(status) = Refuse(status)
  BY AtAnswers DEF At!Refuse, Refuse, Is
<1>3. \A model, reply : At(s)!Drawing(model, reply) = Drawing(model, reply)
  BY <1>1, AtAnswers DEF At!Drawing, Drawing, Is
<1>4. \A m : At(s)!Served(m) = Served(m)
  BY <1>1, <1>2, <1>3, AtAnswers
     DEF At!Served, Served, At!Build, Build, At!Untyped, Untyped
<1> QED  BY <1>1, <1>2, <1>3, <1>4

\* Each handler, then whoever answers.
LEMMA AtHandled ==
  ASSUME NEW s, Is(s), NEW r  PROVE At(s)!Handled(r) = Handled(r)
<1>1. At(s)!ForcedStatus = ForcedStatus /\ At(s)!Forced(r) = Forced(r)
  BY DEF At!ForcedStatus, ForcedStatus, At!Forced, Forced
<1>2. \A new : At(s)!Stocked(new) = Stocked(new)
  BY DEF At!Stocked, Stocked, Is
<1>3. \A name : /\ At(s)!Controlled(r, name) = Controlled(r, name)
                /\ At(s)!Visited(name) = Visited(name)
  BY <1>2, AtDrawing, AtAnswers
     DEF At!Controlled, Controlled, At!Visited, Visited, Is
<1>4. ASSUME NEW name  PROVE At(s)!Traded(r, name) = Traded(r, name)
  <2>1. At(s)!Created(r) = Created(r)
    <3> DEFINE drawn == Drawing("Lot", Object(200, 6, SampleOf("Lot")))
               there == At(s)!Drawing("Lot",
                            At(s)!Object(200, 6, At(s)!SampleOf("Lot")))
               lot   == [id \in {LotIds[app.lotId]} |-> r.token]
    <3>1. there = drawn
      BY AtDrawing, AtAnswers
    <3>2. At(s)!Stocked(lot) = Stocked(lot)
      BY <1>2
    <3> DEFINE a == [drawn.app EXCEPT !.lots = Stocked(lot), !.lotId = @ + 1]
               b == [there.app EXCEPT !.lots = At(s)!Stocked(lot),
                                      !.lotId = @ + 1]
    <3>3. Created(r) = Left(drawn.reply, a, drawn.rng)
      BY DEF Created
    <3>4. At(s)!Created(r) = At(s)!Left(there.reply, b, there.rng)
      BY Zenon DEF At!Created, Is
    <3> HIDE DEF drawn, there, lot
    <3>5. a = b
      BY <3>1, <3>2, Zenon
    <3> HIDE DEF a, b
    <3> QED  BY <3>1, <3>3, <3>4, <3>5, AtAnswers
  <2>2. At(s)!Listed = Listed /\ At(s)!Edited(r) = Edited(r)
    BY AtDrawing, AtAnswers DEF At!Listed, Listed, At!Edited, Edited, Is
  <2>3. At(s)!Left(At(s)!Listing(<<>>), s.app, s.rng) =
            Left(Listing(<<>>), app, rng)
    BY AtAnswers DEF Is
  <2>4. \A status : At(s)!Refuse(status) = Refuse(status)
    BY AtDrawing
  <2>5. At(s)!Refuse(At(s)!ForcedStatus[r.force]) = Refuse(ForcedStatus[r.force])
    BY <1>1, <2>4
  <2>6. At(s)!Refuse(401) = Refuse(401) /\ At(s)!Refuse(400) = Refuse(400)
    BY <2>4
  <2> QED  BY <1>1, <2>1, <2>2, <2>3, <2>5, <2>6 DEF At!Traded, Traded
<1>5. At(s)!CatchAll(r) = CatchAll(r)
  <2>1. At(s)!Entry(r) = Entry(r)
    BY AtEntry
  <2>2. (CHOOSE m \in At(s)!Entry(r) : TRUE) = (CHOOSE m \in Entry(r) : TRUE)
    BY <2>1, Zenon
  <2> QED  BY <1>1, <2>1, <2>2, AtDrawing DEF At!CatchAll, CatchAll, Is
<1>6. At(s)!PostsFields(r) = PostsFields(r)
  BY DEF At!PostsFields, PostsFields, At!IsLikes, IsLikes
<1>7. At(s)!Met(r) = Met(r)
  BY DEF At!Met, Met, At!Matches, Matches, At!Stand, Stand, At!Route, Route
<1>8. (CHOOSE route \in At(s)!Met(r) : TRUE) = (CHOOSE route \in Met(r) : TRUE)
  BY <1>7, Zenon
<1>9. \A route : At(s)!OnRoute(r, route) = OnRoute(r, route)
  BY <1>3, <1>4, AtAnswers DEF At!OnRoute, OnRoute, Is
<1> QED  BY <1>5, <1>6, <1>7, <1>8, <1>9, AtAnswers DEF At!Handled, Handled, Is

\* The decision of the middleware.
LEMMA AtFaultOf ==
  ASSUME NEW s, Is(s), NEW r
  PROVE  At(s)!SeqOf(r) = SeqOf(r) /\ At(s)!FaultOf(r) = FaultOf(r)
<1>1. /\ At(s)!NoHeader = NoHeader /\ At(s)!NoFault = NoFault
      /\ At(s)!Crash = Crash /\ At(s)!Unknown = Unknown
  BY DEF At!NoHeader, NoHeader, At!NoFault, NoFault, At!Crash, Crash,
         At!Unknown, Unknown
<1>2. At(s)!Passthrough(r) = Passthrough(r)
  BY <1>1 DEF At!Passthrough, Passthrough, Is
<1>3. At(s)!SeqOf(r) = SeqOf(r)
  BY <1>2 DEF At!SeqOf, SeqOf, Is
<1>4. \A path : At(s)!Endpoint(path) = Endpoint(path)
  BY DEF At!Endpoint, Endpoint
<1>5. \A p, e : At(s)!MenuFor(p, e) = MenuFor(p, e)
  BY DEF At!MenuFor, MenuFor
<1>6. \A menu, draw : At(s)!Roll(menu, draw) = Roll(menu, draw)
  BY <1>1 DEF At!Roll, Roll, Is
<1>7. \A seq : At(s)!Draw(seq) = Draw(seq)
  BY DEF At!Draw, Draw, Is
<1>8. \A seq : At(s)!Decide(r, seq) = Decide(r, seq)
  BY <1>1, <1>4, <1>5, <1>6, <1>7 DEF At!Decide, Decide, Is
<1> QED  BY <1>1, <1>2, <1>3, <1>8 DEF At!FaultOf, FaultOf

\* A request is answered at s as it is now.
LEMMA AtServe ==
  ASSUME NEW s, Is(s), NEW r
  PROVE  /\ At(s)!AppAfter(r) = AppAfter(r)
         /\ At(s)!RngAfter(r) = RngAfter(r)
         /\ At(s)!EntryOf(r) = EntryOf(r)
<1>1. At(s)!PreResponse = PreResponse
  BY DEF At!PreResponse, PreResponse, At!PreStatus, PreStatus
<1>2. \A fault : At(s)!Outcome(r, fault) = Outcome(r, fault)
  BY <1>1, AtAnswers, AtAnswered, AtHandled
     DEF At!Outcome, Outcome, At!Unknown, Unknown, At!Crash, Crash, Is
<1>3. \A seq, fault : At(s)!Recorded(seq, fault) = Recorded(seq, fault)
  BY DEF At!Recorded, Recorded, At!NoFault, NoFault, At!Unknown, Unknown,
         At!Crash, Crash, Is
<1>4. At(s)!AppAfter(r) = AppAfter(r)
  BY <1>2, <1>3, AtFaultOf DEF At!AppAfter, AppAfter
<1>5. At(s)!RngAfter(r) = RngAfter(r)
  BY <1>2, AtFaultOf DEF At!RngAfter, RngAfter
<1>6. At(s)!EntryOf(r) = EntryOf(r)
  BY <1>2, AtFaultOf, AtEntry, AtAnswered DEF At!EntryOf, EntryOf
<1> QED  BY <1>4, <1>5, <1>6
\* A function tells where the requests of entries lead from the start of c.
Leads(tr, entries, c, last) ==
    /\ tr[0] = Start(c)
    /\ tr[Len(entries)] = last
    /\ \A k \in 1 .. Len(entries) :
          /\ tr[k] = After(tr[k - 1], entries[k].request)
          /\ entries[k] = At(tr[k - 1])!EntryOf(entries[k].request)

Traced(entries, c, last) ==
    /\ Len(entries) \in Nat /\ DOMAIN entries = 1 .. Len(entries)
    /\ \E tr : Leads(tr, entries, c, last)

\* This run and the last are traced, from one configuration if both are there.
Told ==
    /\ app # NoApp => Traced(log, Configuration(app, settings.key), State)
    /\ past # NoRun => \E s : Traced(past.log, past.configuration, s)
    /\ past # NoRun /\ app # NoApp =>
          past.configuration = Configuration(app, settings.key)

\* An app that was just armed is where its configuration starts.
LEMMA FreshIsStart ==
  ASSUME NEW armed, NEW hash, NEW key,
         NEW c, c = Configuration(FreshApp(armed, hash), key)
  PROVE  Start(c) = [app |-> FreshApp(armed, hash), rng |-> Seeded(armed.seed),
                     key |-> key]
BY DEF Start, FreshApp, Configuration, Collected

\* An empty log is traced by the start alone.
LEMMA EmptyIsTraced ==
  ASSUME NEW c  PROVE Traced(<<>>, c, Start(c))
<1> DEFINE tr == [k \in {0} |-> Start(c)]
           none == <<>>
<1>1. Len(none) = 0 /\ DOMAIN none = 1 .. 0
  OBVIOUS
<1>2. tr[0] = Start(c)
  OBVIOUS
<1> HIDE DEF tr, none
<1>3. Leads(tr, none, c, Start(c))
  BY <1>1, <1>2 DEF Leads
<1>4. Traced(none, c, Start(c))
  BY <1>1, <1>3 DEF Traced
<1> QED  BY <1>4 DEF none

\* One more request, one more step.
LEMMA TraceGrows ==
  ASSUME NEW entries, NEW c, NEW s, Traced(entries, c, s), NEW r,
         NEW more, DOMAIN more = 1 .. Len(entries) + 1,
         Len(more) = Len(entries) + 1,
         \A k \in 1 .. Len(entries) : more[k] = entries[k],
         more[Len(entries) + 1] = At(s)!EntryOf(r),
         At(s)!EntryOf(r).request = r
  PROVE  Traced(more, c, After(s, r))
<1> DEFINE n == Len(entries)
<1>1. n \in Nat
  BY DEF Traced
<1>2. PICK tr : Leads(tr, entries, c, s)
  BY DEF Traced
<1> DEFINE new == [k \in 0 .. n + 1 |-> IF k = n + 1 THEN After(s, r) ELSE tr[k]]
<1>3. /\ new[n + 1] = After(s, r)
      /\ \A k \in 0 .. n : new[k] = tr[k]
  BY <1>1
<1> DEFINE last == At(s)!EntryOf(r)
           end == After(s, r)
<1>4. tr[n] = s /\ tr[0] = Start(c)
  BY <1>2 DEF Leads
<1>5. ASSUME NEW k \in 1 .. n + 1
      PROVE  /\ new[k] = After(new[k - 1], more[k].request)
             /\ more[k] = At(new[k - 1])!EntryOf(more[k].request)
  <2>1. CASE k = n + 1
    <3>1. new[k - 1] = s /\ new[k] = After(s, r) /\ more[k] = At(s)!EntryOf(r)
      <4> HIDE DEF new, last, end
      <4> QED  BY <1>1, <1>3, <1>4, <2>1
    <3>2. more[k].request = r
      BY <3>1
    <3> QED  BY <3>1, <3>2
  <2>2. CASE k # n + 1
    <3>1. k \in 1 .. n /\ k \in 0 .. n /\ k - 1 \in 0 .. n
      BY <1>1, <1>5, <2>2
    <3>2. new[k] = tr[k] /\ new[k - 1] = tr[k - 1] /\ more[k] = entries[k]
      <4> HIDE DEF new
      <4> QED  BY <1>3, <3>1
    <3>3. /\ tr[k] = After(tr[k - 1], entries[k].request)
          /\ entries[k] = At(tr[k - 1])!EntryOf(entries[k].request)
      BY <1>2, <3>1 DEF Leads
    <3> QED  BY <3>2, <3>3
  <2> QED  BY <2>1, <2>2
<1>6. new[0] = Start(c)
  BY <1>1, <1>3, <1>4
<1> HIDE DEF new
<1>7. Leads(new, more, c, After(s, r))
  BY <1>3, <1>5, <1>6 DEF Leads
<1>8. Len(more) \in Nat /\ DOMAIN more = 1 .. Len(more)
  BY <1>1
<1> QED  BY <1>7, <1>8 DEF Traced

\* A run that ends is told as it was.
LEMMA LastRunIsTold ==
  ASSUME Base, Told, LastRun # NoRun
  PROVE  \E s : Traced(LastRun.log, LastRun.configuration, s)
<1>1. CASE log = <<>>
  BY <1>1 DEF LastRun, Told
<1>2. CASE log # <<>>
  <2>1. app # NoApp
    BY <1>2 DEF Base, Logged
  <2>2. /\ LastRun.log = log
        /\ LastRun.configuration = Configuration(app, settings.key)
    BY <1>2 DEF LastRun
  <2> QED  BY <2>1, <2>2 DEF Told
<1> QED  BY <1>1, <1>2

\* A request is answered at the current state, and leads to the next.
LEMMA ServeIsTold ==
  ASSUME Base, Told, NEW r \in Requests, Serve(r)  PROVE Told'
<1> DEFINE c == Configuration(app, settings.key)
<1>1. Is(State)
  BY DEF Is, State
<1>2. State.key = settings.key /\ UNCHANGED <<settings, past>>
  BY ServeAdds DEF State
<1>3. State' = After(State, r)
  <2>1. app' = AppAfter(r) /\ rng' = RngAfter(r)
    BY DEF Serve
  <2> QED  BY <1>1, <1>2, <2>1, AtServe DEF State, After
<1>4. At(State)!EntryOf(r) = EntryOf(r) /\ EntryOf(r).request = r
  <2>1. EntryOf(r).request = r
    BY DEF EntryOf
  <2> QED  BY <1>1, <2>1, AtServe
<1>5. Traced(log, c, State) /\ app # NoApp /\ app' # NoApp
  BY ServeAdds DEF Told
<1>6. Traced(log', c, After(State, r))
  BY <1>4, <1>5, LogGrows, TraceGrows
<1>7. Configuration(app, settings.key)' = c
  BY <1>2, ServeAdds DEF Configuration, Wiring
<1> QED  BY <1>2, <1>3, <1>5, <1>6, <1>7 DEF Told

\* A new app starts its trace; the last run is kept if it was armed alike.
LEMMA CreateAppIsTold ==
  ASSUME Base, Told, NEW hash \in Hashes, CreateApp(hash)  PROVE Told'
<1>1. CASE /\ UNCHANGED <<app, rng, log, past>>
           /\ settings' = env
  <2>1. app # NoApp => settings = env
    BY DEF Base, Wired
  <2> QED  BY <1>1, <2>1 DEF Told, State, Configuration
<1>2. CASE /\ app' = FreshApp(ArmedBy(env), hash)
           /\ rng' = Seeded(ArmedBy(env).seed)
           /\ log' = <<>>
           /\ past' # NoRun =>
                 past' = LastRun /\ LastRun.configuration =
                            Configuration(app', settings'.key)
  <2> DEFINE c == Configuration(app', settings'.key)
  <2>1. State' = Start(c)
    BY <1>2, FreshIsStart DEF State
  <2>2. Traced(log', c, State')
    BY <1>2, <2>1, EmptyIsTraced
  <2> HIDE DEF c
  <2>3. past' # NoRun => \E s : Traced(past'.log, past'.configuration, s)
    BY <1>2, LastRunIsTold
  <2>4. past' # NoRun => past'.configuration = c
    BY <1>2 DEF c
  <2> QED  BY <2>2, <2>3, <2>4 DEF Told, c
<1> QED  BY <1>1, <1>2, CreateAppSteps

\* Two traces of one configuration agree as long as the requests do.
LEMMA TracesAgree ==
  ASSUME NEW e, NEW f, NEW c, NEW s, NEW t, Traced(e, c, s), Traced(f, c, t),
         NEW n \in DOMAIN e \cap DOMAIN f,
         \A k \in 1 .. n : e[k].request = f[k].request
  PROVE  e[n] = f[n]
<1>1. PICK tr : Leads(tr, e, c, s)
  BY DEF Traced
<1>2. PICK ur : Leads(ur, f, c, t)
  BY DEF Traced
<1>3. n \in 1 .. Len(e) /\ n \in 1 .. Len(f) /\ Len(e) \in Nat /\ Len(f) \in Nat
  BY DEF Traced
<1> DEFINE I == {k \in 0 .. n : tr[k] = ur[k]}
<1>4. 0 \in I
  BY <1>1, <1>2, <1>3 DEF Leads
<1>5. ASSUME NEW k \in 0 .. n - 1, k \in I  PROVE k + 1 \in I
  <2>1. /\ k + 1 \in 1 .. n /\ k + 1 \in 1 .. Len(e) /\ k + 1 \in 1 .. Len(f)
        /\ (k + 1) - 1 = k /\ k + 1 \in 0 .. n
    BY <1>3
  <2>2. tr[k + 1] = After(tr[k], e[k + 1].request)
    BY <1>1, <2>1 DEF Leads
  <2>3. ur[k + 1] = After(ur[k], f[k + 1].request)
    BY <1>2, <2>1 DEF Leads
  <2>4. tr[k] = ur[k] /\ e[k + 1].request = f[k + 1].request
    BY <1>5, <2>1
  <2>5. tr[k + 1] = ur[k + 1]
    BY <2>2, <2>3, <2>4
  <2> QED  BY <2>1, <2>5
<1>6. n \in Nat /\ n - 1 \in 0 .. n
  BY <1>3
<1>7. \A k \in 0 .. n : k \in I
  <2> HIDE DEF I
  <2> QED  BY <1>4, <1>5, <1>6, InductionUpTo
<1>8. tr[n - 1] = ur[n - 1] /\ e[n].request = f[n].request
  BY <1>3, <1>6, <1>7
<1>9. e[n] = At(tr[n - 1])!EntryOf(e[n].request)
  BY <1>1, <1>3 DEF Leads
<1>10. f[n] = At(ur[n - 1])!EntryOf(f[n].request)
  BY <1>2, <1>3 DEF Leads
<1> QED  BY <1>8, <1>9, <1>10

\* One seed, one sequence of answers: SameSeedSameAnswers, always, whatever
\* the process did before and however its classes were hashed.
THEOREM SeedDecidesAnswers == FSpec => []SameSeedSameAnswers
<1>1. FInit => Told
  BY DEF FInit, Told
<1>2. ASSUME Base, Told, [FNext]_fvars  PROVE Told'
  <2>1. CASE UNCHANGED fvars
    BY <1>2, <2>1 DEF fvars, front, arming, Told, State, Configuration
  <2>2. ASSUME EndRun  PROVE Told'
    <3>1. app' = NoApp /\ past' = LastRun
      BY <2>2 DEF EndRun
    <3> QED  BY <1>2, <3>1, LastRunIsTold DEF Told
  <2>3. CASE \E shell \in Shells : Launch(shell)
    BY <2>2, <2>3 DEF Launch
  <2>4. CASE \E flags \in Flags : Cli(flags)
    BY <2>2, <2>4 DEF Cli
  <2> QED  BY <1>2, <2>1, <2>3, <2>4, CreateAppIsTold, ServeIsTold DEF FNext
<1>3. ASSUME Told  PROVE SameSeedSameAnswers
  <2> SUFFICES ASSUME past # NoRun, app # NoApp,
                      NEW n \in DOMAIN log \cap DOMAIN past.log,
                      \A k \in 1 .. n : log[k].request = past.log[k].request
               PROVE  log[n] = past.log[n]
    BY DEF SameSeedSameAnswers
  <2> DEFINE c == Configuration(app, settings.key)
  <2>1. Traced(log, c, State) /\ past.configuration = c
    BY <1>3 DEF Told
  <2>2. PICK t : Traced(past.log, c, t)
    BY <1>3, <2>1 DEF Told
  <2> HIDE DEF c
  <2> QED  BY <2>1, <2>2, TracesAgree
<1> QED  BY <1>1, <1>2, <1>3, WiringInvariant, PTL DEF FSpec
===============================================================================
