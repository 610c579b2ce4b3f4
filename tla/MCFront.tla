------------------------------- MODULE MCFront -------------------------------
(* A small instance of Front for TLC: a catalog with an alias, a literal and *)
(* a placeholder of one length, two patterns that tie, an untyped method, a  *)
(* method of a url other modules own and a class without a url; one built-in *)
(* intensity, three scenarios, two environments, four command lines.         *)
EXTENDS Front, TLC

Method(name, verb, url, model, fields) ==
    [name |-> name, verb |-> verb, url |-> url, model |-> model,
     fields |-> fields]

MCCatalog ==
    {Method(1, "GET",    <<Hole>>, "Item", 6),
     Method(2, "GET",    <<"steam">>, "Page", 3),
     Method(3, "GET",    <<"steam">>, "Alias", 2),
     Method(4, "POST",   <<Hole, "check">>, "Check", 1),
     Method(5, "POST",   <<"check", Hole>>, "Other", 2),
     Method(6, "GET",    <<"batch", "log">>, Untyped, 1),
     Method(7, "DELETE", <<"posts", Hole, "likes">>, Untyped, 1),
     Method(8, "GET",    <<>>, "Page", 3)}

MCOwnUrls == {<<"posts">>, <<"posts", Hole, "likes">>}

\* The order of the names, and its reverse.
MCHashes == {[n \in 1 .. 8 |-> n], [n \in 1 .. 8 |-> 9 - n]}

Of(wheel) == [kinds |-> {wheel[k] : k \in DOMAIN wheel}, wheel |-> wheel]

MCBuiltin ==
    [flaky |-> [probability |-> 2, per |-> <<>>,
                base |-> Of(<<"http_500", "byzantine_missing_field", "slow">>)]]

MCScenarios ==
    [meltdown |-> [intensity |-> "flaky", probability |-> Unset,
                   weights |-> Unset, seed |-> 3, world |-> TRUE,
                   per |-> [list_lots |-> Of(<<"truncated_body">>)]],
     quiet    |-> [intensity |-> "off", probability |-> Unset, seed |-> 0,
                   weights |-> Of(<<"slow">>), per |-> <<>>, world |-> FALSE],
     zero     |-> [intensity |-> "flaky", probability |-> 3, seed |-> 0,
                   weights |-> [kinds |-> {"slow"}, wheel |-> <<>>],
                   per |-> <<>>, world |-> FALSE]]

\* Two numbers of three seeds: the built-in rate spares one of them.
Toss(coin, spin) == [coin |-> coin, spin |-> spin]
MCStream == (0 :> <<Toss(0, 0), Toss(1, 2)>>) @@
            (3 :> <<Toss(1, 1), Toss(0, 0)>>) @@
            (7 :> <<Toss(2, 0), Toss(0, 4)>>)

Shell(mode, scenario, world, key) ==
    [mode |-> mode, seed |-> 0, scenario |-> scenario, world |-> world,
     key |-> key]

MCShells == {Shell("off", Unset, FALSE, "secret"),
             Shell("off", "meltdown", FALSE, Unset)}

MCFlags == {[mode |-> "flaky", seed |-> 7,     scenario |-> Unset],
            [mode |-> Unset,   seed |-> 7,     scenario |-> "zero"],
            [mode |-> "off",   seed |-> 0,     scenario |-> "quiet"],
            [mode |-> Unset,   seed |-> Unset, scenario |-> "missing"]}

Ask(verb, path) ==
    [verb |-> verb, path |-> path, token |-> "token", force |-> "absent",
     key |-> "absent", price |-> "", chaos |-> NoHeader]
Chaos(kind, endpoint) == [kind |-> kind, endpoint |-> endpoint]

\* Ids of the two bands a lot's id can be in.
MCLotIds == [n \in 1 .. 2 * MaxRequests |-> ToString(n)]
MCWorldPage == [seed \in DOMAIN Stream |-> "900" :> "seller"]

MCRequests ==
    {Ask("GET", <<"steam">>),
     Ask("GET", <<"batch", "log">>),
     [Ask("POST", <<"check", "check">>) EXCEPT !.token = NoToken],
     Ask("DELETE", <<"posts", "5", "likes">>),
     Ask("GET", <<"testnet", "world", "lots">>),
     Ask("GET", <<"testnet", "stateful", "lots">>),
     Ask("POST", <<"testnet", "stateful", "lots">>),
     Ask("POST", <<"testnet", "stateful", "lots", "1", "bump">>),
     [Ask("POST", <<"testnet", "revoke-token">>) EXCEPT !.key = "secret"],
     [Ask("GET", <<"5">>) EXCEPT !.chaos = Chaos("slow", "buy"),
                                 !.force = "rate_limited"],
     [Ask("POST", <<"check", "check">>) EXCEPT
         !.chaos = Chaos("byzantine_missing_field", "*")],
     [Ask("GET", <<"steam">>) EXCEPT !.chaos = Chaos(Unknown, "*")]}
=============================================================================
