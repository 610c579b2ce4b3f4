------------------------------ MODULE MCGauntlet ------------------------------
(* Two buyers, one lot, two requests each.                                   *)
EXTENDS Gauntlet

CONSTANTS alice, bob, mallory

MCTokens   == {alice, bob, mallory}
MCClients  == {alice, bob}
MCStableId == [s \in Categories \X Indices |-> 0]
MCWorldLot == [i \in WorldIds |-> [seller |-> mallory, price |-> "p1"]]

\* A request with no header, one aimed at another endpoint, and one that
\* names no fault.
MCProfileHeaders ==
    {NoHeader, [kind |-> "http_500", endpoint |-> "payments"],
     [kind |-> "unknown", endpoint |-> "*"]}

\* No header (and no profile), and a retry storm.
MCStormHeaders == {NoHeader, [kind |-> "retry_storm", endpoint |-> "buy"]}
=============================================================================
