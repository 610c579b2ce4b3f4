------------------------------ MODULE RouteTable ------------------------------
(***************************************************************************)
(* The route table of the catch-all (catalog/registry.py and               *)
(* catalog/route_table.py): which method of the upstream catalog answers a *)
(* path.  The catalog is the set of method classes that the walk over the  *)
(* pylzt package finds.  A method's name is the rank of its qualified name *)
(* among them, its url the sequence of its segments, Hole for a {param};   *)
(* an empty url is that of a class that composes another method's request. *)
(* The parameter at is the position of each name in the collected list.     *)
(***************************************************************************)
EXTENDS Naturals, Sequences, FiniteSets

CONSTANTS
    Catalog,         \* the concrete BaseMethod subclasses
    Hole,            \* a placeholder segment
    OwnUrls          \* exclude_paths: urls other routers serve, every verb

ASSUME CatalogAssumption ==
    /\ \A m \in Catalog : m.name \in Nat /\ m.url \in Seq(STRING \cup {Hole})
    /\ \A m, n \in Catalog : m.name = n.name => m = n

Names == {m.name : m \in Catalog}

\* Mutant: the walk's set is not sorted, its order is that of the hashes.
CollectedUnsorted(hash) == [name \in Names |-> hash[name]]

\* collect_base_methods: the position of each class in the list it returns,
\* sorted by qualified name whatever the order hash in which the set comes.
Collected(hash) == [name \in Names |-> name]

SameRoute(m, n) == m.verb = n.verb /\ m.url = n.url

\* The first method of a (verb, url) is in the table, its aliases are not.
Entries(at) ==
    {m \in Catalog :
        /\ m.url # <<>>
        /\ m.url \notin OwnUrls
        /\ \A n \in Catalog :
              SameRoute(m, n) => at[m.name] <= at[n.name]}

Holes(method) == Cardinality({k \in DOMAIN method.url : method.url[k] = Hole})

\* Mutant: the table keeps the catalog's order.
TriedBeforeUnsorted(m, n, at) == at[m.name] < at[n.name]

\* The table is sorted by placeholder count, and the sort is stable.
TriedBefore(m, n, at) ==
    \/ Holes(m) < Holes(n)
    \/ Holes(m) = Holes(n) /\ at[m.name] < at[n.name]

\* path_pattern.fullmatch: a placeholder takes one non-empty segment.
Matches(method, verb, path) ==
    /\ method.verb = verb
    /\ Len(method.url) = Len(path)
    /\ \A k \in DOMAIN path : method.url[k] \in {Hole, path[k]}

\* RouteTable.match: the first entry that matches, if there is one.
Match(at, verb, path) ==
    {m \in Entries(at) :
        /\ Matches(m, verb, path)
        /\ \A n \in Entries(at) :
              Matches(n, verb, path) => n = m \/ TriedBefore(m, n, at)}
===============================================================================
