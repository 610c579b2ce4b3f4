------------------------------ MODULE ForumWalk ------------------------------
(***************************************************************************)
(* A reader that pages through a thread's posts, or through a post's       *)
(* likers, while other people write.  It reads as ThreadStore.page asks it *)
(* to: it fetches page after page until the pages fetched cover the total  *)
(* the last answer named, and collects what it is shown.                   *)
(***************************************************************************)
EXTENDS ForumThreads

CONSTANTS
    WatchedThread,   \* thread whose posts are read
    WatchedPost,     \* post whose likers are read
    Limit,           \* page size
    MaxLeft          \* bound: people who leave while the likers are read

VARIABLE walk

wvars == <<fvars, walk>>

ASSUME WalkAssumption ==
    /\ WatchedThread \in Threads
    /\ WatchedPost \in PostIds
    /\ Limit \in Nat \ {0}

\* A walk: what it reads, the page it fetches next, what it has seen, and two
\* things it cannot know: who has been a liker since it began, and how many
\* likers left.
Idle == [of |-> "nothing", page |-> 1, seen |-> <<>>, stayed |-> {}, left |-> 0]

Reading == walk.of \in {"posts", "likers"}
Watched == IF walk.of = "posts" THEN threads[WatchedThread] ELSE likes[WatchedPost]

Begin(of) ==
    /\ ~Reading
    /\ walk' = [Idle EXCEPT !.of = of,
                            !.stayed = IF of = "likers" THEN Likers(WatchedPost)
                                       ELSE {}]
    /\ UNCHANGED fvars

\* GET /posts and GET /posts/{id}/likes.  The last page ends the walk.
Read ==
    LET got == PageOf(Watched, walk.page, Limit)
    IN /\ Reading
       /\ walk' = [walk EXCEPT !.page = @ + 1,
                               !.seen = @ \o got.items,
                               !.of = IF walk.page * Limit >= got.total
                                      THEN "nothing" ELSE @]
       /\ UNCHANGED fvars

\* A write under the walk.  Nothing is asked of a walk the store was reset
\* under: it is dropped.
Write ==
    LET left == IF walk.of = "likers"
                THEN Likers(WatchedPost) \ Likers(WatchedPost)' ELSE {}
    IN /\ FNext
       /\ walk' = IF Reading /\ nextPost' >= nextPost
                  THEN [walk EXCEPT !.stayed = @ \ left,
                                    !.left = @ + Cardinality(left)]
                  ELSE Idle
       /\ walk'.left <= MaxLeft

WInit == FInit /\ walk = Idle

WNext == Begin("posts") \/ Begin("likers") \/ Read \/ Write

WSpec == WInit /\ [][WNext]_wvars

-----------------------------------------------------------------------------
(* Properties *)

\* The walk through `of' reads its last page in this step.
Ends(of) == walk.of = of /\ walk'.of = "nothing" /\ walk' # Idle

\* A walk through the posts ends having seen each post of the thread exactly
\* once, those written while it was reading included: nobody who took part is
\* dropped, nobody counted twice, unless the store was reset under it.
PostsWalkMissesNobody ==
    [][Ends("posts") => walk'.seen = threads[WatchedThread]]_wvars

\* Offsets move when a liker leaves: a walk through the likers may miss people
\* who were there all the time, at most one for each that left.
LikersWalkMissesOnePerUnlike ==
    [][Ends("likers") =>
          Cardinality(walk'.stayed \ Elements(walk'.seen)) <= walk'.left]_wvars

=============================================================================
