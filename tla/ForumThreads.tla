---------------------------- MODULE ForumThreads ----------------------------
(***************************************************************************)
(* The forum threads of lzt-testnet: ThreadStore, the handlers of          *)
(* api/forum_posts.py that serve it, and the control routes that fill it   *)
(* with other people's posts and likes.  Each handler runs without an      *)
(* await between its first read and its last write: one action each.       *)
(*                                                                         *)
(* A thread exists once it has a post, and keeps its posts in the order    *)
(* they were written; a post keeps its likers in the order they arrived.   *)
(* A post is its id: its author, text and date are carried and never read. *)
(***************************************************************************)
EXTENDS Naturals, Sequences, FiniteSets, SequencesExt

CONSTANTS
    Threads,     \* thread ids
    Scratch,     \* the thread of a post that names none
    Users,       \* user ids
    Self,        \* the one user the token speaks for
    MaxPosts     \* bound: posts written between two resets

ASSUME ForumAssumption ==
    /\ Scratch \in Threads
    /\ Self \in Users
    /\ MaxPosts \in Nat

VARIABLES
    threads,    \* ThreadStore._threads: the posts of each thread
    likes,      \* ThreadRecord.likes: the likers of each post
    nextPost    \* ThreadStore._next_post_id

fvars == <<threads, likes, nextPost>>

PostIds == 1 .. MaxPosts

Elements(s) == {s[k] : k \in DOMAIN s}
Exists(p)   == \E t \in Threads : p \in Elements(threads[t])
Likers(p)   == Elements(likes[p])

-----------------------------------------------------------------------------
\* Mutant: a new thread numbers its posts from one.
AddPostPerThread(t) ==
    /\ nextPost \in PostIds
    /\ nextPost' = nextPost + 1
    /\ threads' = [threads EXCEPT ![t] = Append(@, Len(@) + 1)]
    /\ UNCHANGED likes

AddPost(t) ==
    /\ nextPost \in PostIds
    /\ nextPost' = nextPost + 1
    /\ threads' = [threads EXCEPT ![t] = Append(@, nextPost)]
    /\ UNCHANGED likes

\* POST /posts, in the token's name; a post that names no thread lands in
\* the scratch one.
PostsCreate == AddPost(Scratch) \/ \E t \in Threads : AddPost(t)

\* POST /testnet/forum/seed-post: in anybody's name, into a named thread.
SeedPost == \E t \in Threads : AddPost(t)

\* ThreadStore.like returns False both for a second like and for no post.
\* Mutant: nobody asks whether this person has liked the post already.
AddsTwice(p, u) == Exists(p)

Adds(p, u) == Exists(p) /\ u \notin Likers(p)

Like(p, u) ==
    /\ likes' = IF Adds(p, u) THEN [likes EXCEPT ![p] = Append(@, u)] ELSE likes
    /\ UNCHANGED <<threads, nextPost>>

\* POST /posts/{id}/likes: answered alike whatever happened.
PostsLike(p) == Like(p, Self)

\* POST /testnet/forum/seed-like, and its answer.
SeedLike(p, u) == Like(p, u)
SeedLikeStatus(p, u) == IF Adds(p, u) THEN "seeded" ELSE "already-liked"

\* ThreadStore.unlike: the likers but this one, in the order they were.
Without(likers, u) ==
    FoldLeft(LAMBDA rest, v : IF v = u THEN rest ELSE Append(rest, v), <<>>, likers)

\* DELETE /posts/{id}/likes: the token's own like, if it is there.
PostsUnlike(p) ==
    /\ likes' = [likes EXCEPT ![p] = Without(@, Self)]
    /\ UNCHANGED <<threads, nextPost>>

\* ThreadStore.reset: post ids start again at one.
ResetThreads ==
    /\ threads' = [t \in Threads |-> <<>>]
    /\ likes' = [p \in PostIds |-> <<>>]
    /\ nextPost' = 1

\* Mutant: the total is that of the page, not of all pages.
PageOwnTotal(all, page, limit) ==
    LET start == (page - 1) * limit
        end   == IF start + limit < Len(all) THEN start + limit ELSE Len(all)
        items == SubSeq(all, start + 1, end)
    IN [items |-> items, total |-> Len(items)]

\* Mutant: the first page is taken for number nought.
PageFromNought(all, page, limit) ==
    LET start == page * limit
        end   == IF start + limit < Len(all) THEN start + limit ELSE Len(all)
    IN [items |-> SubSeq(all, start + 1, end), total |-> Len(all)]

\* One page of posts or of likers, and the total across all pages.
PageOf(all, page, limit) ==
    LET start == (page - 1) * limit
        end   == IF start + limit < Len(all) THEN start + limit ELSE Len(all)
    IN [items |-> SubSeq(all, start + 1, end), total |-> Len(all)]

-----------------------------------------------------------------------------
FInit ==
    /\ threads = [t \in Threads |-> <<>>]
    /\ likes = [p \in PostIds |-> <<>>]
    /\ nextPost = 1

FNext ==
    \/ PostsCreate
    \/ SeedPost
    \/ \E p \in PostIds : PostsLike(p) \/ PostsUnlike(p)
    \/ \E p \in PostIds, u \in Users : SeedLike(p, u)
    \/ ResetThreads

FSpec == FInit /\ [][FNext]_fvars

-----------------------------------------------------------------------------
(* Properties *)

ForumTypeOK ==
    /\ threads \in [Threads -> Seq(PostIds)]
    /\ likes \in [PostIds -> Seq(Users)]
    /\ nextPost \in 1 .. MaxPosts + 1

\* The forum counts a person once: however likes, repeated likes and unlikes
\* follow each other, nobody is twice among the likers of a post, and only a
\* post that exists has likers.
OneLikePerPerson ==
    \A p \in PostIds :
        /\ \A k, l \in DOMAIN likes[p] : likes[p][k] = likes[p][l] => k = l
        /\ likes[p] # <<>> => Exists(p)

\* An id names one post of one thread, and later posts have larger ids.
PostIdsTellOrder ==
    /\ \A t \in Threads : \A k, l \in DOMAIN threads[t] :
          k < l => threads[t][k] < threads[t][l]
    /\ \A s, t \in Threads :
          s # t => Elements(threads[s]) \cap Elements(threads[t]) = {}

-----------------------------------------------------------------------------
(* What a docstring of the repository says, and the code does not *)

\* api/control.py: "already-liked" says that this person has liked the post.
\* Stated of a store somebody has written to.
AlreadyLikedMeansLiked ==
    \A p \in PostIds, u \in Users :
        nextPost > 1 /\ SeedLikeStatus(p, u) = "already-liked" => u \in Likers(p)

=============================================================================
