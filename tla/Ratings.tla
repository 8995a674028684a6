-------------------------------- MODULE Ratings --------------------------------
(***************************************************************************)
(* Reviews (backend/src/reviews/reviews.service.ts).  A customer rates     *)
(* whom he ordered from once an order is delivered; the target's average   *)
(* and count are then computed from all its reviews and copied onto its    *)
(* own document.  A post is a request that stores a review: it looks for   *)
(* an earlier one, inserts, aggregates and writes, in four queries.  An    *)
(* order's target is taken from the order, so it is a constant here.       *)
(***************************************************************************)
EXTENDS Integers, FiniteSets

CONSTANTS
  Reviewables,             \* delivered orders
  Targets, TargetOf,       \* the vendors or riders they were ordered from
  Stars,                   \* the ratings customers give
  Posts,                   \* bound: requests being answered at a time
  NoReviewable

ASSUME RatingsAssumption ==
  /\ IsFiniteSet(Reviewables)
  /\ TargetOf \in [Reviewables -> Targets]
  /\ Stars \subseteq 1..5
  /\ NoReviewable \notin Reviewables

VARIABLES
  review,       \* the rating stored for each order; 0 if there is none
  avgRating,    \* in tenths, as round1 leaves it
  reviewCount,
  post,
  drifted       \* history: targets whose last writes overlapped or were lost

ratingVars == <<review, avgRating, reviewCount, post, drifted>>

NoPost == [at |-> "idle", order |-> NoReviewable, stars |-> 0,
           avg |-> 0, count |-> 0, overtaken |-> FALSE]

PostType ==
  [at : {"idle", "insert", "aggregate", "write"},
   order : Reviewables \cup {NoReviewable},
   stars : Stars \cup {0},
   avg : Nat, count : Nat,     \* what it aggregated
   overtaken : BOOLEAN]        \* the target was written since

RatingsTypeOK ==
  /\ review \in [Reviewables -> Stars \cup {0}]
  /\ avgRating \in [Targets -> Nat] /\ reviewCount \in [Targets -> Nat]
  /\ post \in [Posts -> PostType]
  /\ drifted \in SUBSET Targets

RatingsInit ==
  /\ review = [o \in Reviewables |-> 0]
  /\ avgRating = [v \in Targets |-> 0] /\ reviewCount = [v \in Targets |-> 0]
  /\ post = [p \in Posts |-> NoPost]
  /\ drifted = {}

-----------------------------------------------------------------------------
ReviewsOf(v) == {o \in Reviewables : TargetOf[o] = v /\ review[o] # 0}

(* The sum of the ratings: every star counts.                               *)
Total(v) == Cardinality({s \in ReviewsOf(v) \X (1..5) : s[2] <= review[s[1]]})

(* Mutant: the tenths are cut off. *)
Truncated(sum, n) == (10 * sum) \div n

(* Math.round rounds halves up; the reviews few enough for the quotient of  *)
(* two doubles to be on the right side.                                     *)
round1(sum, n) == (20 * sum + n) \div (2 * n)

Average(v) == IF ReviewsOf(v) = {} THEN 0 ELSE round1(Total(v), Cardinality(ReviewsOf(v)))

PostsOn(v, ats) == {p \in Posts : post[p].at \in ats /\ TargetOf[post[p].order] = v}

createReview(p, o, s) ==
  /\ review[o] = 0
  /\ post[p].at = "idle"
  /\ post' = [post EXCEPT ![p] = [NoPost EXCEPT !.at = "insert", !.order = o, !.stars = s]]
  /\ UNCHANGED <<review, avgRating, reviewCount, drifted>>

(* One review per order and kind of target is a unique index: the second of *)
(* two that found none fails here.                                          *)
InsertReview(p) ==
  LET o == post[p].order IN
  /\ post[p].at = "insert"
  /\ IF review[o] = 0
       THEN /\ review' = [review EXCEPT ![o] = post[p].stars]
            /\ post' = [post EXCEPT ![p].at = "aggregate"]
       ELSE /\ post' = [post EXCEPT ![p] = NoPost]
            /\ UNCHANGED review
  /\ UNCHANGED <<avgRating, reviewCount, drifted>>

recomputeTargetRating(p) ==
  LET v == TargetOf[post[p].order] IN
  /\ post[p].at = "aggregate"
  /\ post' = [post EXCEPT ![p].at = "write", ![p].avg = Average(v),
                          ![p].count = Cardinality(ReviewsOf(v))]
  /\ UNCHANGED <<review, avgRating, reviewCount, drifted>>

PassOver(v, posts) ==
  [q \in Posts |-> IF q \in PostsOn(v, {"write"}) /\ posts[q].at = "write"
                     THEN [posts[q] EXCEPT !.overtaken = TRUE] ELSE posts[q]]

(* A write nobody overtook puts right what an accident left behind.         *)
updateRatingStats(p) ==
  LET v == TargetOf[post[p].order] IN
  /\ post[p].at = "write"
  /\ avgRating' = [avgRating EXCEPT ![v] = post[p].avg]
  /\ reviewCount' = [reviewCount EXCEPT ![v] = post[p].count]
  /\ drifted' = IF post[p].overtaken THEN drifted \cup {v} ELSE drifted \ {v}
  /\ post' = PassOver(v, [post EXCEPT ![p] = NoPost])
  /\ UNCHANGED review

(* A restart of the server, or a write that fails (external): the review is *)
(* stored, and the numbers are not.                                         *)
LosePost(p) ==
  LET v == TargetOf[post[p].order] IN
  /\ post[p].at # "idle"
  /\ IF post[p].at = "insert"
       THEN post' = [post EXCEPT ![p] = NoPost] /\ UNCHANGED drifted
       ELSE /\ post' = PassOver(v, [post EXCEPT ![p] = NoPost])
            /\ drifted' = drifted \cup {v}
  /\ UNCHANGED <<review, avgRating, reviewCount>>

RatingsNext ==
  \E p \in Posts :
    \/ \E o \in Reviewables, s \in Stars : createReview(p, o, s)
    \/ InsertReview(p) \/ recomputeTargetRating(p) \/ updateRatingStats(p) \/ LosePost(p)

RatingsSpec == RatingsInit /\ [][RatingsNext]_ratingVars

-----------------------------------------------------------------------------
(* Properties *)

(* Computed from scratch, the numbers cannot drift (restaurants.service.ts: *)
(* 617-619): when nobody is posting about a target, its count is that of    *)
(* its reviews and its average theirs to the nearest tenth, unless the last *)
(* writes overlapped or one was lost; and then the next review mends it.    *)
RatingIsRight ==
  \A v \in Targets :
    PostsOn(v, {"aggregate", "write"}) = {} /\ v \notin drifted =>
      LET n == Cardinality(ReviewsOf(v)) off == 10 * Total(v) - n * avgRating[v] IN
        /\ reviewCount[v] = n
        /\ -n <= 2 * off /\ 2 * off <= n
        /\ n = 0 => avgRating[v] = 0
=============================================================================
