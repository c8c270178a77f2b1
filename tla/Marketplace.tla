---------------------------- MODULE Marketplace ----------------------------
(***************************************************************************)
(* The marketplace of compute listings (backend/marketplace.py): listings, *)
(* orders and ratings in three dictionaries of the process, each handler   *)
(* one step of the event loop.  A request the handlers refuse (400, 404)   *)
(* or fail on (500) leaves the dictionaries as they are and is no action.  *)
(*                                                                         *)
(* An identifier is a hash of the time to the bit and of the millisecond:  *)
(* modelled as the number of identifiers issued before it.                 *)
(***************************************************************************)
EXTENDS Integers, Sequences, FiniteSets, Functions, Dicts

CONSTANTS
    MaxIds,        \* bound: listings, and orders, ever created
    MAX_LISTINGS,  \* MARKETPLACE_MAX_LISTINGS
    Scores         \* whole numbers sent as the score of a rating

ASSUME MarketAssumption ==
    MaxIds \in Nat /\ MAX_LISTINGS \in Nat /\ Scores \subseteq Int

VARIABLES
    listings,        \* LISTINGS
    orders,          \* ORDERS
    ratings,         \* RATINGS: scores, in the order they came
    listingsIssued,  \* identifiers given to listings so far
    ordersIssued     \* identifiers given to orders so far

marketVars == <<listings, orders, ratings, listingsIssued, ordersIssued>>

Id == 1..MaxIds
Price == {"number", "malformed"}

\* The text of the price is only looked at when an order comes, the average is
\* in hundredths.
Listing == [status : {"active", "paused"}, price : Price,
            ratingAvg : 0..500, ratingCount : Nat]
Order == [listing : Id, status : {"pending", "completed", "cancelled"},
          completedAt : BOOLEAN]

MarketTypeOK ==
    /\ IsDict(listings, Id, Listing)
    /\ IsDict(orders, Id, Order)
    /\ IsDict(ratings, Id, Seq(1..5))
    /\ listingsIssued \in 0..MaxIds
    /\ ordersIssued \in 0..MaxIds

MarketInit ==
    /\ listings = EmptyDict
    /\ orders = EmptyDict
    /\ ratings = EmptyDict
    /\ listingsIssued = 0
    /\ ordersIssued = 0

CreateListing(p) ==
    /\ Cardinality(DOMAIN listings) < MAX_LISTINGS
    /\ listingsIssued < MaxIds
    /\ listingsIssued' = listingsIssued + 1
    /\ listings' = Put(listings, listingsIssued', [status |-> "active", price |-> p,
                                                  ratingAvg |-> 0, ratingCount |-> 0])
    /\ UNCHANGED <<orders, ratings, ordersIssued>>

UpdateListingStatus(l, s) ==
    /\ l \in DOMAIN listings
    /\ listings' = [listings EXCEPT ![l].status = s]
    /\ UNCHANGED <<orders, ratings, listingsIssued, ordersIssued>>

\* Orders and ratings of the listing stay.
DeleteListing(l) ==
    /\ l \in DOMAIN listings
    /\ listings' = Drop(listings, l)
    /\ UNCHANGED <<orders, ratings, listingsIssued, ordersIssued>>

\* Whatever the listing's status; float() raises on a malformed price.
CreateOrder(l) ==
    /\ l \in DOMAIN listings
    /\ listings[l].price = "number"
    /\ ordersIssued < MaxIds
    /\ ordersIssued' = ordersIssued + 1
    /\ orders' = Put(orders, ordersIssued',
                     [listing |-> l, status |-> "pending", completedAt |-> FALSE])
    /\ UNCHANGED <<listings, ratings, listingsIssued>>

\* Whatever the order's status.
CompleteOrder(o) ==
    /\ o \in DOMAIN orders
    /\ orders' = [orders EXCEPT ![o] = [listing |-> orders[o].listing,
                                        status |-> "completed", completedAt |-> TRUE]]
    /\ UNCHANGED <<listings, ratings, listingsIssued, ordersIssued>>

CancelOrder(o) ==
    /\ o \in DOMAIN orders
    /\ orders' = [orders EXCEPT ![o].status = "cancelled"]
    /\ UNCHANGED <<listings, ratings, listingsIssued, ordersIssued>>

ClampScore(n) == IF n > 5 THEN 5 ELSE IF n < 1 THEN 1 ELSE n

RatingsOf(l) == IF l \in DOMAIN ratings THEN ratings[l] ELSE <<>>

\* round(sum / len, 2), in hundredths.
Average(s) ==
    LET total == FoldFunction(+, 0, s) IN (200 * total + Len(s)) \div (2 * Len(s))

\* Mutation: the average is taken before the rating is added.
CreateRatingLate(l, n) ==
    /\ ratings' = Put(ratings, l, Append(RatingsOf(l), ClampScore(n)))
    /\ listings' =
         IF l \in DOMAIN listings /\ RatingsOf(l) # <<>>
         THEN [listings EXCEPT ![l].ratingAvg = Average(RatingsOf(l)),
                               ![l].ratingCount = Len(RatingsOf(l))]
         ELSE listings
    /\ UNCHANGED <<orders, listingsIssued, ordersIssued>>

\* The listing may be deleted; that of an identifier never issued is not looked
\* at again.
CreateRating(l, n) ==
    /\ ratings' = Put(ratings, l, Append(RatingsOf(l), ClampScore(n)))
    /\ listings' =
         IF l \in DOMAIN listings
         THEN [listings EXCEPT ![l].ratingAvg = Average(ratings'[l]),
                               ![l].ratingCount = Len(ratings'[l])]
         ELSE listings
    /\ UNCHANGED <<orders, listingsIssued, ordersIssued>>

MarketRequest ==
    \/ \E p \in Price : CreateListing(p)
    \/ \E l \in Id :
         \/ \E s \in {"active", "paused"} : UpdateListingStatus(l, s)
         \/ DeleteListing(l)
         \/ CreateOrder(l)
    \/ \E o \in Id : CompleteOrder(o) \/ CancelOrder(o)
    \/ \E l \in 1..listingsIssued, n \in Scores : CreateRating(l, n)

\* The process ends.
MarketLost ==
    /\ listings' = EmptyDict
    /\ orders' = EmptyDict
    /\ ratings' = EmptyDict
    /\ UNCHANGED <<listingsIssued, ordersIssued>>

(* The average and the number of ratings a listing shows are those of the  *)
(* ratings that are kept for it, whatever is created, deleted and rated in *)
(* between (create_rating and get_ratings in backend/marketplace.py).      *)
RatingsAreShown ==
    \A l \in DOMAIN listings :
        /\ listings[l].ratingCount = Len(RatingsOf(l))
        /\ listings[l].ratingCount > 0 => listings[l].ratingAvg = Average(RatingsOf(l))
=============================================================================
