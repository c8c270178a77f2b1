----------------------------- MODULE HttpFront ------------------------------
(***************************************************************************)
(* What a request passes on its way to a handler (backend/main.py): the    *)
(* CPIP middleware, with the list of addresses it turns away and its rate  *)
(* limit (backend/cpip_provider.py), and the limiter of the route          *)
(* (backend/rate_limiter.py).  Each of the two checks is one step of the   *)
(* event loop; other requests may come between them.                       *)
(*                                                                         *)
(* Time is a clock that ticks: a time in the past is kept as an age, up to *)
(* the window, beyond which it counts for nothing, and a time at which a   *)
(* ban ends as what remains of it, -1 when it is over.                     *)
(***************************************************************************)
EXTENDS FiniteSets, Ages, Dicts

CONSTANTS
    Address,
    Local,                    \* 127.0.0.1, ::1 and localhost
    RATE_LIMIT, RATE_WINDOW,  \* of the middleware
    DEFENSE_RATE_LIMIT,       \* CPIP_DEFENSE_RATE_LIMIT
    DEFENSE_RATE_WINDOW,      \* CPIP_DEFENSE_RATE_WINDOW
    BLACKLIST_TTL,            \* CPIP_DEFENSE_BLACKLIST_TTL
    MAX_TTL,                  \* 86400
    MAX_BLACKLIST,            \* CPIP_DEFENSE_MAX_BLACKLIST
    MaxRequests, WindowSeconds,  \* of the limiter of a route
    MaxKeys                   \* 10000

ASSUME FrontAssumption ==
    /\ Local \subseteq Address
    /\ {RATE_LIMIT, RATE_WINDOW, DEFENSE_RATE_LIMIT, DEFENSE_RATE_WINDOW, BLACKLIST_TTL,
        MAX_TTL, MAX_BLACKLIST, MaxRequests, WindowSeconds, MaxKeys} \subseteq Nat

VARIABLES
    defended,     \* CPIP_ENABLED and CPIP_DEFENSE_ENABLED: the middleware is there
    blacklist,    \* _blacklist
    probeCounts,  \* _probe_counts: the latest, as only their number over the limit tells
    rateCounts,   \* _rate_counts
    requests,     \* _requests of the limiter of a route
    pending,      \* addresses of requests between the middleware and the limiter
    refused       \* the last step was a 429: by which limiter, and to whom

frontVars == <<defended, blacklist, probeCounts, rateCounts, requests, pending, refused>>

Smaller(a, b) == IF a < b THEN a ELSE b

AgesOf(d, a) == IF a \in DOMAIN d THEN d[a] ELSE <<>>
Latest(s, n) == IF Len(s) > n THEN SubSeq(s, Len(s) - n + 1, Len(s)) ELSE s

Nobody == [by |-> "none", to |-> {}]
Refusal(limiter, a) == [by |-> limiter, to |-> {a}]

FrontInit ==
    /\ defended \in BOOLEAN
    /\ blacklist = EmptyDict /\ probeCounts = EmptyDict
    /\ rateCounts = EmptyDict /\ requests = EmptyDict
    /\ pending = {}
    /\ refused = Nobody

-----------------------------------------------------------------------------
(* ITFDefense. *)

Score(r) == (IF r.scannerPath THEN 3 ELSE 0)
            + (IF r.brew /\ ~r.additions THEN 1 ELSE 0)
            + (IF r.tool THEN 2 ELSE 0)

ProbeCheck(r) == Score(r) >= 2

IsBlacklisted(a) == a \notin Local /\ a \in DOMAIN blacklist /\ blacklist[a] >= 0

\* is_blacklisted removes an entry that has expired.
Purged(a) == IF a \in DOMAIN blacklist /\ blacklist[a] < 0
             THEN Drop(blacklist, a) ELSE blacklist

\* When there are too many, the half that expires first; ties go either way.
Trimmed(d) ==
    IF Cardinality(DOMAIN d) <= MAX_BLACKLIST THEN {d}
    ELSE {[a \in kept |-> d[a]] :
            kept \in {k \in SUBSET DOMAIN d :
                        /\ Cardinality(DOMAIN d \ k) = Cardinality(DOMAIN d) \div 2
                        /\ \A a \in k, b \in DOMAIN d \ k : d[b] <= d[a]}}

BlacklistAddr(a) ==
    IF a \in Local THEN UNCHANGED <<blacklist, probeCounts>>
    ELSE LET counts == Append(Fresh(AgesOf(probeCounts, a), DEFENSE_RATE_WINDOW), 0)
             ttl == IF Len(counts) > DEFENSE_RATE_LIMIT THEN 2 * BLACKLIST_TTL
                    ELSE BLACKLIST_TTL
         IN  /\ probeCounts' = Put(probeCounts, a, Latest(counts, DEFENSE_RATE_LIMIT + 1))
             /\ blacklist' \in Trimmed(Put(Purged(a), a, Smaller(ttl, MAX_TTL)))

\* Mutation: a probe is looked for before the list, and each prolongs the ban.
CheckRequestProlongs(a, r) ==
    \/ ProbeCheck(r) /\ BlacklistAddr(a)
    \/ ~ProbeCheck(r) /\ IsBlacklisted(a) /\ UNCHANGED <<blacklist, probeCounts>>

\* check_request returns True, and the answer is 418.
CheckRequest(a, r) ==
    \/ IsBlacklisted(a) /\ UNCHANGED <<blacklist, probeCounts>>
    \/ ~IsBlacklisted(a) /\ ProbeCheck(r) /\ BlacklistAddr(a)

-----------------------------------------------------------------------------
(* Requests.  scannerPath, brew, additions and tool are what probe_check   *)
(* looks at; limited, that the route has a limiter.                        *)

Request == [scannerPath : BOOLEAN, brew : BOOLEAN, additions : BOOLEAN, tool : BOOLEAN,
            limited : BOOLEAN]

ToRoute(a, r) == pending' = IF r.limited THEN pending \cup {a} ELSE pending

Block(a, r) ==
    /\ defended
    /\ CheckRequest(a, r)
    /\ refused' = Nobody
    /\ UNCHANGED <<defended, rateCounts, requests, pending>>

\* _check_rate_limit
Recent(a) == Fresh(AgesOf(rateCounts, a), RATE_WINDOW)

RefuseInFront(a, r) ==
    /\ defended /\ ~IsBlacklisted(a) /\ ~ProbeCheck(r)
    /\ Len(Recent(a)) >= RATE_LIMIT
    /\ rateCounts' = Put(rateCounts, a, Recent(a))
    /\ blacklist' = Purged(a)
    /\ refused' = Refusal("front", a)
    /\ UNCHANGED <<defended, probeCounts, requests, pending>>

Pass(a, r) ==
    /\ defended /\ ~IsBlacklisted(a) /\ ~ProbeCheck(r)
    /\ a \notin pending
    /\ Len(Recent(a)) < RATE_LIMIT
    /\ rateCounts' = Put(rateCounts, a, Append(Recent(a), 0))
    /\ blacklist' = Purged(a)
    /\ ToRoute(a, r)
    /\ refused' = Nobody
    /\ UNCHANGED <<defended, probeCounts, requests>>

PassUndefended(a, r) ==
    /\ ~defended
    /\ a \notin pending
    /\ ToRoute(a, r)
    /\ refused' = Nobody
    /\ UNCHANGED <<defended, blacklist, probeCounts, rateCounts, requests>>

-----------------------------------------------------------------------------
(* RateLimiter.check *)

RecentOnRoute(a) == Fresh(AgesOf(requests, a), WindowSeconds)

RefuseOnRoute(a) ==
    /\ a \in pending
    /\ Len(RecentOnRoute(a)) >= MaxRequests
    /\ requests' = Put(requests, a, RecentOnRoute(a))
    /\ pending' = pending \ {a}
    /\ refused' = Refusal("route", a)
    /\ UNCHANGED <<defended, blacklist, probeCounts, rateCounts>>

\* Mutation: one old request makes a key stale.
StaleBySome(ages) == \E i \in DOMAIN ages : ages[i] >= WindowSeconds

Stale(ages) == \A i \in DOMAIN ages : ages[i] >= WindowSeconds

\* Stale keys are removed when there are too many, by a request that is served.
Pruned(d) ==
    IF Cardinality(DOMAIN d) <= MaxKeys THEN d
    ELSE [a \in {b \in DOMAIN d : ~Stale(d[b])} |-> d[a]]

Serve(a) ==
    /\ a \in pending
    /\ Len(RecentOnRoute(a)) < MaxRequests
    /\ requests' = Pruned(Put(requests, a, Append(RecentOnRoute(a), 0)))
    /\ pending' = pending \ {a}
    /\ refused' = Nobody
    /\ UNCHANGED <<defended, blacklist, probeCounts, rateCounts>>

-----------------------------------------------------------------------------

\* POST /cpip/emergency with "wipe"; it may itself be any request that was served.
Wipe ==
    /\ blacklist' = EmptyDict /\ probeCounts' = EmptyDict
    /\ refused' = Nobody
    /\ UNCHANGED <<defended, rateCounts, requests, pending>>

Restart ==
    /\ blacklist' = EmptyDict /\ probeCounts' = EmptyDict
    /\ rateCounts' = EmptyDict /\ requests' = EmptyDict
    /\ pending' = {}
    /\ refused' = Nobody
    /\ defended' \in BOOLEAN

Tick ==
    /\ blacklist' = [a \in DOMAIN blacklist |->
                       IF blacklist[a] < 0 THEN -1 ELSE blacklist[a] - 1]
    /\ probeCounts' = [a \in DOMAIN probeCounts |-> Aged(probeCounts[a], DEFENSE_RATE_WINDOW)]
    /\ rateCounts' = [a \in DOMAIN rateCounts |-> Aged(rateCounts[a], RATE_WINDOW)]
    /\ requests' = [a \in DOMAIN requests |-> Aged(requests[a], WindowSeconds)]
    /\ refused' = Nobody
    /\ UNCHANGED <<defended, pending>>

FrontNext ==
    \/ \E a \in Address :
         \/ \E r \in Request :
              Block(a, r) \/ RefuseInFront(a, r) \/ Pass(a, r) \/ PassUndefended(a, r)
         \/ RefuseOnRoute(a) \/ Serve(a)
    \/ Wipe \/ Restart \/ Tick

\* Time passes, whatever clients do.
FrontSpec == FrontInit /\ [][FrontNext]_frontVars /\ WF_frontVars(Tick)

-----------------------------------------------------------------------------
(* Each limiter lets through as many requests of an address as its window  *)
(* allows and no more, and refuses none but those: the lists that are cut  *)
(* when they are looked at and the keys that are pruned in _check_rate_    *)
(* limit of backend/cpip_provider.py and RateLimiter.check of              *)
(* backend/rate_limiter.py amount to a sliding window.                     *)
RefusedBy(limiter) == IF refused.by = limiter THEN refused.to ELSE {}

FrontWindow == INSTANCE SlidingWindow WITH
    Limit <- RATE_LIMIT, Window <- RATE_WINDOW,
    admitted <- [a \in Address |-> Fresh(AgesOf(rateCounts, a), RATE_WINDOW)],
    refused <- RefusedBy("front")

RouteWindow == INSTANCE SlidingWindow WITH
    Limit <- MaxRequests, Window <- WindowSeconds,
    admitted <- [a \in Address |-> Fresh(AgesOf(requests, a), WindowSeconds)],
    refused <- RefusedBy("route")

LimitersAreWindows == FrontWindow!Spec /\ RouteWindow!Spec

(* An address that is banned is let in again, though it goes on probing:   *)
(* check_request and is_blacklisted of backend/cpip_provider.py.           *)
BansEnd == \A a \in Address : IsBlacklisted(a) ~> ~IsBlacklisted(a)
=============================================================================
