--------------------------- MODULE SlidingWindow ----------------------------
(* What a rate limiter promises each address: at most Limit of its         *)
(* requests are let through in any Window seconds, and none is refused     *)
(* unless so many were.  Requests that are refused do not count.           *)
EXTENDS Ages

CONSTANTS Address, Limit, Window

VARIABLES
    admitted,  \* ages of the requests of the last Window seconds that were let
               \* through, oldest first
    refused    \* the address whose request the last step refused, in a set

Init == admitted = [a \in Address |-> <<>>] /\ refused = {}

Admit(a) ==
    /\ Len(admitted[a]) < Limit
    /\ admitted' = [admitted EXCEPT ![a] = Append(@, 0)]
    /\ refused' = {}

Refuse(a) ==
    /\ Len(admitted[a]) = Limit
    /\ refused' = {a}
    /\ UNCHANGED admitted

Tick ==
    /\ admitted' = [a \in Address |-> Fresh(Aged(admitted[a], Window), Window)]
    /\ refused' = {}

\* A step of something else, or the end of the process, which forgets everything.
Elsewhere == refused' = {} /\ UNCHANGED admitted
Forget == Init'

Next ==
    \/ \E a \in Address : Admit(a) \/ Refuse(a)
    \/ Tick \/ Elsewhere \/ Forget

Spec == Init /\ [][Next]_<<admitted, refused>>
=============================================================================
