----------------------------- MODULE MinimaRpc ------------------------------
(***************************************************************************)
(* MinimaRpcClient.call and try_call (backend/minima_client.py): a command *)
(* is sent to the node up to "Retries" times, with an authentication token *)
(* all calls of the process share; a rejected token is replaced and the    *)
(* request sent again within the same attempt.                             *)
(*                                                                         *)
(* A call is suspended while it asks, asks again or sleeps between two     *)
(* attempts, and runs without interruption in between.  Tokens are         *)
(* numbered as they are generated.  The connection pool is left out: it is *)
(* closed only at shutdown.                                                *)
(***************************************************************************)
EXTENDS Naturals

CONSTANTS
    Calls,      \* tasks of the backend that call the node
    Retries,    \* MINIMA_RPC_RETRIES
    MaxExpired, \* bound: tokens that expire
    MaxChanges, \* bound: changes of the node's condition
    MaxMishaps  \* bound: answers that are errors, garbled or cut off

ASSUME RetriesAssumption == Retries \in Nat \ {0}
ASSUME BoundsAssumption == {MaxExpired, MaxChanges, MaxMishaps} \subseteq Nat

VARIABLES
    node,      \* one of Conditions
    cached,    \* _cpip_token; 0 is None
    expired,   \* the tokens up to this one are past their TTL
    call,      \* the state of each call
    changes,   \* changes of the node's condition so far
    mishaps    \* mishaps so far

rpcVars == <<node, cached, expired, call, changes, mishaps>>

\* It works, refuses connections, or never answers.
Conditions == {"up", "down", "hung"}

Outcomes == {"unknown", "ok", "none", "value error", "transport error"}

\* renewed: the header was made in this call.  failed: attempts that ended in a
\* refused connection, a timeout or an error status.  osError: it ended in one.
\* executed: times the node executes the command.  lost: those times of which
\* the call learns nothing.
Resting == [pc |-> "idle", attempt |-> 0, header |-> 0, renewed |-> FALSE,
            failed |-> 0, osError |-> FALSE, executed |-> 0, lost |-> 0, outcome |-> "unknown"]

RpcInit ==
    /\ node \in Conditions
    /\ cached = 0
    /\ expired = 0
    /\ call = [c \in Calls |-> Resting]
    /\ changes = 0
    /\ mishaps = 0

Asking(c) == call[c].pc \in {"asking", "asking again"}

Become(c, r) == call' = [call EXCEPT ![c] = r]

-----------------------------------------------------------------------------
(* The node and time. *)

NodeChanges ==
    /\ changes < MaxChanges
    /\ changes' = changes + 1
    /\ node' \in Conditions \ {node}
    /\ UNCHANGED <<cached, expired, call, mishaps>>

\* Tokens expire in the order they were made.  They live for 300 seconds and a
\* call for much less: a token a call has made itself does not expire under it.
TokenExpires ==
    /\ expired < cached
    /\ expired < MaxExpired
    /\ expired' = expired + 1
    /\ \A c \in Calls : call[c].renewed => call[c].header # expired'
    /\ UNCHANGED <<node, cached, call, changes, mishaps>>

Mishap ==
    /\ mishaps < MaxMishaps
    /\ mishaps' = mishaps + 1

-----------------------------------------------------------------------------
(* The steps of a call. *)

\* The headers, with a token made now if there is none, and the first request.
BeginCall(c) ==
    /\ call[c].pc = "idle"
    /\ cached' = IF cached = 0 THEN 1 ELSE cached
    /\ Become(c, [Resting EXCEPT !.pc = "asking", !.header = cached',
                                 !.renewed = (cached = 0)])
    /\ UNCHANGED <<node, expired, changes, mishaps>>

\* The call returns or raises.
End(r, outcome) ==
    [r EXCEPT !.pc = "idle", !.outcome = outcome, !.header = 0, !.renewed = FALSE]

Executed(r) == [r EXCEPT !.executed = r.executed + 1]

\* Mutation: it begins all over.
AfterFailureForEver(r) ==
    [Resting EXCEPT !.pc = "sleeping", !.header = r.header]

\* What follows a failed attempt: a pause and the next, or MinimaRpcError,
\* which try_call turns into None.
AfterFailure(r) ==
    IF r.attempt + 1 < Retries THEN [r EXCEPT !.pc = "sleeping"]
                               ELSE End(r, "none")

Resumes(c) ==
    /\ call[c].pc = "sleeping"
    /\ Become(c, [call[c] EXCEPT !.pc = "asking", !.attempt = call[c].attempt + 1])
    /\ UNCHANGED <<node, cached, expired, changes, mishaps>>

Authorized(c) == call[c].header > expired

\* The node executes the command and the answer arrives.
Answered(c) ==
    /\ Asking(c)
    /\ node = "up"
    /\ Authorized(c)
    /\ Become(c, End(Executed(call[c]), "ok"))
    /\ UNCHANGED <<node, cached, expired, changes, mishaps>>

\* Mutation: the token is renewed, and the next attempt left to use it.
RejectedCostsAttempt(c) ==
    /\ call[c].pc = "asking"
    /\ node = "up"
    /\ ~Authorized(c)
    /\ cached' = cached + 1
    /\ Become(c, AfterFailure([call[c] EXCEPT !.header = cached']))
    /\ UNCHANGED <<node, expired, changes, mishaps>>

\* 401: a new token for everyone, and the same request once more.  The node holds
\* the same secret, so it accepts a token just made.
Rejected(c) ==
    /\ call[c].pc = "asking"
    /\ node = "up"
    /\ ~Authorized(c)
    /\ cached' = cached + 1
    /\ Become(c, [call[c] EXCEPT !.pc = "asking again", !.header = cached',
                                 !.renewed = TRUE])
    /\ UNCHANGED <<node, expired, changes, mishaps>>

\* An attempt fails; the command was executed (1) or not (0), nobody knows.
Lost(r, times) == [r EXCEPT !.executed = r.executed + times, !.lost = r.lost + times]

Fail(c, times) ==
    LET r == Lost(call[c], times)
    IN  Become(c, AfterFailure([r EXCEPT !.failed = r.failed + 1]))

ConnectError(c) ==
    /\ Asking(c)
    /\ node = "down"
    /\ Fail(c, 0)
    /\ UNCHANGED <<node, cached, expired, changes, mishaps>>

\* No answer in time; the node may execute the command all the same.
TimesOut(c) ==
    /\ Asking(c)
    /\ node = "hung"
    /\ Fail(c, 0) \/ (Authorized(c) /\ Fail(c, 1))
    /\ UNCHANGED <<node, cached, expired, changes, mishaps>>

ErrorStatus(c) ==
    /\ Asking(c)
    /\ node = "up"
    /\ Authorized(c)
    /\ Fail(c, 0) \/ Fail(c, 1)
    /\ Mishap
    /\ UNCHANGED <<node, cached, expired, changes>>

\* An OSError ends the attempts at once, however many there were (the message
\* says "after N attempts" all the same).
SystemError(c) ==
    /\ Asking(c)
    /\ Become(c, End([call[c] EXCEPT !.osError = TRUE], "none"))
    /\ Mishap
    /\ UNCHANGED <<node, cached, expired, changes>>

\* Mutation: an answer that is no JSON is asked for again.
GarbledRetried(c) ==
    /\ Asking(c)
    /\ node = "up"
    /\ Authorized(c)
    /\ Become(c, AfterFailure(Executed(call[c])))
    /\ Mishap
    /\ UNCHANGED <<node, cached, expired, changes>>

\* The answer is no JSON: resp.json() raises a ValueError nobody catches here.
Garbled(c) ==
    /\ Asking(c)
    /\ node = "up"
    /\ Authorized(c)
    /\ Become(c, End(Executed(call[c]), "value error"))
    /\ Mishap
    /\ UNCHANGED <<node, cached, expired, changes>>

\* The connection breaks with the request on it.  httpx raises a ReadError or a
\* RemoteProtocolError, which are none of the exceptions caught and no OSError.
CutOff(c) ==
    /\ Asking(c)
    /\ \E times \in {0, 1} :
         /\ times = 1 => Authorized(c)
         /\ Become(c, End(Lost(call[c], times), "transport error"))
    /\ Mishap
    /\ UNCHANGED <<node, cached, expired, changes>>

CallStep(c) ==
    \/ Resumes(c)
    \/ Answered(c)
    \/ Rejected(c)
    \/ ConnectError(c)
    \/ TimesOut(c)
    \/ ErrorStatus(c)
    \/ SystemError(c)
    \/ Garbled(c)
    \/ CutOff(c)

Ends(c) == call[c].pc # "idle" /\ call'[c].pc = "idle"
=============================================================================
