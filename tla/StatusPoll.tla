---------------------------- MODULE StatusPoll ------------------------------
(***************************************************************************)
(* The backend's callers of the node: the task that polls status and       *)
(* balance every ten seconds and shows what it found                       *)
(* (_poll_minima_status in backend/main.py), and requests, which make one  *)
(* call each.  They meet in the client's token and in the status shown.    *)
(*                                                                         *)
(* A command the node answers it answers with a true status.  A call's end *)
(* and what its caller does with it are one step; the poller's second call *)
(* begins in a step of its own.                                            *)
(***************************************************************************)
EXTENDS MinimaRpc

CONSTANT Poller   \* the polling task

ASSUME PollerAssumption == Poller \in Calls

VARIABLES
    poll,      \* what the poller does: "sleeping", "status", "balance", "dead"
    shown      \* state.minima.status

vars == <<node, cached, expired, call, changes, mishaps, poll, shown>>

CallRecord ==
    [pc: {"idle", "asking", "asking again", "sleeping"},
     attempt: 0..Retries - 1, header: Nat, renewed: BOOLEAN,
     failed: 0..Retries, osError: BOOLEAN, executed: 0..Retries, lost: 0..Retries,
     outcome: Outcomes]

TypeOK ==
    /\ node \in Conditions
    /\ cached \in Nat
    /\ expired \in 0..cached
    /\ call \in [Calls -> CallRecord]
    /\ changes \in 0..MaxChanges
    /\ mishaps \in 0..MaxMishaps
    /\ poll \in {"sleeping", "status", "balance", "dead"}
    /\ shown \in {"Synced", "Offline"}

\* The status shown first is what the state file says.
Init ==
    /\ RpcInit
    /\ poll = "status"
    /\ shown \in {"Synced", "Offline"}

Environment ==
    /\ NodeChanges \/ TokenExpires
    /\ UNCHANGED <<poll, shown>>

-----------------------------------------------------------------------------

BeginRequest ==
    /\ \E c \in Calls \ {Poller} : BeginCall(c)
    /\ UNCHANGED <<poll, shown>>

\* A request that asked for the status shows what it got; others do not.
RequestSteps(c) ==
    /\ CallStep(c)
    /\ \/ Ends(c) /\ call'[c].outcome = "ok" /\ shown' = "Synced"
       \/ UNCHANGED shown
    /\ UNCHANGED poll

RequestStep == \E c \in Calls \ {Poller} : RequestSteps(c)

PollBegins ==
    /\ poll \in {"status", "balance"}
    /\ BeginCall(Poller)
    /\ UNCHANGED <<poll, shown>>

\* Ten seconds later.
PollWakes ==
    /\ poll = "sleeping"
    /\ poll' = "status"
    /\ UNCHANGED <<rpcVars, shown>>

\* Mutation: a status that could not be had leaves the shown one.
AfterPollKeeps(outcome) ==
    CASE outcome = "ok" /\ poll = "status" -> poll' = "balance" /\ shown' = "Synced"
      [] outcome = "transport error"       -> poll' = "dead" /\ UNCHANGED shown
      [] OTHER                             -> poll' = "sleeping" /\ UNCHANGED shown

\* A status is shown and the balance asked for; no status, or a ValueError in
\* either call, is shown as "Offline"; any other exception ends the task.
AfterPoll(outcome) ==
    CASE outcome = "ok" /\ poll = "status" -> poll' = "balance" /\ shown' = "Synced"
      [] outcome = "transport error"       -> poll' = "dead" /\ UNCHANGED shown
      [] outcome = "value error" \/ (outcome = "none" /\ poll = "status")
                                           -> poll' = "sleeping" /\ shown' = "Offline"
      [] OTHER                             -> poll' = "sleeping" /\ UNCHANGED shown

PollStep ==
    /\ CallStep(Poller)
    /\ IF Ends(Poller) THEN AfterPoll(call'[Poller].outcome)
                       ELSE UNCHANGED <<poll, shown>>

Next ==
    \/ Environment
    \/ BeginRequest
    \/ RequestStep
    \/ PollBegins
    \/ PollWakes
    \/ PollStep

Spec == Init /\ [][Next]_vars

\* The event loop runs every task that can run; a request in flight is answered
\* or fails (httpx has a timeout for every phase); sleeps end.
FairSpec ==
    /\ Spec
    /\ \A c \in Calls \ {Poller} : WF_vars(RequestSteps(c))
    /\ WF_vars(PollBegins)
    /\ WF_vars(PollWakes)
    /\ WF_vars(PollStep)

-----------------------------------------------------------------------------
(* Properties. *)

\* A command is executed again only when the call did not learn of the last
\* time: never after an answer, whatever the answer was, and never because of
\* a token renewed half-way.
ExecutedOnceUnlessLost == \A c \in Calls : call[c].executed <= call[c].lost + 1

\* A call gives up only after every attempt was refused, unanswered or answered
\* with an error, or at once on an OSError, which is not tried again: a token
\* that expired, under this call or another, costs no attempt by itself.
GivesUpForCause ==
    \A c \in Calls :
        call[c].outcome = "none" => call[c].failed = Retries \/ call[c].osError

\* Every call returns, whatever becomes of the node.
CallsReturn == \A c \in Calls : call[c].pc # "idle" ~> call[c].pc = "idle"

\* As long as the poller lives, a node that is up for good is shown "Synced",
\* and one that is gone or hangs for good is shown "Offline".
StatusFollowsNode ==
    /\ <>[](node = "up" /\ poll # "dead") => <>[](shown = "Synced")
    /\ <>[](node # "up" /\ poll # "dead") => <>[](shown = "Offline")
=============================================================================
