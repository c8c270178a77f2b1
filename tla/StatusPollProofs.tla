-------------------------- MODULE StatusPollProofs --------------------------
(***************************************************************************)
(* Machine-checked theorems about StatusPoll, for any set of calls, any    *)
(* number of retries and any bounds.                                       *)
(***************************************************************************)
EXTENDS StatusPoll, TLAPS

-----------------------------------------------------------------------------
(* The two properties speak of calls that have ended; the invariant says   *)
(* how a call under way got where it is: each failed attempt was counted   *)
(* once, and nothing was executed that is not lost.                        *)

Good(r) ==
    /\ r.pc # "idle" => /\ r.executed = r.lost
                        /\ r.lost <= r.failed
                        /\ r.outcome = "unknown"
    /\ r.pc \in {"asking", "asking again"} => r.failed = r.attempt
    /\ r.pc = "sleeping" => r.failed = r.attempt + 1 /\ r.attempt + 1 < Retries
    /\ r.executed <= r.lost + 1
    /\ r.outcome = "none" => r.failed = Retries \/ r.osError

CallsGood == \A c \in Calls : call[c] \in CallRecord /\ Good(call[c])

Inv == TypeOK /\ CallsGood

-----------------------------------------------------------------------------
(* What the operators on a call's record return. *)

LEMMA RestingGood == Resting \in CallRecord /\ Good(Resting)
<1>1. 0 \in 0..Retries - 1 /\ 0 \in 0..Retries /\ 0 \in Nat
  BY RetriesAssumption
<1>2. Resting \in CallRecord
  BY <1>1 DEF Resting, CallRecord, Outcomes
<1>3. Good(Resting)
  BY DEF Resting, Good
<1> QED
  BY <1>2, <1>3

\* End keeps the counters.
LEMMA EndGood ==
    ASSUME NEW r \in CallRecord, NEW o \in Outcomes \ {"unknown"},
           r.executed <= r.lost + 1, o = "none" => r.failed = Retries \/ r.osError
    PROVE  End(r, o) \in CallRecord /\ Good(End(r, o))
<1> DEFINE e == [r EXCEPT !.pc = "idle", !.outcome = o, !.header = 0,
                          !.renewed = FALSE]
<1>1. 0 \in Nat
  OBVIOUS
<1>2. e \in CallRecord
  BY <1>1, Zenon DEF CallRecord
<1>3. /\ e.pc = "idle" /\ e.outcome = o /\ e.failed = r.failed /\ e.osError = r.osError
      /\ e.executed = r.executed /\ e.lost = r.lost
  BY Zenon DEF CallRecord
<1>4. End(r, o) = e
  BY DEF End
<1> HIDE DEF e
<1>5. Good(e)
  BY <1>3 DEF Good
<1> QED
  BY <1>2, <1>4, <1>5

\* A record whose attempt just failed, and was counted, goes on or ends well.
LEMMA AfterFailureGood ==
    ASSUME NEW r \in CallRecord, r.failed = r.attempt + 1, r.executed = r.lost,
           r.lost <= r.failed, r.outcome = "unknown"
    PROVE  AfterFailure(r) \in CallRecord /\ Good(AfterFailure(r))
<1>0. /\ r.attempt \in 0..Retries - 1 /\ r.failed \in 0..Retries
      /\ r.executed \in 0..Retries /\ r.lost \in 0..Retries
  BY DEF CallRecord
<1>1. CASE r.attempt + 1 < Retries
  <2> DEFINE s == [r EXCEPT !.pc = "sleeping"]
  <2>1. s \in CallRecord
    BY Zenon DEF CallRecord
  <2>2. /\ s.pc = "sleeping" /\ s.outcome = r.outcome /\ s.failed = r.failed
        /\ s.executed = r.executed /\ s.lost = r.lost /\ s.attempt = r.attempt
    BY Zenon DEF CallRecord
  <2>3. AfterFailure(r) = s
    BY <1>1 DEF AfterFailure
  <2> HIDE DEF s
  <2>4. Good(s)
    BY <1>0, <1>1, <2>2 DEF Good
  <2> QED
    BY <2>1, <2>3, <2>4
<1>2. CASE ~(r.attempt + 1 < Retries)
  <2>1. r.failed = Retries
    BY <1>0, <1>2, RetriesAssumption
  <2>2. r.executed <= r.lost + 1
    BY <1>0
  <2>3. "none" \in Outcomes \ {"unknown"}
    BY DEF Outcomes
  <2>4. End(r, "none") \in CallRecord /\ Good(End(r, "none"))
    BY <2>1, <2>2, <2>3, EndGood
  <2> QED
    BY <1>2, <2>4 DEF AfterFailure
<1> QED
  BY <1>1, <1>2

\* A request that was executed unnoticed is executed and lost.
LEMMA LostFields ==
    ASSUME NEW r \in CallRecord, NEW n \in {0, 1},
           r.executed = r.lost, r.lost <= r.failed, r.failed = r.attempt
    PROVE  /\ Lost(r, n) \in CallRecord
           /\ Lost(r, n).attempt = r.attempt /\ Lost(r, n).failed = r.failed
           /\ Lost(r, n).outcome = r.outcome
           /\ Lost(r, n).executed = Lost(r, n).lost
           /\ Lost(r, n).lost <= r.failed + 1
<1> DEFINE executed == r.executed + n
           lost == r.lost + n
           s == [r EXCEPT !.executed = executed, !.lost = lost]
<1>1. /\ r.attempt \in 0..Retries - 1 /\ r.failed \in 0..Retries
      /\ r.executed \in 0..Retries /\ r.lost \in 0..Retries
  BY DEF CallRecord
<1>2. executed \in 0..Retries /\ lost \in 0..Retries
  BY <1>1, RetriesAssumption
<1>3. executed = lost /\ lost <= r.failed + 1
  BY <1>1
<1>4. Lost(r, n) = s
  BY DEF Lost
<1> HIDE DEF executed, lost
<1>5. s \in CallRecord
  BY <1>2, Zenon DEF CallRecord
<1>6. /\ s.attempt = r.attempt /\ s.outcome = r.outcome /\ s.failed = r.failed
      /\ s.executed = executed /\ s.lost = lost
  BY Zenon DEF CallRecord
<1> QED
  BY <1>3, <1>4, <1>5, <1>6

\* A request that was executed and answered.
LEMMA ExecutedFields ==
    ASSUME NEW r \in CallRecord,
           r.executed = r.lost, r.lost <= r.failed, r.failed = r.attempt
    PROVE  /\ Executed(r) \in CallRecord
           /\ Executed(r).executed <= Executed(r).lost + 1
<1> DEFINE executed == r.executed + 1
           s == [r EXCEPT !.executed = executed]
<1>1. /\ r.attempt \in 0..Retries - 1 /\ r.failed \in 0..Retries
      /\ r.executed \in 0..Retries /\ r.lost \in 0..Retries
  BY DEF CallRecord
<1>2. executed \in 0..Retries
  BY <1>1, RetriesAssumption
<1>3. executed <= r.lost + 1
  BY <1>1
<1>4. Executed(r) = s
  BY DEF Executed
<1> HIDE DEF executed
<1>5. s \in CallRecord
  BY <1>2, Zenon DEF CallRecord
<1>6. s.executed = executed /\ s.lost = r.lost
  BY Zenon DEF CallRecord
<1> QED
  BY <1>3, <1>4, <1>5, <1>6

LEMMA OneMore == \A n \in 0..Retries : n <= n + 1
BY RetriesAssumption

\* The counters of a call that asks, whose request is sent again.
LEMMA AskingGood ==
    ASSUME NEW r \in CallRecord, r.pc = "asking again", r.executed = r.lost,
           r.lost <= r.failed, r.failed = r.attempt, r.outcome = "unknown"
    PROVE  Good(r)
<1>1. r.lost \in 0..Retries
  BY Zenon DEF CallRecord
<1>2. r.executed <= r.lost + 1
  BY <1>1, OneMore, Zenon
<1> QED
  BY <1>2 DEF Good

-----------------------------------------------------------------------------
(* One call's record changes at a time. *)

LEMMA OneChanges ==
    ASSUME CallsGood, call \in [Calls -> CallRecord],
           NEW c \in Calls, NEW r \in CallRecord, Good(r), Become(c, r)
    PROVE  call' \in [Calls -> CallRecord] /\ CallsGood'
<1>1. call' \in [Calls -> CallRecord]
  BY DEF Become
<1>2. ASSUME NEW d \in Calls PROVE call'[d] \in CallRecord /\ Good(call'[d])
  <2>1. CASE d = c
    BY <2>1 DEF Become
  <2>2. CASE d # c
    BY <2>2 DEF CallsGood, Become
  <2> QED
    BY <2>1, <2>2
<1> QED
  BY <1>1, <1>2 DEF CallsGood

\* What the invariant says of a call that asks.
LEMMA AskingFacts ==
    ASSUME Inv, NEW c \in Calls, Asking(c)
    PROVE  /\ call[c] \in CallRecord
           /\ call[c].executed = call[c].lost
           /\ call[c].lost <= call[c].failed
           /\ call[c].failed = call[c].attempt
           /\ call[c].outcome = "unknown"
           /\ call[c].attempt \in 0..Retries - 1 /\ call[c].failed \in 0..Retries
           /\ call[c].executed \in 0..Retries /\ call[c].lost \in 0..Retries
<1>1. call[c] \in CallRecord /\ Good(call[c])
  BY DEF Inv, CallsGood
<1>2. call[c].pc \in {"asking", "asking again"}
  BY DEF Asking
<1> QED
  BY <1>1, <1>2 DEF Good, CallRecord

\* A failed attempt, executed or not.
LEMMA FailKeeps ==
    ASSUME Inv, NEW c \in Calls, NEW n \in {0, 1}, Asking(c), Fail(c, n)
    PROVE  call' \in [Calls -> CallRecord] /\ CallsGood'
<1> DEFINE r == Lost(call[c], n)
           failed == r.failed + 1
           s == [r EXCEPT !.failed = failed]
<1>1. /\ r \in CallRecord /\ r.attempt = call[c].attempt
      /\ r.failed = call[c].failed /\ r.outcome = call[c].outcome
      /\ r.executed = r.lost /\ r.lost <= call[c].failed + 1
  BY AskingFacts, LostFields
<1>2. Become(c, AfterFailure(s))
  BY DEF Fail
<1> HIDE DEF r
<1>3. failed \in 0..Retries /\ failed = r.attempt + 1 /\ r.lost <= failed
  BY <1>1, AskingFacts, RetriesAssumption
<1> HIDE DEF failed
<1>4. s \in CallRecord
  BY <1>1, <1>3, Zenon DEF CallRecord
<1>5. /\ s.attempt = r.attempt /\ s.outcome = r.outcome /\ s.failed = failed
      /\ s.executed = r.executed /\ s.lost = r.lost
  BY <1>1, Zenon DEF CallRecord
<1> HIDE DEF s
<1>6. AfterFailure(s) \in CallRecord /\ Good(AfterFailure(s))
  BY <1>1, <1>3, <1>4, <1>5, AskingFacts, AfterFailureGood
<1> QED
  BY <1>2, <1>6, OneChanges DEF Inv, TypeOK

\* An answer, good or garbled.
LEMMA AnswerKeeps ==
    ASSUME Inv, NEW c \in Calls, Asking(c), NEW o \in {"ok", "value error"},
           Become(c, End(Executed(call[c]), o))
    PROVE  call' \in [Calls -> CallRecord] /\ CallsGood'
<1> DEFINE s == Executed(call[c])
<1>1. s \in CallRecord /\ s.executed <= s.lost + 1
  BY AskingFacts, ExecutedFields
<1>2. Become(c, End(s, o))
  OBVIOUS
<1> HIDE DEF s
<1>3. End(s, o) \in CallRecord /\ Good(End(s, o))
  BY <1>1, EndGood DEF Outcomes
<1> QED
  BY <1>2, <1>3, OneChanges DEF Inv, TypeOK

\* An OSError.
LEMMA SystemErrorKeeps ==
    ASSUME Inv, NEW c \in Calls, SystemError(c)
    PROVE  call' \in [Calls -> CallRecord] /\ CallsGood'
<1> DEFINE r == call[c]
           s == [r EXCEPT !.osError = TRUE]
<1>1. Asking(c) /\ Become(c, End(s, "none"))
  BY DEF SystemError
<1>2. r \in CallRecord /\ r.executed <= r.lost + 1
  BY <1>1, AskingFacts
<1>4. s \in CallRecord
  BY <1>2, Zenon DEF CallRecord
<1>5. s.executed = r.executed /\ s.lost = r.lost /\ s.osError = TRUE
  BY <1>2, Zenon DEF CallRecord
<1> HIDE DEF s
<1>6. End(s, "none") \in CallRecord /\ Good(End(s, "none"))
  BY <1>2, <1>4, <1>5, EndGood DEF Outcomes
<1> QED
  BY <1>1, <1>6, OneChanges DEF Inv, TypeOK

\* A connection that breaks.
LEMMA CutOffKeeps ==
    ASSUME Inv, NEW c \in Calls, CutOff(c)
    PROVE  call' \in [Calls -> CallRecord] /\ CallsGood'
<1>1. Asking(c)
  BY DEF CutOff
<1>2. PICK n \in {0, 1} : Become(c, End(Lost(call[c], n), "transport error"))
  BY DEF CutOff
<1> DEFINE r == Lost(call[c], n)
<1>3. r \in CallRecord /\ r.executed = r.lost
  BY <1>1, AskingFacts, LostFields
<1> HIDE DEF r
<1>4. r.executed <= r.lost + 1
  <2>1. r.lost \in 0..Retries
    BY <1>3 DEF CallRecord
  <2> QED
    BY <1>3, <2>1
<1>5. End(r, "transport error") \in CallRecord /\ Good(End(r, "transport error"))
  BY <1>3, <1>4, EndGood DEF Outcomes
<1> QED
  BY <1>2, <1>5, OneChanges DEF Inv, TypeOK, r

\* 401: the counters stay, the header and the point reached change.
LEMMA RejectedKeeps ==
    ASSUME Inv, NEW c \in Calls, Rejected(c)
    PROVE  call' \in [Calls -> CallRecord] /\ CallsGood'
<1> DEFINE r == call[c]
           s == [r EXCEPT !.pc = "asking again", !.header = cached', !.renewed = TRUE]
<1>1. Asking(c) /\ Become(c, s) /\ cached' \in Nat
  BY DEF Rejected, Asking, Inv, TypeOK
<1>2. r \in CallRecord
  BY <1>1, AskingFacts
<1>3. s \in CallRecord
  BY <1>1, <1>2, Zenon DEF CallRecord
<1>4. /\ s.pc = "asking again" /\ s.attempt = r.attempt /\ s.failed = r.failed
      /\ s.executed = r.executed /\ s.lost = r.lost /\ s.outcome = r.outcome
  BY <1>2, Zenon DEF CallRecord
<1> HIDE DEF s
<1>5. /\ r.executed = r.lost /\ r.lost <= r.failed /\ r.failed = r.attempt
      /\ r.outcome = "unknown"
  BY <1>1, AskingFacts
<1>6. Good(s)
  BY <1>3, <1>4, <1>5, AskingGood
<1> QED
  BY <1>1, <1>3, <1>6, OneChanges DEF Inv, TypeOK

\* The next attempt.
LEMMA ResumesKeeps ==
    ASSUME Inv, NEW c \in Calls, Resumes(c)
    PROVE  call' \in [Calls -> CallRecord] /\ CallsGood'
<1> DEFINE r == call[c]
           attempt == r.attempt + 1
           s == [r EXCEPT !.pc = "asking", !.attempt = attempt]
<1>1. r.pc = "sleeping" /\ Become(c, s)
  BY DEF Resumes
<1>2. r \in CallRecord /\ Good(r)
  BY DEF Inv, CallsGood
<1>3. /\ r.attempt \in 0..Retries - 1 /\ r.executed \in 0..Retries
      /\ r.lost \in 0..Retries
  BY <1>2 DEF CallRecord
<1>4. /\ r.failed = attempt /\ attempt < Retries
      /\ r.executed = r.lost /\ r.lost <= r.failed /\ r.outcome = "unknown"
  BY <1>1, <1>2 DEF Good
<1>5. attempt \in 0..Retries - 1
  BY <1>3, <1>4, RetriesAssumption
<1> HIDE DEF attempt
<1>6. s \in CallRecord
  BY <1>2, <1>5, Zenon DEF CallRecord
<1>7. /\ s.pc = "asking" /\ s.attempt = attempt /\ s.failed = r.failed
      /\ s.executed = r.executed /\ s.lost = r.lost /\ s.outcome = r.outcome
  BY <1>2, Zenon DEF CallRecord
<1> HIDE DEF s
<1>8. Good(s)
  BY <1>3, <1>4, <1>7 DEF Good
<1> QED
  BY <1>1, <1>6, <1>8, OneChanges DEF Inv, TypeOK

LEMMA BeginCallKeeps ==
    ASSUME Inv, NEW c \in Calls, BeginCall(c)
    PROVE  call' \in [Calls -> CallRecord] /\ CallsGood'
<1> DEFINE new == (cached = 0)
           s == [Resting EXCEPT !.pc = "asking", !.header = cached', !.renewed = new]
<1>1. Become(c, s) /\ new \in BOOLEAN
  BY DEF BeginCall
<1>2. cached' \in Nat
  BY DEF BeginCall, Inv, TypeOK
<1>3. s \in CallRecord
  BY <1>1, <1>2, RestingGood, Zenon DEF CallRecord
<1>4. /\ s.pc = "asking" /\ s.attempt = 0 /\ s.failed = 0 /\ s.executed = 0
      /\ s.lost = 0 /\ s.outcome = "unknown"
  BY Zenon DEF Resting
<1> HIDE DEF s
<1>5. Good(s)
  BY <1>4 DEF Good
<1> QED
  BY <1>1, <1>3, <1>5, OneChanges DEF Inv, TypeOK

-----------------------------------------------------------------------------
(* The steps of the specification. *)

LEMMA CallStepKeeps ==
    ASSUME Inv, NEW c \in Calls, CallStep(c)
    PROVE  /\ call' \in [Calls -> CallRecord] /\ CallsGood'
           /\ node' \in Conditions /\ cached' \in Nat /\ expired' \in 0..cached'
           /\ changes' \in 0..MaxChanges /\ mishaps' \in 0..MaxMishaps
<1>1. call' \in [Calls -> CallRecord] /\ CallsGood'
  <2>1. CASE Resumes(c)
    BY <2>1, ResumesKeeps
  <2>2. CASE Answered(c)
    BY <2>2, AnswerKeeps DEF Answered
  <2>3. CASE Rejected(c)
    BY <2>3, RejectedKeeps
  <2>4. CASE ConnectError(c) \/ TimesOut(c) \/ ErrorStatus(c)
    BY <2>4, FailKeeps DEF ConnectError, TimesOut, ErrorStatus
  <2>5. CASE SystemError(c)
    BY <2>5, SystemErrorKeeps
  <2>6. CASE Garbled(c)
    BY <2>6, AnswerKeeps DEF Garbled
  <2>7. CASE CutOff(c)
    BY <2>7, CutOffKeeps
  <2> QED
    BY <2>1, <2>2, <2>3, <2>4, <2>5, <2>6, <2>7 DEF CallStep
<1>2. node' = node /\ expired' = expired /\ changes' = changes
  BY DEF CallStep, Resumes, Answered, Rejected, ConnectError, TimesOut, ErrorStatus,
         SystemError, Garbled, CutOff
<1>3. cached' = cached \/ cached' = cached + 1
  BY DEF CallStep, Resumes, Answered, Rejected, ConnectError, TimesOut, ErrorStatus,
         SystemError, Garbled, CutOff
<1>4. mishaps' = mishaps \/ Mishap
  BY DEF CallStep, Resumes, Answered, Rejected, ConnectError, TimesOut, ErrorStatus,
         SystemError, Garbled, CutOff
<1>5. mishaps' \in 0..MaxMishaps
  BY <1>4, BoundsAssumption DEF Mishap, Inv, TypeOK
<1>6. cached' \in Nat /\ expired' \in 0..cached'
  BY <1>2, <1>3 DEF Inv, TypeOK
<1> QED
  BY <1>1, <1>2, <1>5, <1>6 DEF Inv, TypeOK

LEMMA InitInv == Init => Inv
<1> SUFFICES ASSUME Init PROVE Inv
  OBVIOUS
<1>1. call \in [Calls -> CallRecord] /\ CallsGood
  BY RestingGood DEF Init, RpcInit, CallsGood
<1>2. TypeOK
  BY <1>1, BoundsAssumption DEF Init, RpcInit, TypeOK, Conditions
<1> QED
  BY <1>1, <1>2 DEF Inv

LEMMA StepInv == Inv /\ [Next]_vars => Inv'
<1> SUFFICES ASSUME Inv, [Next]_vars PROVE Inv'
  OBVIOUS
<1>1. CASE Environment
  <2>1. CASE NodeChanges
    BY <1>1, <2>1, BoundsAssumption
       DEF Environment, NodeChanges, Inv, TypeOK, CallsGood
  <2>2. CASE TokenExpires
    BY <1>1, <2>2 DEF Environment, TokenExpires, Inv, TypeOK, CallsGood
  <2> QED
    BY <1>1, <2>1, <2>2 DEF Environment
<1>2. ASSUME NEW c \in Calls, BeginCall(c), UNCHANGED <<poll, shown>> PROVE Inv'
  <2>1. call' \in [Calls -> CallRecord] /\ CallsGood'
    BY <1>2, BeginCallKeeps
  <2>2. cached' \in Nat /\ expired' \in 0..cached'
    BY <1>2 DEF BeginCall, Inv, TypeOK
  <2> QED
    BY <1>2, <2>1, <2>2 DEF BeginCall, Inv, TypeOK
<1>3. CASE BeginRequest
  BY <1>2, <1>3 DEF BeginRequest
<1>4. CASE PollBegins
  BY <1>2, <1>4, PollerAssumption DEF PollBegins
<1>5. CASE RequestStep
  <2>1. PICK c \in Calls : RequestSteps(c)
    BY <1>5 DEF RequestStep
  <2>2. poll' \in {"sleeping", "status", "balance", "dead"}
    BY <2>1 DEF RequestSteps, Inv, TypeOK
  <2>3. shown' \in {"Synced", "Offline"}
    BY <2>1 DEF RequestSteps, Inv, TypeOK
  <2> QED
    BY <2>1, <2>2, <2>3, CallStepKeeps DEF RequestSteps, Inv, TypeOK
<1>6. CASE PollWakes
  BY <1>6 DEF PollWakes, rpcVars, Inv, TypeOK, CallsGood
<1>7. CASE PollStep
  <2>1. poll' \in {"sleeping", "status", "balance", "dead"}
    BY <1>7 DEF PollStep, AfterPoll, Inv, TypeOK
  <2>2. shown' \in {"Synced", "Offline"}
    BY <1>7 DEF PollStep, AfterPoll, Inv, TypeOK
  <2> QED
    BY <1>7, <2>1, <2>2, CallStepKeeps, PollerAssumption DEF PollStep, Inv, TypeOK
<1>8. CASE UNCHANGED vars
  BY <1>8 DEF vars, Inv, TypeOK, CallsGood
<1> QED
  BY <1>1, <1>3, <1>4, <1>5, <1>6, <1>7, <1>8 DEF Next

-----------------------------------------------------------------------------

\* Every state of the client and its callers is well formed (call, the poller).
THEOREM TypeCorrect == Spec => []TypeOK
<1>1. Inv => TypeOK
  BY DEF Inv
<1> QED
  BY <1>1, InitInv, StepInv, PTL DEF Spec

\* call repeats a command only when it did not learn of the last execution.
THEOREM ExecutedOnce == Spec => []ExecutedOnceUnlessLost
<1>1. Inv => ExecutedOnceUnlessLost
  BY DEF Inv, CallsGood, Good, ExecutedOnceUnlessLost
<1> QED
  BY <1>1, InitInv, StepInv, PTL DEF Spec

\* try_call returns None only after every attempt failed by itself, or on an
\* OSError.
THEOREM GivesUpLate == Spec => []GivesUpForCause
<1>1. Inv => GivesUpForCause
  BY DEF Inv, CallsGood, Good, GivesUpForCause
<1> QED
  BY <1>1, InitInv, StepInv, PTL DEF Spec
=============================================================================
