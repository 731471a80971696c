----------------------------- MODULE AIGateway -----------------------------
(***************************************************************************)
(* AIGateway.execute (ai_gateway/gateway.py): executions that run          *)
(* concurrently in the API instances, each a coroutine that                *)
(*   - writes its provenance, one independently committed write at a time, *)
(*   - reads the operators' controls whenever it needs authority,          *)
(*   - asks the shared provider circuit for a permit and reports back,     *)
(*   - awaits the provider, the one place where its request can be         *)
(*     cancelled.                                                          *)
(*                                                                         *)
(* The provenance store is the abstract ExecutionRecord, which Provenance  *)
(* implements; the circuit is CircuitBreaker itself.  pc names the write   *)
(* or the call an execution waits for.  Policy stands for everything that  *)
(* policy evaluation reads: the global and task switches and the tenant's  *)
(* rules.  Failures of a stage are nondeterministic.                       *)
(***************************************************************************)
EXTENDS ExecutionRecord, Integers

CONSTANTS
    Providers, Routes, ProviderOf, FailureThreshold, FailureWindow, OpenSeconds,
    SuccessThreshold, ProbeLease, Skew, CallSeconds,   \* as in CircuitBreaker
    RouteOf                                            \* the route of each execution's task

Stages == <<"created", "policy", "protection", "route">>
AttemptFacts == {"attempt_started", "attempt_succeeded", "attempt_failed"}
Endings == {"SUCCEEDED", "REJECTED", "FAILED", "CANCELLED"}
GatewayFacts == {"created", "policy", "protection", "route"} \cup AttemptFacts \cup Endings

Categories == {"NONE", "INVALID", "POLICY", "ROUTING", "UNAVAILABLE", "CONFIGURATION",
               "AUTHORITY_REVOKED", "PROVIDER", "INTERNAL", "PROVENANCE_UNAVAILABLE"}

ASSUME GatewayAssumption ==
    /\ Facts = GatewayFacts /\ Closing = Endings
    /\ RouteOf \in [Executions -> Routes]

VARIABLES
    row, call,    \* the circuit's
    policy,       \* policy evaluation would allow the request now
    provider,     \* the provider is administratively enabled now
    pc,
    decision,     \* the policy decision an execution holds
    ending,       \* the result an execution gives once its record is closed
    answer        \* the result it gave

Circuit == INSTANCE CircuitBreaker WITH Callers <- Executions

circuitVars == <<row, call>>
controls == <<policy, provider>>
results == <<decision, ending, answer>>
vars == <<recordVars, circuitVars, controls, pc, results>>

Result == [status: Endings, category: Categories]

(* Waiting for the write of that name, or about to read that control.      *)
Waiting == {"created", "policy", "protection", "route", "attempt_started",
            "attempt_succeeded", "attempt_failed", "closing", "cancelling"}
Places == Waiting \cup {"start", "availability", "circuit", "provider", "accept_provider",
                        "accept_circuit", "done", "crashed"}

TypeOK ==
    /\ \A e \in Executions : \A i \in DOMAIN log[e] : log[e][i] \in Facts
    /\ pending \in [Executions -> Facts \cup {NULL}]
    /\ reply \in [Executions -> {NULL, "ok", "error"}]
    /\ policy \in BOOLEAN /\ provider \in BOOLEAN
    /\ pc \in [Executions -> Places]
    /\ decision \in [Executions -> BOOLEAN]
    /\ ending \in [Executions -> Result \cup {NULL}]
    /\ answer \in [Executions -> Result \cup {NULL}]
    /\ \A e \in Executions : pc[e] = "done" <=> answer[e] # NULL

-----------------------------------------------------------------------------
Told(e) == pending[e] = NULL /\ reply[e] = "ok"
Refused(e) == pending[e] = NULL /\ reply[e] = "error"

Goto(e, place) == pc' = [pc EXCEPT ![e] = place]

(* Ask for a write and wait for it. *)
Write(e, f) == Ask(e, f) /\ Goto(e, f)

(* Close the record with the result's status, then give the result.        *)
Close(e, status, category) ==
    /\ Ask(e, status)
    /\ Goto(e, "closing")
    /\ ending' = [ending EXCEPT ![e] = [status |-> status, category |-> category]]
    /\ UNCHANGED <<decision, answer>>

Give(e, result) ==
    /\ Goto(e, "done")
    /\ answer' = [answer EXCEPT ![e] = result]
    /\ UNCHANGED <<decision, ending>>

Failure(category) == [status |-> "FAILED", category |-> category]

Init ==
    /\ RecordInit /\ Circuit!Init
    /\ policy = TRUE /\ provider = TRUE
    /\ pc = [e \in Executions |-> "start"]
    /\ decision = [e \in Executions |-> FALSE]
    /\ ending = [e \in Executions |-> NULL]
    /\ answer = [e \in Executions |-> NULL]

-----------------------------------------------------------------------------
(* Before the provider. *)

(* An untrusted context is rejected, and an error before the first write is *)
(* reported, without a record.                                             *)
RefuseUnrecorded(e) ==
    /\ pc[e] = "start"
    /\ \E r \in {[status |-> "REJECTED", category |-> "POLICY"], Failure("INTERNAL")} : Give(e, r)
    /\ UNCHANGED <<recordVars, circuitVars, controls>>

StartExecution(e) ==
    /\ pc[e] = "start"
    /\ Write(e, "created")
    /\ UNCHANGED <<circuitVars, controls, results>>

EvaluatePolicy(e) ==
    /\ pc[e] = "created" /\ Told(e)
    /\ decision' = [decision EXCEPT ![e] = policy]
    /\ Write(e, "policy")
    /\ UNCHANGED <<circuitVars, controls, ending, answer>>

Protect(e) ==
    /\ pc[e] = "policy" /\ Told(e) /\ decision[e]
    /\ Write(e, "protection")
    /\ UNCHANGED <<circuitVars, controls, results>>

SelectRoute(e) ==
    /\ pc[e] = "protection" /\ Told(e)
    /\ Write(e, "route")
    /\ UNCHANGED <<circuitVars, controls, results>>

(* Sources, input, policy, content, protection, route and budget checks.   *)
Reject(e) ==
    /\ \/ pc[e] \in {"created", "protection", "route"} /\ Told(e) /\ Close(e, "REJECTED", "INVALID")
       \/ pc[e] = "policy" /\ Told(e) /\ decision[e] /\ Close(e, "REJECTED", "INVALID")
       \/ pc[e] = "policy" /\ Told(e) /\ ~decision[e] /\ Close(e, "REJECTED", "POLICY")
    /\ UNCHANGED <<circuitVars, controls>>

(* "Authority is deliberately re-evaluated immediately before model I/O." *)
Recheck(e) ==
    /\ pc[e] = "route" /\ Told(e)
    /\ IF policy THEN Goto(e, "availability") /\ UNCHANGED <<recordVars, results>>
                 ELSE Close(e, "REJECTED", "POLICY")
    /\ UNCHANGED <<circuitVars, controls>>

(* evaluate_provider(acquire_probe=True): the control, then the circuit,   *)
(* each read in a transaction of its own.  An error of either rejects.     *)
CheckProvider(e) ==
    /\ pc[e] = "availability"
    /\ \/ provider /\ Goto(e, "circuit") /\ UNCHANGED <<recordVars, results>>
       \/ ~provider /\ Close(e, "REJECTED", "UNAVAILABLE")
       \/ Close(e, "REJECTED", "CONFIGURATION")
    /\ UNCHANGED <<circuitVars, controls>>

(* An admitted call writes its attempt before it reaches the provider.     *)
AskCircuit(e) ==
    /\ pc[e] = "circuit"
    /\ \/ Circuit!Admit(e, RouteOf[e]) /\ Write(e, "attempt_started") /\ UNCHANGED results
       \/ Circuit!Deny(e, RouteOf[e]) /\ Close(e, "REJECTED", "UNAVAILABLE")
       \/ Close(e, "REJECTED", "CONFIGURATION") /\ UNCHANGED circuitVars
    /\ UNCHANGED controls

(* Mutant of CallProvider: the call does not wait for its attempt's write. *)
CallProviderUnrecorded(e) ==
    /\ pc[e] = "attempt_started" /\ ~Refused(e)
    /\ Goto(e, "provider")
    /\ UNCHANGED <<recordVars, circuitVars, controls, results>>

CallProvider(e) ==
    /\ pc[e] = "attempt_started" /\ Told(e)
    /\ Goto(e, "provider")
    /\ UNCHANGED <<recordVars, circuitVars, controls, results>>

-----------------------------------------------------------------------------
(* The provider has answered, failed, or been given up.                    *)

(* Mutant of ProviderAnswers: the attempt is closed as soon as it answers. *)
ProviderAnswersUnheard(e) ==
    /\ pc[e] = "provider"
    /\ Circuit!RecordSuccess(e)
    /\ Close(e, "SUCCEEDED", "NONE")
    /\ UNCHANGED controls

(* A valid output: the circuit is told first, then the ledger.             *)
ProviderAnswers(e) ==
    /\ pc[e] = "provider"
    /\ Circuit!RecordSuccess(e)
    /\ Write(e, "attempt_succeeded")
    /\ UNCHANGED <<controls, results>>

(* The circuit cannot be told: the execution is rejected at once.          *)
SuccessUnreported(e) ==
    /\ pc[e] = "provider"
    /\ Circuit!Abandon(e)
    /\ Close(e, "REJECTED", "CONFIGURATION")
    /\ UNCHANGED controls

(* A ProviderFailure counts against the circuit if its category qualifies   *)
(* and the circuit can be told; any other exception does not.              *)
ProviderFails(e) ==
    /\ pc[e] = "provider"
    /\ \E category \in {"PROVIDER", "INTERNAL"} :
          /\ \/ category = "PROVIDER" /\ Circuit!RecordFailure(e)
             \/ Circuit!Abandon(e)
          /\ ending' = [ending EXCEPT ![e] = Failure(category)]
    /\ Write(e, "attempt_failed")
    /\ UNCHANGED <<controls, decision, answer>>

CloseFailed(e) ==
    /\ pc[e] = "attempt_failed" /\ Told(e)
    /\ Close(e, "FAILED", ending[e].category)
    /\ UNCHANGED <<circuitVars, controls>>

(* Mutant of Cancel: the caller of a cancelled request is given a result.  *)
CancelReturns(e) ==
    /\ pc[e] = "provider"
    /\ Circuit!Abandon(e)
    /\ Ask(e, "CANCELLED")
    /\ Goto(e, "closing")
    /\ UNCHANGED <<controls, results>>

(* CancelledError: the record is closed and the error raised again.        *)
Cancel(e) ==
    /\ pc[e] = "provider"
    /\ Circuit!Abandon(e)
    /\ Ask(e, "CANCELLED")
    /\ Goto(e, "cancelling")
    /\ UNCHANGED <<controls, results>>


AcceptPolicy(e) ==
    /\ pc[e] = "attempt_succeeded" /\ Told(e)
    /\ IF policy THEN Goto(e, "accept_provider") /\ UNCHANGED <<recordVars, results>>
                 ELSE Close(e, "REJECTED", "AUTHORITY_REVOKED")
    /\ UNCHANGED <<circuitVars, controls>>

AcceptProvider(e) ==
    /\ pc[e] = "accept_provider"
    /\ \/ provider /\ Goto(e, "accept_circuit") /\ UNCHANGED <<recordVars, results>>
       \/ Close(e, "REJECTED", "AUTHORITY_REVOKED")
    /\ UNCHANGED <<circuitVars, controls>>

AcceptCircuit(e) ==
    /\ pc[e] = "accept_circuit"
    /\ \/ Circuit!PeekAllows(e, RouteOf[e]) /\ Close(e, "SUCCEEDED", "NONE")
       \/ Close(e, "REJECTED", "AUTHORITY_REVOKED")
    /\ UNCHANGED <<circuitVars, controls>>

-----------------------------------------------------------------------------
(* Every stage. *)

(* An exception nothing else handles. *)
Unexpected(e) ==
    /\ \/ pc[e] \in {"created", "policy", "protection", "route", "attempt_succeeded"} /\ Told(e)
       \/ pc[e] \in {"accept_provider", "accept_circuit"}
    /\ Close(e, "FAILED", "INTERNAL")
    /\ UNCHANGED <<circuitVars, controls>>

(* Mutant of ProvenanceFailure: the result is given although its ending is *)
(* not known to be recorded.                                               *)
ProvenanceFailureIgnored(e) ==
    /\ pc[e] \in Waiting \ {"cancelling"} /\ Refused(e)
    /\ Give(e, IF ending[e] = NULL THEN Failure("PROVENANCE_UNAVAILABLE") ELSE ending[e])
    /\ IF Circuit!InFlight(e) THEN Circuit!Abandon(e) ELSE UNCHANGED circuitVars
    /\ UNCHANGED <<recordVars, controls>>

(* Mutant of ProvenanceFailure: a failure that cannot be recorded is lost. *)
ProvenanceFailureLost(e) ==
    /\ pc[e] \in Waiting \ {"cancelling", "attempt_failed"} /\ Refused(e)
    /\ Give(e, Failure("PROVENANCE_UNAVAILABLE"))
    /\ IF Circuit!InFlight(e) THEN Circuit!Abandon(e) ELSE UNCHANGED circuitVars
    /\ UNCHANGED <<recordVars, controls>>

(* A write that was not acknowledged ends the execution; nothing further   *)
(* is written and an admitted call is never reported.                      *)
ProvenanceFailure(e) ==
    /\ pc[e] \in Waiting \ {"cancelling"} /\ Refused(e)
    /\ Give(e, Failure("PROVENANCE_UNAVAILABLE"))
    /\ IF Circuit!InFlight(e) THEN Circuit!Abandon(e) ELSE UNCHANGED circuitVars
    /\ UNCHANGED <<recordVars, controls>>

Finish(e) ==
    /\ \/ pc[e] = "closing" /\ Told(e) /\ Give(e, ending[e])
       \/ /\ pc[e] = "cancelling" /\ pending[e] = NULL
          /\ Give(e, [status |-> "CANCELLED", category |-> "NONE"])
    /\ UNCHANGED <<recordVars, circuitVars, controls>>

(* The instance dies; a write it sent may still commit. *)
Crash(e) ==
    /\ pc[e] \notin {"start", "done", "crashed"}
    /\ Goto(e, "crashed")
    /\ IF Circuit!InFlight(e) THEN Circuit!Abandon(e) ELSE UNCHANGED circuitVars
    /\ UNCHANGED <<recordVars, controls, results>>

Step(e) ==
    \/ RefuseUnrecorded(e) \/ StartExecution(e) \/ EvaluatePolicy(e) \/ Protect(e)
    \/ SelectRoute(e) \/ Reject(e) \/ Recheck(e) \/ CheckProvider(e) \/ AskCircuit(e)
    \/ CallProvider(e) \/ ProviderAnswers(e) \/ SuccessUnreported(e) \/ ProviderFails(e)
    \/ CloseFailed(e) \/ Cancel(e) \/ AcceptPolicy(e) \/ AcceptProvider(e)
    \/ AcceptCircuit(e) \/ Unexpected(e) \/ ProvenanceFailure(e) \/ Finish(e)

Store(e) ==
    /\ Record(e) \/ Confirm(e) \/ GiveUp(e)
    /\ UNCHANGED <<circuitVars, controls, pc, results>>

(* An operator supersedes a control (operations/ai_controls.py). *)
Operate ==
    /\ \/ policy' = ~policy /\ UNCHANGED provider
       \/ provider' = ~provider /\ UNCHANGED policy
    /\ UNCHANGED <<recordVars, circuitVars, pc, results>>

Second == Circuit!Tick /\ UNCHANGED <<recordVars, controls, pc, results>>

Next == (\E e \in Executions : Step(e) \/ Store(e) \/ Crash(e)) \/ Operate \/ Second

Spec == Init /\ [][Next]_vars

(* The event loop runs every coroutine that can go on, the database        *)
(* answers or fails every transaction, the adapter's timeout ends a call.  *)
FairSpec == Spec /\ \A e \in Executions : WF_vars(Step(e)) /\ WF_vars(Store(e))

-----------------------------------------------------------------------------
(***************************************************************************)
(* Safety.                                                                 *)
(***************************************************************************)

(* A fact is recorded only after everything it rests on: the stages in     *)
(* their order before the attempt, the attempt before its outcome, and     *)
(* success only on an attempt that succeeded.                              *)
Lifecycle ==
    \A e \in Executions : \A i \in DOMAIN log[e] :
        LET f == log[e][i]
            Before(g) == \E j \in 1..(i - 1) : log[e][j] = g
        IN /\ \A k \in 1..4 : f = Stages[k] => i = k
           /\ f = "attempt_started" => i = 5
           /\ f \in {"attempt_succeeded", "attempt_failed"} => i = 6
           /\ f \in Endings => i > 1
           /\ f = "SUCCEEDED" => Before("attempt_succeeded")
           /\ f = "CANCELLED" => Before("attempt_started") /\ ~Before("attempt_succeeded")

(* "If the initial record cannot be committed, the provider is not         *)
(* invoked": no call leaves before its attempt is durable, and a call that *)
(* the circuit admitted is in flight exactly while the execution awaits it.*)
CallsRecorded ==
    \A e \in Executions :
        /\ pc[e] = "provider" => Recorded(e, "attempt_started") /\ ~IsClosed(e)
        /\ pc[e] \in {"attempt_started", "provider"} <=> Circuit!InFlight(e)

(* "a successful provider output is withheld unless terminal success [is]  *)
(* durable": the caller and the ledger agree on how an execution ended,    *)
(* unless the caller was told that the ledger could not be written or      *)
(* nothing was ever recorded.  A rejection for want of authority, an       *)
(* availability or an input problem means no attempt was started.          *)
AnswerAgrees ==
    \A e \in Executions :
        answer[e] # NULL /\ answer[e].category # "PROVENANCE_UNAVAILABLE" =>
            /\ \A f \in Closing : Recorded(e, f) => f = answer[e].status
            /\ answer[e].status = "SUCCEEDED" => Recorded(e, "SUCCEEDED")
            /\ answer[e].status \in {"REJECTED", "FAILED"} =>
                   Recorded(e, answer[e].status) \/ log[e] = <<>>
            /\ answer[e].category \in {"INVALID", "POLICY", "UNAVAILABLE"} =>
                   ~Recorded(e, "attempt_started")

(* "The provider attempt and any actual usage remain recorded accurately": *)
(* an execution rejected after its provider answered has the outcome of    *)
(* the attempt on record.                                                  *)
RejectedAttemptRecorded ==
    \A e \in Executions :
        Recorded(e, "REJECTED") /\ Recorded(e, "attempt_started") =>
            Recorded(e, "attempt_succeeded") \/ Recorded(e, "attempt_failed")

(* Every execution is answered, whatever fails, unless its instance dies.  *)
Answered == \A e \in Executions : (pc[e] # "start") ~> (pc[e] \in {"done", "crashed"})

=============================================================================
