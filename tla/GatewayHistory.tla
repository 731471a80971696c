--------------------------- MODULE GatewayHistory ---------------------------
(***************************************************************************)
(* AIGateway with a history of the operators' controls: which of them each *)
(* execution could have found on since it last had to check them.  The     *)
(* history only observes.                                                  *)
(***************************************************************************)
EXTENDS AIGateway

VARIABLE seen_on

historyVars == <<vars, seen_on>>

On == {c \in {"policy", "provider"} : IF c = "policy" THEN policy ELSE provider}

HInit == Init /\ seen_on = [e \in Executions |-> {}]

(* The route is selected and the call is next, or the output has arrived.  *)
Checkpoint(e) == pc'[e] \in {"route", "attempt_succeeded"} /\ pc[e] # pc'[e]

(* Checks may find a control on that was on at the checkpoint or later.    *)
Watch ==
    seen_on' = [e \in Executions |->
        IF Checkpoint(e) THEN On
        ELSE IF pc'[e] \in {"start", "created", "policy", "protection", "done", "crashed"} THEN {}
        ELSE seen_on[e] \cup On']

HNext == Next /\ Watch

HSpec == HInit /\ [][HNext]_historyVars

FairHSpec == HSpec /\ \A e \in Executions : WF_vars(Step(e)) /\ WF_vars(Store(e))

=============================================================================
