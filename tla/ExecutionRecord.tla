-------------------------- MODULE ExecutionRecord --------------------------
(***************************************************************************)
(* What the AI provenance store promises the Gateway, whatever the         *)
(* database does underneath (docs/architecture/ai-execution-provenance.md):*)
(* an append-only record per logical execution in which each fact appears  *)
(* at most once, which nothing follows once it is closed, and in which     *)
(* every fact the Gateway was told is recorded really is.  The Gateway may *)
(* be told "not recorded" of a fact that was.                              *)
(***************************************************************************)
EXTENDS Sequences, Naturals

CONSTANTS
    Executions,
    Facts,          \* everything that can be said of an execution
    Closing,        \* the facts that close it
    NULL

ASSUME RecordAssumption == Closing \subseteq Facts /\ NULL \notin Facts

VARIABLES
    log,        \* the facts recorded of each execution, in order
    pending,    \* the fact the Gateway is waiting to have recorded
    reply       \* what it was told of its latest fact

recordVars == <<log, pending, reply>>

Recorded(e, f) == \E i \in DOMAIN log[e] : log[e][i] = f

IsClosed(e) == \E i \in DOMAIN log[e] : log[e][i] \in Closing

RecordInit ==
    /\ log = [e \in Executions |-> <<>>]
    /\ pending = [e \in Executions |-> NULL]
    /\ reply = [e \in Executions |-> NULL]

Ask(e, f) ==
    /\ pending[e] = NULL
    /\ pending' = [pending EXCEPT ![e] = f]
    /\ reply' = [reply EXCEPT ![e] = NULL]
    /\ UNCHANGED log

Record(e) ==
    /\ pending[e] # NULL
    /\ ~Recorded(e, pending[e])
    /\ ~IsClosed(e)
    /\ log' = [log EXCEPT ![e] = Append(@, pending[e])]
    /\ UNCHANGED <<pending, reply>>

Confirm(e) ==
    /\ pending[e] # NULL
    /\ Recorded(e, pending[e])
    /\ pending' = [pending EXCEPT ![e] = NULL]
    /\ reply' = [reply EXCEPT ![e] = "ok"]
    /\ UNCHANGED log

GiveUp(e) ==
    /\ pending[e] # NULL
    /\ pending' = [pending EXCEPT ![e] = NULL]
    /\ reply' = [reply EXCEPT ![e] = "error"]
    /\ UNCHANGED log

RecordNext ==
    \E e \in Executions : \/ \E f \in Facts : Ask(e, f)
                          \/ Record(e)
                          \/ Confirm(e)
                          \/ GiveUp(e)

RecordSpec == RecordInit /\ [][RecordNext]_recordVars
=============================================================================
