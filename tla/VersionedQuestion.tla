------------------------- MODULE VersionedQuestion -------------------------
(***************************************************************************)
(* What the Question domain promises its callers (question-domain.md): one *)
(* question, changed only by requests that name the version they replace.  *)
(* Each change is one step, whatever races, and makes the next version.    *)
(***************************************************************************)
EXTENDS QuestionDomain

VARIABLES
    question,     \* the authoritative state
    wish          \* what each request asks for while it is undecided

questionVars == <<question, wish>>

VInit == question = Absent /\ wish = [r \in Requests |-> NULL]

Want(r) ==
    /\ wish[r] = NULL
    /\ wish'[r] \in Wishes
    /\ wish' = [wish EXCEPT ![r] = wish'[r]]
    /\ UNCHANGED question

Apply(r) ==
    /\ wish[r] # NULL
    /\ wish[r].expected = question.version
    /\ wish[r].target = NULL => question.status = "OPEN" /\ question.content # wish[r].content
    /\ wish[r].target # NULL => Permitted(question.status, wish[r].target)
    /\ question' = Changed(question, wish[r])
    /\ wish' = [wish EXCEPT ![r] = NULL]

(* Refused, found already so, or failed. *)
Leave(r) ==
    /\ wish[r] # NULL
    /\ wish' = [wish EXCEPT ![r] = NULL]
    /\ UNCHANGED question

VNext == \E r \in Requests : Want(r) \/ Apply(r) \/ Leave(r)

VSpec == VInit /\ [][VNext]_questionVars
=============================================================================
