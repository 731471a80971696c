-------------------------- MODULE QuestionEditing --------------------------
(***************************************************************************)
(* Consultants who edit one question in their browsers                     *)
(* (components/questions/question-detail-controller.tsx and question-form):*)
(* a page shows the question it was rendered from; an edit form keeps its  *)
(* draft while the page is refreshed under it; a save and a lifecycle      *)
(* action name the version of the page as it is when they are sent, and    *)
(* one of each may be waiting at a time.                                   *)
(***************************************************************************)
EXTENDS Questions

CONSTANT Editors

VARIABLES
    page,        \* the question each page shows; Absent before it is loaded
    form,        \* the content each open form was filled with, or NULL
    saving,      \* the save each form waits for, or NULL
    acting,      \* the creation or lifecycle action waited for, or NULL
    refreshing,  \* router.refresh() is under way
    based        \* history: the content each save's draft was written from

webVars == <<page, form, saving, acting, refreshing, based>>
allVars == <<vars, webVars>>

WebTypeOK ==
    /\ TypeOK
    /\ page \in [Editors -> Question]
    /\ form \in [Editors -> Contents \cup {NULL}]
    /\ saving \in [Editors -> Requests \cup {NULL}]
    /\ acting \in [Editors -> Requests \cup {NULL}]
    /\ refreshing \in [Editors -> BOOLEAN]
    /\ based \in [Requests -> Contents \cup {NULL}]

EInit ==
    /\ Init
    /\ page = [e \in Editors |-> Absent]
    /\ form = [e \in Editors |-> NULL]
    /\ saving = [e \in Editors |-> NULL]
    /\ acting = [e \in Editors |-> NULL]
    /\ refreshing = [e \in Editors |-> FALSE]
    /\ based = [r \in Requests |-> NULL]

-----------------------------------------------------------------------------
(* The create sheet. *)
CreateQuestion(e, r) ==
    /\ page[e] = Absent /\ acting[e] = NULL
    /\ \E c \in Contents : Send(r, [expected |-> 0, content |-> c, target |-> NULL])
    /\ acting' = [acting EXCEPT ![e] = r]
    /\ UNCHANGED <<page, form, saving, refreshing, based>>

(* Opening or reloading the page: whatever it waited for is forgotten. *)
Load(e) ==
    /\ row # Absent
    /\ page' = [page EXCEPT ![e] = row]
    /\ form' = [form EXCEPT ![e] = NULL]
    /\ saving' = [saving EXCEPT ![e] = NULL]
    /\ acting' = [acting EXCEPT ![e] = NULL]
    /\ refreshing' = [refreshing EXCEPT ![e] = FALSE]
    /\ UNCHANGED <<vars, based>>

(* The Edit action; offered while the page shows an OPEN question and no   *)
(* other action is waited for.                                             *)
BeginEdit(e) ==
    /\ page[e] # Absent /\ page[e].status = "OPEN"
    /\ form[e] = NULL /\ acting[e] = NULL
    /\ form' = [form EXCEPT ![e] = page[e].content]
    /\ UNCHANGED <<vars, page, saving, acting, refreshing, based>>

CancelEdit(e) ==
    /\ form[e] # NULL /\ saving[e] = NULL
    /\ form' = [form EXCEPT ![e] = NULL]
    /\ UNCHANGED <<vars, page, saving, acting, refreshing, based>>

(* save: the draft with the version of the page, not of the form. *)
Save(e, r) ==
    /\ form[e] # NULL /\ saving[e] = NULL
    /\ \E c \in Contents :
          Send(r, [expected |-> page[e].version, content |-> c, target |-> NULL])
    /\ saving' = [saving EXCEPT ![e] = r]
    /\ based' = [based EXCEPT ![r] = form[e]]
    /\ UNCHANGED <<page, form, acting, refreshing>>

(* questionActions offers the transitions of the status the page shows. *)
Act(e, r) ==
    /\ page[e] # Absent /\ acting[e] = NULL
    /\ \E s \in QuestionStatus :
          /\ Permitted(page[e].status, s)
          /\ Send(r, [expected |-> page[e].version, content |-> NULL, target |-> s])
    /\ acting' = [acting EXCEPT ![e] = r]
    /\ UNCHANGED <<page, form, saving, refreshing, based>>

(* A saved form closes and the page is refreshed; a draft that could not   *)
(* be saved is preserved, and nothing is refreshed.                        *)
HearSave(e) ==
    /\ saving[e] # NULL /\ answer[saving[e]] # NULL
    /\ saving' = [saving EXCEPT ![e] = NULL]
    /\ IF answer[saving[e]] = "ok"
       THEN /\ form' = [form EXCEPT ![e] = NULL]
            /\ refreshing' = [refreshing EXCEPT ![e] = TRUE]
       ELSE UNCHANGED <<form, refreshing>>
    /\ UNCHANGED <<vars, page, acting, based>>

(* After an action the page is refreshed if it succeeded or if its         *)
(* connection failed, whether or not a form is open.                       *)
HearAct(e) ==
    /\ acting[e] # NULL /\ answer[acting[e]] # NULL
    /\ acting' = [acting EXCEPT ![e] = NULL]
    /\ refreshing' = [refreshing EXCEPT
          ![e] = @ \/ (page[e] # Absent /\ answer[acting[e]] \in {"ok", "lost"})]
    /\ UNCHANGED <<vars, page, form, saving, based>>

(* router.refresh() renders the page anew; an open form stays as it is. *)
Refresh(e) ==
    /\ refreshing[e] /\ row # Absent
    /\ page' = [page EXCEPT ![e] = row]
    /\ refreshing' = [refreshing EXCEPT ![e] = FALSE]
    /\ UNCHANGED <<vars, form, saving, acting, based>>

ENext ==
    \/ \E e \in Editors :
          \/ \E r \in Requests : CreateQuestion(e, r) \/ Save(e, r) \/ Act(e, r)
          \/ Load(e) \/ BeginEdit(e) \/ CancelEdit(e) \/ HearSave(e) \/ HearAct(e) \/ Refresh(e)
    \/ \E r \in Requests : Serve(r) /\ UNCHANGED webVars

ESpec == EInit /\ [][ENext]_allVars

-----------------------------------------------------------------------------
(* A version number names one state of the question: pages that show the   *)
(* same version show the same question, which is why a version is enough   *)
(* to say what a consultant has seen.                                      *)
PagesAgree ==
    \A e, f \in Editors :
        /\ page[e].version = page[f].version => page[e] = page[f]
        /\ page[e].version <= row.version
        /\ page[e].version = row.version => page[e] = row

=============================================================================
