---------------------------- MODULE StoredFiles ----------------------------
(***************************************************************************)
(* The client file boundary (files/service.py): a row of stored_files in   *)
(* PostgreSQL and two objects in a bucket, the staging upload and the      *)
(* canonical object, which no transaction covers together.                 *)
(*                                                                         *)
(* A request runs in one database transaction (api/dependencies.py).  It   *)
(* locks the row, talks to the object store step by step, and answers; the *)
(* transaction ends only after the answer has been sent, because FastAPI   *)
(* runs the exit code of a dependency with yield then.  Until it commits   *)
(* it may be rolled back at any point: an error, a lost connection, a      *)
(* failed commit, the death of the instance.  What it did to the objects   *)
(* stays done.                                                             *)
(***************************************************************************)
CONSTANTS Files, Requests, NULL

VARIABLES
    row,        \* the committed status of each file's row
    holder,     \* the request whose transaction has the row locked
    staging, object,    \* what the bucket holds at the file's two keys
    url,        \* a signed PUT was handed out
    age,        \* "open" while it is valid, then "grace", then "over"
    request,    \* what each request is doing
    completed,  \* a completion was answered with the AVAILABLE file
    removed     \* a deletion emptied the canonical key after its last copy

vars == <<row, holder, staging, object, url, age, request, completed, removed>>
bucket == <<staging, object>>
history == <<completed, removed>>

Status == {"PENDING_UPLOAD", "AVAILABLE", "FAILED", "DELETED"}
Contents == {"match", "mismatch"}      \* against the row's size, type and SHA-256
Optional(S) == S \cup {NULL}

Places == {"idle", "head_upload", "head_object", "copy", "head_copy", "drop_upload",
           "drop_object", "finish", "delete_object", "delete_upload", "respond", "commit"}

Answers == {"initiated", "available", "problem", "deleted"}

(* NULL marks what is absent. *)
ASSUME NullAssumption ==
    NULL \notin Files \cup Requests \cup Status \cup Contents \cup Answers

Request == [file: Optional(Files), at: Places, new: Optional(Status), answer: Optional(Answers)]

Idle == [file |-> NULL, at |-> "idle", new |-> NULL, answer |-> NULL]

TypeOK ==
    /\ row \in [Files -> Optional(Status)]
    /\ holder \in [Files -> Optional(Requests)]
    /\ staging \in [Files -> Optional(Contents)]
    /\ object \in [Files -> Optional(Contents)]
    /\ url \in [Files -> BOOLEAN]
    /\ age \in [Files -> {"open", "grace", "over"}]
    /\ request \in [Requests -> Request]
    /\ completed \in [Files -> BOOLEAN] /\ removed \in [Files -> BOOLEAN]
    /\ \A f \in Files, q \in Requests : holder[f] = q => request[q].file = f

Init ==
    /\ row = [f \in Files |-> NULL] /\ holder = [f \in Files |-> NULL]
    /\ staging = [f \in Files |-> NULL] /\ object = [f \in Files |-> NULL]
    /\ url = [f \in Files |-> FALSE] /\ age = [f \in Files |-> "open"]
    /\ request = [q \in Requests |-> Idle]
    /\ completed = [f \in Files |-> FALSE] /\ removed = [f \in Files |-> FALSE]

-----------------------------------------------------------------------------
At(q, place) == request[q].at = place

Go(q, place) == request' = [request EXCEPT ![q].at = place]

(* The transaction will set the status, or leave it with NULL, and the     *)
(* request goes on at a place with its answer decided.                     *)
Decide(q, place, new, answer) ==
    request' = [request EXCEPT ![q] = [@ EXCEPT !.at = place, !.new = new, !.answer = answer]]

(* Mutant of Lock: SELECT without FOR UPDATE. *)
NoLock(q, f) == holder' = holder

Lock(q, f) == holder[f] = NULL /\ holder' = [holder EXCEPT ![f] = q]

Open(q, f, place, new, answer) ==
    /\ At(q, "idle")
    /\ request' = [request EXCEPT ![q] = [file |-> f, at |-> place, new |-> new, answer |-> answer]]

(* Mutant of Unlock: the lock outlives the transaction. *)
KeepLock(q) == UNCHANGED holder

Unlock(q) == holder' = [f \in Files |-> IF holder[f] = q THEN NULL ELSE holder[f]]

-----------------------------------------------------------------------------
(* The row is inserted with a fresh id and a PUT is signed. *)
Initiate(q, f) ==
    /\ row[f] = NULL /\ ~url[f] /\ holder[f] = NULL
    /\ holder' = [holder EXCEPT ![f] = q]
    /\ Open(q, f, "respond", "PENDING_UPLOAD", "initiated")
    /\ UNCHANGED <<row, bucket, url, age, history>>

(* Mutant of Complete: a failed upload may be completed again. *)
CompleteRetried(q, f) ==
    /\ row[f] \in {"PENDING_UPLOAD", "AVAILABLE", "FAILED"}
    /\ Lock(q, f)
    /\ \/ row[f] = "AVAILABLE" /\ Open(q, f, "respond", NULL, "available")
       \/ row[f] # "AVAILABLE" /\ Open(q, f, "head_upload", NULL, NULL)
    /\ UNCHANGED <<row, bucket, url, age, history>>

(* complete_upload on a row that is there (any other is 404).  A failed or *)
(* deleted file is a conflict, which rolls the transaction back at once.   *)
Complete(q, f) ==
    /\ row[f] \in {"PENDING_UPLOAD", "AVAILABLE"}
    /\ Lock(q, f)
    /\ \/ row[f] = "AVAILABLE" /\ Open(q, f, "respond", NULL, "available")
       \/ row[f] = "PENDING_UPLOAD" /\ age[f] = "over" /\ Open(q, f, "drop_upload", "FAILED", "problem")
       \/ row[f] = "PENDING_UPLOAD" /\ age[f] # "over" /\ Open(q, f, "head_upload", NULL, NULL)
    /\ UNCHANGED <<row, bucket, url, age, history>>

HeadUpload(q) ==
    LET f == request[q].file IN
    /\ At(q, "head_upload")
    /\ \/ staging[f] = NULL /\ Decide(q, "respond", NULL, "problem")
       \/ staging[f] = "mismatch" /\ Decide(q, "drop_upload", "FAILED", "problem")
       \/ staging[f] = "match" /\ Go(q, "head_object")
    /\ UNCHANGED <<row, holder, bucket, url, age, history>>

HeadObject(q) ==
    LET f == request[q].file IN
    /\ At(q, "head_object")
    /\ \/ object[f] = NULL /\ Go(q, "copy")
       \/ object[f] = "mismatch" /\ Decide(q, "drop_object", "FAILED", "problem")
       \/ object[f] = "match" /\ Go(q, "finish")
    /\ UNCHANGED <<row, holder, bucket, url, age, history>>

(* The store copies what the staging key holds by now; a store may lose    *)
(* the type or the checksum on the way.                                    *)
Copy(q) ==
    LET f == request[q].file IN
    /\ At(q, "copy") /\ staging[f] # NULL
    /\ \E content \in {staging[f], "mismatch"} : object' = [object EXCEPT ![f] = content]
    /\ removed' = [removed EXCEPT ![f] = FALSE]
    /\ Go(q, "head_copy")
    /\ UNCHANGED <<row, holder, staging, url, age, completed>>

(* Mutant of HeadCopy: the copy is not verified. *)
HeadCopyTrusting(q) ==
    /\ At(q, "head_copy")
    /\ Go(q, "finish")
    /\ UNCHANGED <<row, holder, bucket, url, age, history>>

HeadCopy(q) ==
    LET f == request[q].file IN
    /\ At(q, "head_copy")
    /\ \/ object[f] = "match" /\ Go(q, "finish")
       \/ object[f] # "match" /\ Decide(q, "drop_object", "FAILED", "problem")
    /\ UNCHANGED <<row, holder, bucket, url, age, history>>

(* The status is flushed, then the upload deleted if the store can.        *)
Finish(q) ==
    LET f == request[q].file IN
    /\ At(q, "finish")
    /\ Decide(q, "respond", "AVAILABLE", "available")
    /\ staging' \in {staging, [staging EXCEPT ![f] = NULL]}
    /\ UNCHANGED <<row, holder, object, url, age, history>>

(* _delete_best_effort after a failure. *)
Drop(q) ==
    LET f == request[q].file IN
    /\ \/ At(q, "drop_upload") /\ UNCHANGED object
          /\ staging' \in {staging, [staging EXCEPT ![f] = NULL]}
       \/ At(q, "drop_object") /\ UNCHANGED staging
          /\ object' \in {object, [object EXCEPT ![f] = NULL]}
    /\ Go(q, "respond")
    /\ UNCHANGED <<row, holder, url, age, history>>

(* delete: the canonical object, then the upload, then the tombstone.      *)
Delete(q, f) ==
    /\ row[f] # NULL
    /\ Lock(q, f)
    /\ \/ row[f] = "DELETED" /\ Open(q, f, "respond", NULL, "deleted")
       \/ row[f] # "DELETED" /\ Open(q, f, "delete_object", NULL, NULL)
    /\ UNCHANGED <<row, bucket, url, age, history>>

DeleteObject(q) ==
    LET f == request[q].file IN
    /\ At(q, "delete_object")
    /\ object' = [object EXCEPT ![f] = NULL]
    /\ removed' = [removed EXCEPT ![f] = TRUE]
    /\ Go(q, "delete_upload")
    /\ UNCHANGED <<row, holder, staging, url, age, completed>>

DeleteUpload(q) ==
    LET f == request[q].file IN
    /\ At(q, "delete_upload")
    /\ staging' = [staging EXCEPT ![f] = NULL]
    /\ Decide(q, "respond", "DELETED", "deleted")
    /\ UNCHANGED <<row, holder, object, url, age, history>>

(* The answer leaves; the transaction is still open. *)
Respond(q) ==
    LET f == request[q].file IN
    /\ At(q, "respond")
    /\ url' = [url EXCEPT ![f] = @ \/ request[q].answer = "initiated"]
    /\ completed' = [completed EXCEPT ![f] = @ \/ request[q].answer = "available"]
    /\ Go(q, "commit")
    /\ UNCHANGED <<row, holder, bucket, age, removed>>

Commit(q) ==
    LET f == request[q].file IN
    /\ At(q, "commit")
    /\ row' = IF request[q].new = NULL THEN row ELSE [row EXCEPT ![f] = request[q].new]
    /\ request' = [request EXCEPT ![q] = Idle]
    /\ Unlock(q)
    /\ UNCHANGED <<bucket, url, age, history>>

(* FileStorageUnavailableError, a database error, a failed commit, a crash. *)
Rollback(q) ==
    /\ ~At(q, "idle")
    /\ request' = [request EXCEPT ![q] = Idle]
    /\ Unlock(q)
    /\ UNCHANGED <<row, bucket, url, age, history>>

-----------------------------------------------------------------------------
(* The client's PUT, which the store takes once per key while the URL is   *)
(* valid, and the bucket's own cleaning of old uploads.                    *)
Put(f, content) ==
    /\ url[f] /\ age[f] = "open" /\ staging[f] = NULL
    /\ staging' = [staging EXCEPT ![f] = content]
    /\ UNCHANGED <<row, holder, object, url, age, request, history>>

Clean(f) ==
    /\ age[f] = "over" /\ staging[f] # NULL
    /\ staging' = [staging EXCEPT ![f] = NULL]
    /\ UNCHANGED <<row, holder, object, url, age, request, history>>

(* upload_expires_at passes, then the grace period for completion.         *)
Expire(f) ==
    /\ url[f] /\ age[f] # "over"
    /\ age' = [age EXCEPT ![f] = IF age[f] = "open" THEN "grace" ELSE "over"]
    /\ UNCHANGED <<row, holder, bucket, url, request, history>>

Next ==
    \/ \E q \in Requests :
          \/ \E f \in Files : Initiate(q, f) \/ Complete(q, f) \/ Delete(q, f)
          \/ HeadUpload(q) \/ HeadObject(q) \/ Copy(q) \/ HeadCopy(q) \/ Finish(q) \/ Drop(q)
          \/ DeleteObject(q) \/ DeleteUpload(q) \/ Respond(q) \/ Commit(q) \/ Rollback(q)
    \/ \E f \in Files : (\E content \in Contents : Put(f, content)) \/ Clean(f) \/ Expire(f)

Spec == Init /\ [][Next]_vars

-----------------------------------------------------------------------------
(***************************************************************************)
(* Safety.                                                                 *)
(***************************************************************************)

(* "only then records AVAILABLE": a file is AVAILABLE only with its        *)
(* verified content at the canonical key, whoever uploaded, completed or   *)
(* rolled back meanwhile, until a deletion has emptied that key.           *)
AvailableStored ==
    \A f \in Files : row[f] = "AVAILABLE" => object[f] = "match" \/ removed[f]

(* "deletion removes the object": no completion running beside a deletion  *)
(* leaves or brings back the content of a deleted file.                    *)
DeletedGone == \A f \in Files : row[f] = "DELETED" => object[f] = NULL

(* A file is decided once: a failed upload never becomes available, an     *)
(* available one never fails, and a tombstone stays.                       *)
DecidedOnce ==
    [][\A f \in Files :
          /\ row[f] = "DELETED" => row'[f] = "DELETED"
          /\ row[f] \in {"AVAILABLE", "FAILED"} => row'[f] \in {row[f], "DELETED"}]_row

(* "Repeated completion is safe": a completion that was answered with the  *)
(* available file can be repeated to the same effect.                      *)
CompletionRepeatable ==
    \A f \in Files :
        completed[f] /\ ~removed[f] /\ row[f] = "PENDING_UPLOAD" /\ holder[f] = NULL =>
            staging[f] = "match" \/ age[f] = "over"
=============================================================================
