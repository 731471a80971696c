-------------------------- MODULE StoredFilesProofs --------------------------
(***************************************************************************)
(* Proofs about StoredFiles for every set of files and requests.  The      *)
(* inductive invariant says that a request at work holds its file's lock   *)
(* (Locked) and that what it learnt about the row and the canonical object *)
(* under that lock is still true when it commits (Steady).                 *)
(***************************************************************************)
EXTENDS StoredFiles, TLAPS

Completing == {"head_upload", "head_object", "copy", "head_copy", "finish",
               "drop_upload", "drop_object"}
Deleting == {"delete_object", "delete_upload"}

Locked(q) ==
    LET r == request[q] IN
    \/ r.at = "idle" /\ r.file = NULL
    \/ r.at # "idle" /\ r.file \in Files /\ holder[r.file] = q

Steady(q) ==
    LET r == request[q]  f == r.file IN
    r.at # "idle" =>
        /\ r.new # NULL => r.at \in {"drop_upload", "drop_object", "respond", "commit"}
        /\ r.at \in {"drop_upload", "drop_object"} => r.new = "FAILED"
        /\ r.new = "PENDING_UPLOAD" => row[f] = NULL
        /\ r.at \in Completing \/ r.new \in {"AVAILABLE", "FAILED"} => row[f] = "PENDING_UPLOAD"
        /\ r.at \in Deleting \/ r.new = "DELETED" => row[f] \notin {NULL, "DELETED"}
        /\ r.at = "finish" \/ r.new = "AVAILABLE" => object[f] = "match"
        /\ r.at = "delete_upload" \/ r.new = "DELETED" => object[f] = NULL

Inv == /\ TypeOK
       /\ \A q \in Requests : Locked(q) /\ Steady(q)
       /\ AvailableStored /\ DeletedGone

-----------------------------------------------------------------------------
(* What one request does to its own file leaves every other request's lock *)
(* and knowledge alone: the row lock at work.                              *)
LEMMA Frame ==
    ASSUME Inv, NEW q \in Requests, NEW f,
           \A p \in Requests \ {q} : request'[p] = request[p],
           \A p \in Requests \ {q} : request[p].at # "idle" => request[p].file # f,
           \A g \in Files \ {f} : /\ row'[g] = row[g] /\ object'[g] = object[g]
                                  /\ holder[g] # q => holder'[g] = holder[g]
    PROVE  \A p \in Requests \ {q} : Locked(p)' /\ Steady(p)'
<1> SUFFICES ASSUME NEW p \in Requests \ {q} PROVE Locked(p)' /\ Steady(p)'
  OBVIOUS
<1>1. Locked(p) /\ Steady(p) /\ request'[p] = request[p]
  BY DEF Inv
<1>2. CASE request[p].at = "idle"
  BY <1>1, <1>2 DEF Locked, Steady
<1>3. CASE request[p].at # "idle"
  <2> DEFINE g == request[p].file
  <2>1. g \in Files \ {f} /\ holder[g] = p
    BY <1>1, <1>3 DEF Locked
  <2>2. row'[g] = row[g] /\ object'[g] = object[g] /\ holder'[g] = holder[g]
    BY <2>1
  <2> QED BY <1>1, <1>3, <2>1, <2>2 DEF Locked, Steady
<1> QED BY <1>2, <1>3

(* A request that starts takes a free file. *)
LEMMA Opening ==
    ASSUME Inv, NEW q \in Requests, NEW f \in Files, NEW place \in Places \ {"idle"},
           NEW new \in Optional(Status), NEW answer \in Optional(Answers),
           Open(q, f, place, new, answer), holder[f] = NULL,
           holder' = [holder EXCEPT ![f] = q], UNCHANGED <<row, bucket, url, age, history>>,
           Steady(q)'
    PROVE  Inv'
<1> USE NullAssumption
<1>1. TypeOK /\ Locked(q) /\ request[q].at = "idle"
  BY DEF Inv, Open, At
<1>2. /\ request'[q] = [file |-> f, at |-> place, new |-> new, answer |-> answer]
      /\ \A p \in Requests \ {q} : request'[p] = request[p]
  BY <1>1 DEF Open, TypeOK
<1>3. \A g \in Files : holder[g] # q
  BY <1>1 DEF TypeOK, Locked
<1>4. TypeOK'
  <2>1. request' \in [Requests -> Request]
    BY <1>1 DEF Open, TypeOK, Request, Optional
  <2>2. \A g \in Files, p \in Requests : holder'[g] = p => request'[p].file = g
    BY <1>1, <1>2, <1>3 DEF TypeOK
  <2> QED BY <1>1, <2>1, <2>2 DEF TypeOK, bucket, history, Optional
<1>5. Locked(q)'
  BY <1>1, <1>2 DEF Locked, TypeOK
<1>6. \A p \in Requests \ {q} : request[p].at # "idle" => request[p].file # f
  BY DEF Inv, Locked
<1>7. \A p \in Requests \ {q} : Locked(p)' /\ Steady(p)'
  BY <1>1, <1>2, <1>6, Frame DEF TypeOK, bucket
<1> QED BY <1>4, <1>5, <1>7 DEF Inv, AvailableStored, DeletedGone, bucket, history

(* A request that goes on keeps its file and lock. *)
LEMMA Going ==
    ASSUME Inv, NEW q \in Requests, ~At(q, "idle"), NEW place \in Places \ {"idle"},
           NEW new \in Optional(Status), NEW answer \in Optional(Answers),
           request' = [request EXCEPT ![q] = [@ EXCEPT !.at = place, !.new = new,
                                                       !.answer = answer]],
           UNCHANGED <<row, holder>>, TypeOK', Steady(q)',
           \A g \in Files \ {request[q].file} : object'[g] = object[g]
    PROVE  \A p \in Requests : Locked(p)' /\ Steady(p)'
<1>1. TypeOK /\ Locked(q) /\ request[q].at # "idle"
  BY DEF Inv, At
<1>2. /\ request'[q].file = request[q].file /\ request'[q].at = place
      /\ \A p \in Requests \ {q} : request'[p] = request[p]
  BY <1>1 DEF TypeOK, Request
<1>3. Locked(q)'
  BY <1>1, <1>2 DEF Locked
<1>4. \A p \in Requests \ {q} : request[p].at # "idle" => request[p].file # request[q].file
  BY <1>1 DEF Inv, Locked
<1>5. \A p \in Requests \ {q} : Locked(p)' /\ Steady(p)'
  BY <1>2, <1>4, Frame
<1> QED BY <1>3, <1>5

(* Go is a Decide that changes neither the status nor the answer. *)
LEMMA GoDecides ==
    ASSUME TypeOK, NEW q \in Requests, NEW place, Go(q, place)
    PROVE  /\ request[q].new \in Optional(Status) /\ request[q].answer \in Optional(Answers)
           /\ Decide(q, place, request[q].new, request[q].answer)
<1>1. request[q] \in Request
  BY DEF TypeOK
<1> DEFINE r == request[q]
<1>2. [r EXCEPT !.at = place] = [r EXCEPT !.at = place, !.new = r.new, !.answer = r.answer]
  BY <1>1 DEF Request
<1>3. request' = [request EXCEPT ![q] = [r EXCEPT !.at = place]]
  BY DEF Go
<1>4. request' = [request EXCEPT ![q] = [r EXCEPT !.at = place, !.new = r.new, !.answer = r.answer]]
  BY <1>2, <1>3, Zenon
<1>5. r.new \in Optional(Status) /\ r.answer \in Optional(Answers)
  BY <1>1 DEF Request
<1> QED BY <1>4, <1>5 DEF Decide

(* A step of a request under way keeps the invariant if what it learns is  *)
(* true and the object it leaves is one its row allows.                    *)
LEMMA Deciding ==
    ASSUME Inv, NEW q \in Requests, ~At(q, "idle"), NEW place \in Places \ {"idle"},
           NEW new \in Optional(Status), NEW answer \in Optional(Answers),
           Decide(q, place, new, answer), UNCHANGED <<row, holder>>,
           NEW content \in Optional(Contents), NEW f, f = request[q].file,
           object' = [object EXCEPT ![f] = content],
           staging' \in [Files -> Optional(Contents)], url' \in [Files -> BOOLEAN],
           age' = age, completed' \in [Files -> BOOLEAN], removed' \in [Files -> BOOLEAN],
           \A g \in Files \ {f} : removed'[g] = removed[g],
           row[f] = "AVAILABLE" => content = "match" \/ removed'[f],
           row[f] = "DELETED" => content = NULL,
           Steady(q)'
    PROVE  Inv'
<1>1. TypeOK /\ Locked(q) /\ f \in Files
  BY DEF Inv, At, Locked
<1>2. request' \in [Requests -> Request]
  <2>1. request[q] \in Request
    BY <1>1 DEF TypeOK
  <2>2. [request[q] EXCEPT !.at = place, !.new = new, !.answer = answer] \in Request
    BY <2>1 DEF Request
  <2> QED BY <1>1, <2>2 DEF Decide, TypeOK
<1>3. \A p \in Requests : request'[p].file = request[p].file
  BY <1>1 DEF Decide, TypeOK, Request
<1>4. TypeOK'
  <2>1. \A g \in Files, p \in Requests : holder'[g] = p => request'[p].file = g
    BY <1>1, <1>3 DEF TypeOK
  <2> QED BY <1>1, <1>2, <2>1 DEF TypeOK
<1>5. \A g \in Files \ {f} : object'[g] = object[g]
  BY <1>1 DEF TypeOK
<1>6. \A p \in Requests : Locked(p)' /\ Steady(p)'
  BY <1>4, <1>5, Going DEF Decide
<1>7. object'[f] = content /\ AvailableStored /\ DeletedGone
  BY <1>1 DEF Inv, TypeOK
<1>8. AvailableStored' /\ DeletedGone'
  BY <1>5, <1>7 DEF AvailableStored, DeletedGone
<1> QED BY <1>4, <1>6, <1>8 DEF Inv

(* A transaction that ends gives up its lock; its row is what it decided.  *)
LEMMA Ending ==
    ASSUME Inv, NEW q \in Requests, ~At(q, "idle"),
           request' = [request EXCEPT ![q] = Idle], Unlock(q),
           UNCHANGED <<bucket, url, age, history>>,
           \/ UNCHANGED row
           \/ /\ At(q, "commit") /\ request[q].new # NULL
              /\ row' = [row EXCEPT ![request[q].file] = request[q].new]
    PROVE  Inv'
<1> DEFINE f == request[q].file
<1> USE NullAssumption
<1>1. TypeOK /\ Locked(q) /\ Steady(q) /\ f \in Files /\ request[q].at # "idle"
  BY DEF Inv, At, Locked
<1>2. Idle \in Request
  BY DEF Idle, Request, Optional, Places
<1>3. /\ request'[q] = Idle /\ \A p \in Requests \ {q} : request'[p] = request[p]
      /\ request' \in [Requests -> Request]
  BY <1>1, <1>2 DEF TypeOK
<1>4. /\ \A g \in Files : holder'[g] = IF holder[g] = q THEN NULL ELSE holder[g]
      /\ holder' \in [Files -> Optional(Requests)]
  BY <1>1 DEF Unlock, TypeOK, Optional
<1>5. row' \in [Files -> Optional(Status)] /\ \A g \in Files \ {f} : row'[g] = row[g]
  <2>1. request[q].new \in Optional(Status)
    BY <1>1 DEF TypeOK, Request
  <2> QED BY <1>1, <2>1 DEF TypeOK
<1>6. TypeOK'
  <2>1. \A g \in Files, p \in Requests : holder'[g] = p => request'[p].file = g
    BY <1>1, <1>3, <1>4 DEF TypeOK, Optional
  <2> QED BY <1>1, <1>3, <1>4, <1>5, <2>1 DEF TypeOK, bucket, history
<1>7. Locked(q)' /\ Steady(q)'
  BY <1>3 DEF Locked, Steady, Idle
<1>8. \A p \in Requests \ {q} : request[p].at # "idle" => request[p].file # f
  BY <1>1 DEF Inv, Locked
<1>9. \A p \in Requests \ {q} : Locked(p)' /\ Steady(p)'
  <2>1. \A g \in Files \ {f} : /\ row'[g] = row[g] /\ object'[g] = object[g]
                               /\ holder[g] # q => holder'[g] = holder[g]
    BY <1>4, <1>5 DEF bucket
  <2> QED BY <1>3, <1>8, <2>1, Frame
<1>10. AvailableStored' /\ DeletedGone'
  <2>1. AvailableStored /\ DeletedGone /\ object' = object /\ removed' = removed
    BY DEF Inv, bucket, history
  <2>2. row'[f] = row[f] \/ row'[f] = request[q].new
    BY <1>1 DEF TypeOK
  <2>3. /\ row'[f] = "AVAILABLE" => object[f] = "match" \/ removed[f]
        /\ row'[f] = "DELETED" => object[f] = NULL
    BY <1>1, <2>1, <2>2 DEF Steady, AvailableStored, DeletedGone
  <2> QED BY <1>5, <2>1, <2>3 DEF AvailableStored, DeletedGone
<1> QED BY <1>6, <1>7, <1>9, <1>10 DEF Inv

(* The store acts on its own: no row, lock, canonical object or request.   *)
LEMMA Outside ==
    ASSUME Inv, UNCHANGED <<row, holder, object, request, removed>>, TypeOK'
    PROVE  Inv'
<1>1. \A q \in Requests : Locked(q)' /\ Steady(q)'
  BY DEF Inv, Locked, Steady
<1> QED BY <1>1 DEF Inv, AvailableStored, DeletedGone

LEMMA InitInv == Init => Inv
<1> USE NullAssumption
<1> SUFFICES ASSUME Init PROVE Inv
  OBVIOUS
<1>1. Idle \in Request
  BY DEF Idle, Request, Optional, Places
<1>2. TypeOK
  BY <1>1 DEF Init, TypeOK, Optional
<1>3. \A q \in Requests : Locked(q) /\ Steady(q)
  BY DEF Init, Locked, Steady, Idle
<1>4. AvailableStored /\ DeletedGone
  BY DEF Init, AvailableStored, DeletedGone, Status
<1> QED BY <1>2, <1>3, <1>4 DEF Inv

-----------------------------------------------------------------------------
(* The operations, each an opening, a deciding or an ending. *)
LEMMA InitiateInv ==
    ASSUME Inv, NEW q \in Requests, NEW f \in Files, Initiate(q, f)
    PROVE  Inv'
<1> USE NullAssumption
<1>1. request'[q] = [file |-> f, at |-> "respond", new |-> "PENDING_UPLOAD",
                     answer |-> "initiated"]
  BY DEF Initiate, Open, Inv, TypeOK
<1>2. Steady(q)'
  BY <1>1 DEF Initiate, Steady, Completing, Deleting
<1>3. "respond" \in Places \ {"idle"} /\ "PENDING_UPLOAD" \in Optional(Status)
      /\ "initiated" \in Optional(Answers)
  BY DEF Places, Optional, Status, Answers
<1> QED BY <1>2, <1>3, Opening DEF Initiate

LEMMA CompleteInv ==
    ASSUME Inv, NEW q \in Requests, NEW f \in Files, Complete(q, f)
    PROVE  Inv'
<1> USE NullAssumption
<1>1. PICK place \in Places \ {"idle"}, new \in Optional(Status), answer \in Optional(Answers) :
         /\ Open(q, f, place, new, answer)
         /\ place \in Completing => row[f] = "PENDING_UPLOAD"
         /\ place # "finish"
         /\ new \in {NULL, "FAILED"} /\ place \notin Deleting
         /\ new = "FAILED" => place = "drop_upload" /\ row[f] = "PENDING_UPLOAD"
         /\ place \in {"drop_upload", "drop_object"} => new = "FAILED"
  BY DEF Complete, Places, Optional, Status, Answers, Completing, Deleting
<1>2. request'[q] = [file |-> f, at |-> place, new |-> new, answer |-> answer]
  BY <1>1 DEF Open, Inv, TypeOK
<1>3. Steady(q)'
  BY <1>1, <1>2 DEF Complete, Steady, Status, Deleting
<1> QED BY <1>1, <1>3, Opening DEF Complete, Lock

LEMMA DeleteInv ==
    ASSUME Inv, NEW q \in Requests, NEW f \in Files, Delete(q, f)
    PROVE  Inv'
<1> USE NullAssumption
<1>1. PICK place \in Places \ {"idle"}, answer \in Optional(Answers) :
         /\ Open(q, f, place, NULL, answer)
         /\ place \in {"respond", "delete_object"}
         /\ place = "delete_object" => row[f] \notin {NULL, "DELETED"}
  BY DEF Delete, Places, Optional, Answers
<1>2. request'[q] = [file |-> f, at |-> place, new |-> NULL, answer |-> answer]
  BY <1>1 DEF Open, Inv, TypeOK
<1>3. Steady(q)'
  BY <1>1, <1>2 DEF Delete, Steady, Status, Completing, Deleting
<1>4. NULL \in Optional(Status)
  BY DEF Optional
<1> QED BY <1>1, <1>3, <1>4, Opening DEF Delete, Lock

(* A step that only looks at the store. *)
LEMMA Looking ==
    ASSUME Inv, NEW q \in Requests, ~At(q, "idle"), NEW place \in Places \ {"idle"},
           NEW new \in Optional(Status), NEW answer \in Optional(Answers),
           Decide(q, place, new, answer), UNCHANGED <<row, holder, object, age, removed>>,
           staging' \in [Files -> Optional(Contents)], url' \in [Files -> BOOLEAN],
           completed' \in [Files -> BOOLEAN], Steady(q)'
    PROVE  Inv'
<1> DEFINE f == request[q].file
           content == object[f]
<1>1. f \in Files /\ TypeOK /\ AvailableStored /\ DeletedGone
  BY DEF Inv, At, Locked
<1>2. content \in Optional(Contents) /\ object' = [object EXCEPT ![f] = content]
  BY <1>1 DEF TypeOK
<1>3. removed' \in [Files -> BOOLEAN] /\ \A g \in Files \ {f} : removed'[g] = removed[g]
  BY <1>1 DEF TypeOK
<1>4. /\ row[f] = "AVAILABLE" => content = "match" \/ removed'[f]
      /\ row[f] = "DELETED" => content = NULL
  BY <1>1 DEF AvailableStored, DeletedGone
<1> HIDE DEF f, content
<1> QED BY <1>2, <1>3, <1>4, Deciding DEF f

(* What a request under way is and has learnt, for the steps below. *)
LEMMA Under ==
    ASSUME Inv, NEW q \in Requests, ~At(q, "idle")
    PROVE  /\ TypeOK /\ request[q] \in Request /\ request[q].file \in Files
           /\ request[q].at # "idle" /\ Steady(q)
BY DEF Inv, At, Locked, TypeOK

(* The record Decide leaves. *)
LEMMA Decided ==
    ASSUME TypeOK, NEW q \in Requests, NEW place, NEW new, NEW answer,
           Decide(q, place, new, answer)
    PROVE  /\ request'[q].file = request[q].file /\ request'[q].at = place
           /\ request'[q].new = new /\ request'[q].answer = answer
BY DEF Decide, TypeOK, Request

LEMMA HeadUploadInv ==
    ASSUME Inv, NEW q \in Requests, HeadUpload(q)
    PROVE  Inv'
<1> USE NullAssumption
<1> DEFINE f == request[q].file
<1>1. ~At(q, "idle") /\ At(q, "head_upload")
  BY DEF HeadUpload, At
<1>2. /\ TypeOK /\ f \in Files /\ request[q].at = "head_upload"
      /\ row[f] = "PENDING_UPLOAD" /\ request[q].new = NULL
  BY <1>1, Under DEF Steady, At, Completing
<1>3. PICK place \in Places \ {"idle"}, new \in Optional(Status), answer \in Optional(Answers) :
         /\ Decide(q, place, new, answer)
         /\ \/ place \in {"respond", "head_object"} /\ new = NULL
            \/ place = "drop_upload" /\ new = "FAILED"
  BY <1>2, GoDecides DEF HeadUpload, Places, Optional, Status, Answers
<1>4. Steady(q)'
  BY <1>2, <1>3, Decided DEF HeadUpload, bucket, Steady, Completing, Deleting, Status
<1> QED BY <1>1, <1>2, <1>3, <1>4, Looking DEF HeadUpload, bucket, history, TypeOK

LEMMA HeadObjectInv ==
    ASSUME Inv, NEW q \in Requests, HeadObject(q)
    PROVE  Inv'
<1> USE NullAssumption
<1> DEFINE f == request[q].file
<1>1. ~At(q, "idle") /\ At(q, "head_object")
  BY DEF HeadObject, At
<1>2. /\ TypeOK /\ f \in Files /\ request[q].at = "head_object"
      /\ row[f] = "PENDING_UPLOAD" /\ request[q].new = NULL
  BY <1>1, Under DEF Steady, At, Completing
<1>3. PICK place \in Places \ {"idle"}, new \in Optional(Status), answer \in Optional(Answers) :
         /\ Decide(q, place, new, answer)
         /\ \/ place = "copy" /\ new = NULL
            \/ place = "finish" /\ new = NULL /\ object[f] = "match"
            \/ place = "drop_object" /\ new = "FAILED"
  BY <1>2, GoDecides DEF HeadObject, Places, Optional, Status, Answers
<1>4. Steady(q)'
  BY <1>2, <1>3, Decided DEF HeadObject, bucket, Steady, Completing, Deleting, Status
<1> QED BY <1>1, <1>2, <1>3, <1>4, Looking DEF HeadObject, bucket, history, TypeOK

LEMMA CopyInv ==
    ASSUME Inv, NEW q \in Requests, Copy(q)
    PROVE  Inv'
<1> USE NullAssumption
<1> DEFINE f == request[q].file
<1>1. ~At(q, "idle") /\ At(q, "copy")
  BY DEF Copy, At
<1>2. /\ TypeOK /\ f \in Files /\ request[q].at = "copy"
      /\ row[f] = "PENDING_UPLOAD" /\ request[q].new = NULL
  BY <1>1, Under DEF Steady, At, Completing
<1>3. PICK content \in Optional(Contents) : object' = [object EXCEPT ![f] = content]
  BY <1>2 DEF Copy, TypeOK, Contents, Optional
<1>4. PICK answer \in Optional(Answers) : Decide(q, "head_copy", NULL, answer)
  BY <1>2, GoDecides DEF Copy
<1>5. Steady(q)'
  BY <1>2, <1>4, Decided DEF Copy, Steady, Completing, Deleting, Status
<1>6. /\ removed' \in [Files -> BOOLEAN] /\ \A g \in Files \ {f} : removed'[g] = removed[g]
  BY <1>2 DEF Copy, TypeOK
<1>7. "head_copy" \in Places \ {"idle"} /\ NULL \in Optional(Status)
  BY DEF Places, Optional
<1> QED BY <1>1, <1>2, <1>3, <1>4, <1>5, <1>6, <1>7, Deciding DEF Copy, TypeOK

LEMMA HeadCopyInv ==
    ASSUME Inv, NEW q \in Requests, HeadCopy(q)
    PROVE  Inv'
<1> USE NullAssumption
<1> DEFINE f == request[q].file
<1>1. ~At(q, "idle") /\ At(q, "head_copy")
  BY DEF HeadCopy, At
<1>2. /\ TypeOK /\ f \in Files /\ request[q].at = "head_copy"
      /\ row[f] = "PENDING_UPLOAD" /\ request[q].new = NULL
  BY <1>1, Under DEF Steady, At, Completing
<1>3. PICK place \in Places \ {"idle"}, new \in Optional(Status), answer \in Optional(Answers) :
         /\ Decide(q, place, new, answer)
         /\ \/ place = "finish" /\ new = NULL /\ object[f] = "match"
            \/ place = "drop_object" /\ new = "FAILED"
  BY <1>2, GoDecides DEF HeadCopy, Places, Optional, Status, Answers
<1>4. Steady(q)'
  BY <1>2, <1>3, Decided DEF HeadCopy, bucket, Steady, Completing, Deleting, Status
<1> QED BY <1>1, <1>2, <1>3, <1>4, Looking DEF HeadCopy, bucket, history, TypeOK

LEMMA FinishInv ==
    ASSUME Inv, NEW q \in Requests, Finish(q)
    PROVE  Inv'
<1> USE NullAssumption
<1> DEFINE f == request[q].file
<1>1. ~At(q, "idle") /\ At(q, "finish")
  BY DEF Finish, At
<1>2. /\ TypeOK /\ f \in Files /\ row[f] = "PENDING_UPLOAD" /\ object[f] = "match"
  BY <1>1, Under DEF Steady, At, Completing
<1>3. Steady(q)'
  BY <1>2, Decided DEF Finish, Steady, Completing, Deleting, Status
<1>4. staging' \in [Files -> Optional(Contents)]
  BY <1>2 DEF Finish, TypeOK, Optional
<1>5. /\ "respond" \in Places \ {"idle"} /\ "AVAILABLE" \in Optional(Status)
      /\ "available" \in Optional(Answers)
  BY DEF Places, Optional, Status, Answers
<1> QED BY <1>1, <1>2, <1>3, <1>4, <1>5, Looking DEF Finish, history, TypeOK

LEMMA DropInv ==
    ASSUME Inv, NEW q \in Requests, Drop(q)
    PROVE  Inv'
<1> USE NullAssumption
<1> DEFINE f == request[q].file
<1>1. ~At(q, "idle") /\ request[q].at \in {"drop_upload", "drop_object"}
  BY DEF Drop, At
<1>2. /\ TypeOK /\ f \in Files /\ row[f] = "PENDING_UPLOAD" /\ request[q].new = "FAILED"
  BY <1>1, Under DEF Steady, Completing
<1>3. PICK answer \in Optional(Answers) : Decide(q, "respond", "FAILED", answer)
  BY <1>2, GoDecides DEF Drop
<1>4. PICK content \in Optional(Contents) : object' = [object EXCEPT ![f] = content]
  <2>1. CASE object' = [object EXCEPT ![f] = NULL]
    BY <2>1 DEF Optional
  <2>2. CASE object' = object
    <3>1. object[f] \in Optional(Contents) /\ object' = [object EXCEPT ![f] = object[f]]
      BY <1>2, <2>2 DEF TypeOK
    <3> QED BY <3>1
  <2> QED BY <2>1, <2>2 DEF Drop
<1>5. Steady(q)'
  BY <1>2, <1>3, Decided DEF Drop, Steady, Completing, Deleting, Status
<1>6. staging' \in [Files -> Optional(Contents)]
  BY <1>2 DEF Drop, TypeOK, Optional
<1>7. "respond" \in Places \ {"idle"} /\ "FAILED" \in Optional(Status)
  BY DEF Places, Optional, Status
<1> QED BY <1>1, <1>2, <1>3, <1>4, <1>5, <1>6, <1>7, Deciding DEF Drop, history, TypeOK

LEMMA DeleteObjectInv ==
    ASSUME Inv, NEW q \in Requests, DeleteObject(q)
    PROVE  Inv'
<1> USE NullAssumption
<1> DEFINE f == request[q].file
<1>1. ~At(q, "idle") /\ At(q, "delete_object")
  BY DEF DeleteObject, At
<1>2. /\ TypeOK /\ f \in Files /\ row[f] \notin {NULL, "DELETED"} /\ request[q].new = NULL
  BY <1>1, Under DEF Steady, At, Deleting
<1>3. PICK answer \in Optional(Answers) : Decide(q, "delete_upload", NULL, answer)
  BY <1>2, GoDecides DEF DeleteObject
<1>4. Steady(q)'
  BY <1>2, <1>3, Decided DEF DeleteObject, Steady, Completing, Deleting, Status, TypeOK
<1>5. /\ removed' \in [Files -> BOOLEAN] /\ removed'[f]
      /\ \A g \in Files \ {f} : removed'[g] = removed[g]
  BY <1>2 DEF DeleteObject, TypeOK
<1>6. "delete_upload" \in Places \ {"idle"} /\ NULL \in Optional(Status)
      /\ NULL \in Optional(Contents)
  BY DEF Places, Optional
<1> QED BY <1>1, <1>2, <1>3, <1>4, <1>5, <1>6, Deciding DEF DeleteObject, TypeOK

LEMMA DeleteUploadInv ==
    ASSUME Inv, NEW q \in Requests, DeleteUpload(q)
    PROVE  Inv'
<1> USE NullAssumption
<1> DEFINE f == request[q].file
<1>1. ~At(q, "idle") /\ At(q, "delete_upload")
  BY DEF DeleteUpload, At
<1>2. /\ TypeOK /\ f \in Files /\ row[f] \notin {NULL, "DELETED"} /\ object[f] = NULL
  BY <1>1, Under DEF Steady, At, Deleting
<1>3. Steady(q)'
  BY <1>2, Decided DEF DeleteUpload, Steady, Completing, Deleting, Status
<1>4. staging' \in [Files -> Optional(Contents)]
  BY <1>2 DEF DeleteUpload, TypeOK, Optional
<1>5. /\ "respond" \in Places \ {"idle"} /\ "DELETED" \in Optional(Status)
      /\ "deleted" \in Optional(Answers)
  BY DEF Places, Optional, Status, Answers
<1> QED BY <1>1, <1>2, <1>3, <1>4, <1>5, Looking DEF DeleteUpload, history, TypeOK

LEMMA RespondInv ==
    ASSUME Inv, NEW q \in Requests, Respond(q)
    PROVE  Inv'
<1> USE NullAssumption
<1> DEFINE f == request[q].file
           new == request[q].new
<1>1. ~At(q, "idle") /\ request[q].at = "respond"
  BY DEF Respond, At
<1>2. TypeOK /\ f \in Files /\ Steady(q) /\ new \in Optional(Status)
  BY <1>1, Under DEF Request
<1>3. PICK answer \in Optional(Answers) : Decide(q, "commit", new, answer)
  BY <1>2, GoDecides DEF Respond
<1>4. Steady(q)'
  BY <1>1, <1>2, <1>3, Decided DEF Respond, bucket, Steady, Completing, Deleting
<1>5. url' \in [Files -> BOOLEAN] /\ completed' \in [Files -> BOOLEAN]
  BY <1>2 DEF Respond, TypeOK
<1>6. "commit" \in Places \ {"idle"}
  BY DEF Places
<1> QED BY <1>1, <1>2, <1>3, <1>4, <1>5, <1>6, Looking DEF Respond, bucket, TypeOK

(* Every step of the system. *)
LEMMA StepInv == Inv /\ [Next]_vars => Inv'
<1> SUFFICES ASSUME Inv, [Next]_vars PROVE Inv'
  OBVIOUS
<1>1. ASSUME NEW q \in Requests, Commit(q) PROVE Inv'
  BY <1>1, Ending DEF Commit, At
<1>2. ASSUME NEW q \in Requests, Rollback(q) PROVE Inv'
  BY <1>2, Ending DEF Rollback
<1>3. ASSUME NEW f \in Files, NEW content \in Contents, Put(f, content) PROVE Inv'
  <2>1. TypeOK'
    BY <1>3 DEF Inv, Put, TypeOK, history, Optional
  <2> QED BY <1>3, <2>1, Outside DEF Put, history
<1>4. ASSUME NEW f \in Files, Clean(f) PROVE Inv'
  <2>1. TypeOK'
    BY <1>4 DEF Inv, Clean, TypeOK, history, Optional
  <2> QED BY <1>4, <2>1, Outside DEF Clean, history
<1>5. ASSUME NEW f \in Files, Expire(f) PROVE Inv'
  <2>1. TypeOK'
    BY <1>5 DEF Inv, Expire, TypeOK, bucket, history
  <2> QED BY <1>5, <2>1, Outside DEF Expire, bucket, history
<1>6. CASE UNCHANGED vars
  <2>1. TypeOK'
    BY <1>6 DEF Inv, TypeOK, vars, bucket, history
  <2> QED BY <1>6, <2>1, Outside DEF vars, bucket, history
<1> QED BY <1>1, <1>2, <1>3, <1>4, <1>5, <1>6, InitiateInv, CompleteInv, DeleteInv,
        HeadUploadInv, HeadObjectInv, CopyInv, HeadCopyInv, FinishInv, DropInv,
        DeleteObjectInv, DeleteUploadInv, RespondInv DEF Next

-----------------------------------------------------------------------------
(* Inv holds in every behaviour of the file boundary. *)
THEOREM Invariance == Spec => []Inv
BY InitInv, StepInv, PTL DEF Spec

(* The variables keep their types and every row lock is its request's. *)
THEOREM TypeCorrect == Spec => []TypeOK
<1>1. Inv => TypeOK
  BY DEF Inv
<1> QED BY <1>1, Invariance, PTL

(* An AVAILABLE row has its verified object at the canonical key unless a  *)
(* deletion has emptied it: complete_upload, delete and their rollbacks.   *)
THEOREM NothingPromisedInVain == Spec => []AvailableStored
<1>1. Inv => AvailableStored
  BY DEF Inv
<1> QED BY <1>1, Invariance, PTL

(* A deleted file's content is gone and nothing brings it back: the row    *)
(* lock that complete_upload and delete share.                             *)
THEOREM DeletionIsFinal == Spec => []DeletedGone
<1>1. Inv => DeletedGone
  BY DEF Inv
<1> QED BY <1>1, Invariance, PTL

(* A committed status is only ever followed by DELETED: what a transaction *)
(* read under the lock still holds when it commits.                        *)
THEOREM FilesDecidedOnce == Spec => DecidedOnce
<1> USE NullAssumption
<1> DEFINE Once == \A f \in Files :
                      /\ row[f] = "DELETED" => row'[f] = "DELETED"
                      /\ row[f] \in {"AVAILABLE", "FAILED"} => row'[f] \in {row[f], "DELETED"}
<1>1. ASSUME Inv, NEW q \in Requests, Commit(q) PROVE Once
  <2>1. TypeOK /\ request[q].file \in Files /\ Steady(q) /\ request[q].at # "idle"
        /\ request[q].new \in Optional(Status)
    BY <1>1, Under DEF Commit, At, Request
  <2> QED BY <1>1, <2>1 DEF Commit, Steady, TypeOK, Optional, Status
<1>2. ASSUME [Next]_vars, \A q \in Requests : ~Commit(q) PROVE UNCHANGED row
  BY <1>2 DEF Next, vars, Initiate, Complete, Delete, HeadUpload, HeadObject, Copy, HeadCopy,
     Finish, Drop, DeleteObject, DeleteUpload, Respond, Rollback, Put, Clean, Expire
<1>3. Inv /\ [Next]_vars => [Once]_row
  BY <1>1, <1>2
<1> QED BY <1>3, Invariance, PTL DEF Spec, DecidedOnce
=============================================================================
