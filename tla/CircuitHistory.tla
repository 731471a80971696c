--------------------------- MODULE CircuitHistory ---------------------------
(***************************************************************************)
(* CircuitBreaker with what an observer remembers of each row, so that the *)
(* transition policy of ai-availability-control.md can be stated: when the *)
(* qualifying failures were recorded, when the circuit last opened, and    *)
(* whether a success has been recorded on it since.                        *)
(***************************************************************************)
EXTENDS CircuitBreaker, Sequences

VARIABLES
    failed,      \* times of the failures recorded since the row last closed
    opened,      \* when the row last opened, NULL if never or long ago
    healed       \* has a success been recorded since it last opened?

history == <<failed, opened, healed>>
hvars == <<row, call, failed, opened, healed>>

HInit ==
    /\ Init
    /\ failed = [k \in Key |-> <<>>]
    /\ opened = [k \in Key |-> NULL]
    /\ healed = [k \in Key |-> FALSE]

(* The observer keeps the FailureThreshold latest failures of a row. *)
Latest(s) == IF Len(s) > FailureThreshold THEN Tail(s) ELSE s

HBeforeCall(c, r) == BeforeCall(c, r) /\ UNCHANGED history

HRecordSuccess(c) ==
    /\ RecordSuccess(c)
    /\ LET ks == Keys(call[c].route) IN
       /\ failed' = [k \in Key |-> IF k \in ks /\ row'[k].state = "CLOSED" THEN <<>>
                                   ELSE failed[k]]
       /\ healed' = [k \in Key |-> healed[k] \/ (k \in ks /\ opened[k] # NULL)]
    /\ UNCHANGED opened

HRecordFailure(c) ==
    /\ RecordFailure(c)
    /\ LET ks == Keys(call[c].route)
           opens(k) == k \in ks /\ row'[k].state = "OPEN" /\ row[k].state # "OPEN"
       IN /\ failed' = [k \in Key |-> IF k \in ks THEN Latest(Append(failed[k], 0))
                                      ELSE failed[k]]
          /\ opened' = [k \in Key |-> IF opens(k) THEN 0 ELSE opened[k]]
          /\ healed' = [k \in Key |-> healed[k] /\ ~opens(k)]

HAbandon(c) == Abandon(c) /\ UNCHANGED history

HTick ==
    /\ Tick
    /\ failed' = [k \in Key |->
         [i \in 1..Len(failed[k]) |-> Earlier(failed[k][i], -FailureWindow - 1)]]
    /\ opened' = [k \in Key |-> IF opened[k] # NULL /\ opened[k] - 1 = -OpenSeconds
                                THEN NULL ELSE Earlier(opened[k], -OpenSeconds)]
    /\ healed' = [k \in Key |-> healed[k] /\ opened'[k] # NULL]

HNext ==
    \/ \E c \in Callers : \/ \E r \in Routes : HBeforeCall(c, r)
                          \/ HRecordSuccess(c)
                          \/ HRecordFailure(c)
                          \/ HAbandon(c)
    \/ HTick

HSpec == HInit /\ [][HNext]_hvars

-----------------------------------------------------------------------------
(* FailureThreshold failures of the row lie within FailureWindow seconds. *)
FailureBurst(k) ==
    /\ Len(failed[k]) = FailureThreshold
    /\ -failed[k][1] <= FailureWindow

(* A closed circuit opens only on a burst: the counter and its window,     *)
(* however answers interleave, never open it on failures that a success or *)
(* the end of the window should have forgotten.                            *)
OpeningJustified ==
    [][\A k \in Key : row[k].state = "CLOSED" /\ row'[k].state = "OPEN" =>
                          FailureBurst(k)']_hvars

=============================================================================
