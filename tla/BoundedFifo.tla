---------------------------- MODULE BoundedFifo ----------------------------
(***************************************************************************)
(* What the directional coordinator promises, without its maps, owners,    *)
(* goroutines and channel: a bounded FIFO in front of a fixed number of     *)
(* slots.  A job is admitted when the FIFO has room, starts only from its   *)
(* head and only when a slot is free, holds its slot until its run has      *)
(* ended, and gets one outcome, for good.                                   *)
(***************************************************************************)
EXTENDS Naturals, Sequences, FiniteSets

CONSTANTS Ids, Slots, Capacity

VARIABLES
  waiting,  \* the FIFO
  busy,     \* jobs holding a slot
  fate      \* "new", "pending", or the job's outcome

vars == <<waiting, busy, fate>>

Outcomes == {"ready", "failed", "cancelled"}

Init ==
  /\ waiting = <<>> /\ busy = {}
  /\ fate = [j \in Ids |-> "new"]

Admit(j) ==
  /\ fate[j] = "new" /\ Len(waiting) < Capacity
  /\ waiting' = Append(waiting, j)
  /\ fate' = [fate EXCEPT ![j] = "pending"]
  /\ UNCHANGED busy

\* The result is already there.
Serve(j) ==
  /\ fate[j] = "new"
  /\ fate' = [fate EXCEPT ![j] = "ready"]
  /\ UNCHANGED <<waiting, busy>>

Begin ==
  /\ waiting # <<>> /\ Cardinality(busy) < Slots
  /\ busy' = busy \cup {Head(waiting)}
  /\ waiting' = Tail(waiting)
  /\ UNCHANGED fate

\* A running job is cancelled; its slot is not free yet.
Abort(j) ==
  /\ j \in busy /\ fate[j] = "pending"
  /\ fate' = [fate EXCEPT ![j] = "cancelled"]
  /\ UNCHANGED <<waiting, busy>>

End(j) ==
  /\ j \in busy
  /\ busy' = busy \ {j}
  /\ \/ fate[j] = "pending" /\ \E f \in Outcomes : fate' = [fate EXCEPT ![j] = f]
     \/ fate[j] # "pending" /\ UNCHANGED fate
  /\ UNCHANGED waiting

Withdraw(i) ==
  /\ i \in DOMAIN waiting
  /\ waiting' = SubSeq(waiting, 1, i - 1) \o SubSeq(waiting, i + 1, Len(waiting))
  /\ fate' = [fate EXCEPT ![waiting[i]] = "cancelled"]
  /\ UNCHANGED busy

\* The service stops: everything that waits is cancelled.
Flush ==
  /\ waiting # <<>>
  /\ waiting' = <<>>
  /\ fate' = [j \in Ids |-> IF \E i \in DOMAIN waiting : waiting[i] = j
                            THEN "cancelled" ELSE fate[j]]
  /\ UNCHANGED busy

Next ==
  \/ \E j \in Ids : Admit(j) \/ Serve(j) \/ Abort(j) \/ End(j)
  \/ Begin \/ Flush
  \/ \E i \in DOMAIN waiting : Withdraw(i)

Spec == Init /\ [][Next]_vars
=============================================================================
