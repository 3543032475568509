--------------------------- MODULE SerialExecutor ---------------------------
(***************************************************************************)
(* What a ContextQueue promises its callers, without locks, flags or       *)
(* processor tasks: the operations on one context run one at a time, in    *)
(* the order in which they were submitted, each at most once.              *)
(*                                                                         *)
(* ContextQueue is shown to implement this specification twice: with an    *)
(* operation submitted when its future is pushed onto the VecDeque, and,   *)
(* more strongly, when its caller asks for the queue's mutex.              *)
(***************************************************************************)
EXTENDS Naturals, Sequences

CONSTANTS Calls,  \* the operations, one per schedule_and_wait call
          None    \* "no operation"

VARIABLES pending,  \* submitted operations that have not started, in order
          current,  \* the operation that runs now, or None
          outcome   \* per operation: "pending", "sent" or "closed"

vars == <<pending, current, outcome>>

Init ==
    /\ pending = <<>>
    /\ current = None
    /\ outcome = [c \in Calls |-> "pending"]

Submitted(c) ==
    \/ \E i \in DOMAIN pending : pending[i] = c
    \/ current = c
    \/ outcome[c] # "pending"

Submit(c) ==
    /\ ~Submitted(c)
    /\ pending' = Append(pending, c)
    /\ UNCHANGED <<current, outcome>>

Start ==
    /\ current = None
    /\ pending # <<>>
    /\ current' = Head(pending)
    /\ pending' = Tail(pending)
    /\ UNCHANGED outcome

\* The operation ends with a result, or by panicking.
Finish(how) ==
    /\ current # None
    /\ outcome' = [outcome EXCEPT ![current] = how]
    /\ current' = None
    /\ UNCHANGED pending

\* Its caller gives the operation up before it was accepted.
Withdraw(c) ==
    /\ \E i \in DOMAIN pending :
          /\ pending[i] = c
          /\ pending' = SubSeq(pending, 1, i - 1) \o SubSeq(pending, i + 1, Len(pending))
    /\ UNCHANGED <<current, outcome>>

Next ==
    \/ \E c \in Calls : Submit(c)
    \/ Start
    \/ \E how \in {"sent", "closed"} : Finish(how)

Spec == Init /\ [][Next]_vars

\* The same executor when a caller may still withdraw a submitted operation.
WithdrawableSpec == Init /\ [][Next \/ \E c \in Calls : Withdraw(c)]_vars

\* The executor never rests while it has something to do.
Fairness == WF_vars(Start) /\ WF_vars(\E how \in {"sent", "closed"} : Finish(how))
=============================================================================
