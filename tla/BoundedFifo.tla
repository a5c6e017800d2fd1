---------------------------- MODULE BoundedFifo -----------------------------
(***************************************************************************)
(* What an apr_queue_t promises to its callers: a FIFO with a capacity.  A *)
(* call that returns APR_SUCCESS has added or removed exactly one element, *)
(* one that returns anything else has changed nothing, APR_EAGAIN and      *)
(* APR_EOF are only returned for the reason their names give.              *)
(***************************************************************************)
EXTENDS Naturals, Sequences

CONSTANTS
  Item,    \* the elements
  Bound    \* the capacity

VARIABLES
  q,           \* the elements, oldest first
  terminated,  \* apr_queue_term has been called
  ret          \* the latest return: operation, status and element

vars == <<q, terminated, ret>>

NoRet == [op |-> "none"]

Init == q = << >> /\ terminated = FALSE /\ ret = NoRet

Push(x) ==
  /\ Len(q) < Bound
  /\ q' = Append(q, x)
  /\ ret' = [op |-> "push", rv |-> "APR_SUCCESS", data |-> x]
  /\ UNCHANGED terminated

Pop ==
  /\ q # << >>
  /\ q' = Tail(q)
  /\ ret' = [op |-> "pop", rv |-> "APR_SUCCESS", data |-> Head(q)]
  /\ UNCHANGED terminated

Fail(op, rv) ==
  /\ rv = "APR_EAGAIN" => IF op = "push" THEN Len(q) = Bound ELSE q = << >>
  /\ rv = "APR_EOF" => terminated
  /\ ret' = [op |-> op, rv |-> rv]
  /\ UNCHANGED <<q, terminated>>

Terminate == terminated' = TRUE /\ UNCHANGED <<q, ret>>

Controlled ==
  /\ ret' = [op |-> "control", rv |-> "APR_SUCCESS"]
  /\ UNCHANGED <<q, terminated>>

Next ==
  \/ \E x \in Item : Push(x)
  \/ Pop
  \/ \E op \in {"push", "pop"}, rv \in {"APR_EAGAIN", "APR_EOF", "APR_EINTR"} : Fail(op, rv)
  \/ Terminate
  \/ Controlled

Spec == Init /\ [][Next]_vars
=============================================================================
