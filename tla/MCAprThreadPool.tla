-------------------------- MODULE MCAprThreadPool ---------------------------
(***************************************************************************)
(* Values for the constants of AprThreadPool: tasks are numbers, two of    *)
(* them in one priority segment, with two owners.                          *)
(***************************************************************************)
EXTENDS AprThreadPool

MCPriority == [t \in Tasks |-> CASE t = 1 -> 65 [] t = 2 -> 70 [] t = 3 -> 75 [] OTHER -> 0]
MCOwner == [t \in Tasks |-> IF t = 1 THEN "o1" ELSE "o2"]
=============================================================================
