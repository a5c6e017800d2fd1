---------------------------- MODULE SearchScreen ----------------------------
(***************************************************************************)
(* What the search screen promises, without tasks, threads and requests:   *)
(* each activity instance has its own screen, its searches are answered on *)
(* it one at a time in the order they were made, each by its own stock or  *)
(* by the error message.                                                   *)
(***************************************************************************)
EXTENDS Sequences

CONSTANTS Inst, Symbol

VARIABLES pending, screen

Init ==
  /\ pending = [i \in Inst |-> << >>]
  /\ screen = [i \in Inst |-> "blank"]

(* The user searches for s on the screen of instance i. *)
Search(i, s) ==
  /\ pending' = [pending EXCEPT ![i] = Append(@, s)]
  /\ UNCHANGED screen

(* The oldest search under way on that screen is answered. *)
Answer(i) ==
  /\ pending[i] # << >>
  /\ \E d \in {Head(pending[i]), "error"} : screen' = [screen EXCEPT ![i] = d]
  /\ pending' = [pending EXCEPT ![i] = Tail(@)]

Next == \E i \in Inst : (\E s \in Symbol : Search(i, s)) \/ Answer(i)

Spec == Init /\ [][Next]_<<pending, screen>>
=============================================================================
