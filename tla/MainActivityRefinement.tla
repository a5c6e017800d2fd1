----------------------- MODULE MainActivityRefinement -----------------------
(* The Android client implements the abstract search screen. *)
EXTENDS MainActivity

(* The tasks under way, oldest first: of results that wait for             *)
(* onPostExecute, in doInBackground, in the queue.                         *)
PostedTasks(results) == [k \in DOMAIN results |-> results[k].task]
RunningTasks(runs) == IF runs = {} THEN << >> ELSE <<(CHOOSE r \in runs : TRUE).task>>
UnderWay == PostedTasks(posted) \o RunningTasks(running) \o queue

(* What instance i searches for, by the first n of tasks. *)
Heads(tasks, i) ==
  LET heads[n \in 0 .. Len(tasks)] ==
        IF n = 0 THEN << >>
        ELSE IF DataOf(tasks[n], i) THEN Append(heads[n - 1], tasks[n].arg.head)
             ELSE heads[n - 1]
  IN  heads

(* The searches of instance i in tasks, in their order. *)
SearchesIn(tasks, i) == Heads(tasks, i)[Len(tasks)]

(* What the panels of instance i show. *)
Screen(i) == CASE ui[i].error  -> "error"
               [] ui[i].result -> ui[i].shown.sym
               [] OTHER        -> "blank"

Searches == [i \in Inst |-> SearchesIn(UnderWay, i)]
Screens  == [i \in Inst |-> Screen(i)]

Abstract == INSTANCE SearchScreen WITH pending <- Searches, screen <- Screens

(* Tasks, threads, the shared static field, suggestions, charts and        *)
(* rotations hidden, the client is the abstract search screen: each        *)
(* search is answered on its own screen, in order, by its own stock or by  *)
(* the error message.                                                      *)
RefinesSearchScreen == Abstract!Spec
=============================================================================
