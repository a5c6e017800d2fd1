---------------------------- MODULE NewsActivity ----------------------------
(***************************************************************************)
(* NewsActivity: the list of headlines of one stock.                       *)
(*                                                                         *)
(* The list is filtered by what the user types (setTextFilterEnabled); the *)
(* filter runs on a thread of its own and publishes its result later.  A   *)
(* click stores the position of the row in the field pos and opens a       *)
(* dialog; View in a dialog reads newsh[pos] and newslinks[pos].  A second *)
(* click can be under way before the first dialog takes the input, so that *)
(* dialogs stack.  ListView, ArrayAdapter and AlertDialog are library      *)
(* code, modelled from this use.                                           *)
(***************************************************************************)
EXTENDS Naturals, Sequences, FiniteSets

CONSTANTS
  Count,       \* how many headlines the intent brings
  Matches,     \* sets of headlines that a typed text can match
  MaxDialogs   \* bound: dialogs open at a time

ASSUME CountAssumption == Count \in Nat \ {0} /\ MaxDialogs \in Nat \ {0}

(* Headlines are numbered as in newsh and newslinks. *)
Headline == 1 .. Count
ASSUME MatchesAssumption == Matches \subseteq SUBSET Headline

VARIABLES
  filter,    \* the headlines that match the text typed
  rows,      \* the rows of the list, from top to bottom
  pos,       \* the field pos
  dialogs,   \* the open dialogs, newest first: whose row was clicked, and
             \* whether the list was complete then
  newest,    \* history: no dialog has been closed since the last click
  asked,     \* history: the dialog that View was last chosen in, and
             \* newest at that time
  shown      \* the headline in the toast, and whose link is opened

vars == <<filter, rows, pos, dialogs, newest, asked, shown>>

(* The positions of a complete list are the indices of newsh. *)
AllRows == [i \in Headline |-> i]

(* A filtered list keeps the order: its row i is the matching headline     *)
(* that is the i-th of them.                                               *)
RowsOf(match) ==
  [i \in 1 .. Cardinality(match) |->
     CHOOSE h \in match : Cardinality({k \in match : k <= h}) = i]

Dialog == [of : Headline, complete : BOOLEAN]
NoDialog == [of |-> 0, complete |-> FALSE]

(* onCreate: the adapter starts with every headline; a restored filter     *)
(* text is applied again later.                                            *)
onCreate ==
  /\ rows' = AllRows
  /\ pos' = 0
  /\ dialogs' = << >>
  /\ newest' = FALSE

Init ==
  /\ filter = Headline
  /\ rows = AllRows
  /\ pos = 0
  /\ dialogs = << >>
  /\ newest = FALSE
  /\ asked = [dialog |-> NoDialog, newest |-> FALSE]
  /\ shown = 0

-----------------------------------------------------------------------------
(* A key goes to the list while no dialog is open. *)
Type ==
  /\ dialogs = << >>
  /\ filter' \in Matches
  /\ UNCHANGED <<rows, pos, dialogs, newest, asked, shown>>

(* The filter's thread publishes its latest result. *)
Publish ==
  /\ rows' = RowsOf(filter)
  /\ UNCHANGED <<filter, pos, dialogs, newest, asked, shown>>

Opened(position) ==
  <<[of |-> rows[position], complete |-> rows = AllRows]>> \o dialogs

(* Mutant: the field is only set by the first click. *)
onItemClickFirst(position) ==
  /\ Len(dialogs) < MaxDialogs
  /\ pos' = IF pos = 0 THEN position ELSE pos
  /\ dialogs' = Opened(position)
  /\ newest' = TRUE
  /\ UNCHANGED <<filter, rows, asked, shown>>

onItemClick(position) ==
  /\ Len(dialogs) < MaxDialogs
  /\ pos' = position
  /\ dialogs' = Opened(position)
  /\ newest' = TRUE
  /\ UNCHANGED <<filter, rows, asked, shown>>

(* Mutant: the row is looked up in the adapter when View is chosen; an     *)
(* index the list no longer has is an exception.                           *)
onClickAdapter(which) ==
  /\ dialogs # << >>
  /\ dialogs' = Tail(dialogs)
  /\ newest' = FALSE
  /\ IF which = 0
     THEN /\ asked' = [dialog |-> Head(dialogs), newest |-> newest]
          /\ shown' = IF pos \in DOMAIN rows THEN rows[pos] ELSE Count + 1
     ELSE UNCHANGED <<asked, shown>>
  /\ UNCHANGED <<filter, rows, pos>>

(* A choice in the newest dialog: 0 is View, 1 is Cancel. *)
onClick(which) ==
  /\ dialogs # << >>
  /\ dialogs' = Tail(dialogs)
  /\ newest' = FALSE
  /\ IF which = 0
     THEN /\ asked' = [dialog |-> Head(dialogs), newest |-> newest]
          /\ shown' = pos
     ELSE UNCHANGED <<asked, shown>>
  /\ UNCHANGED <<filter, rows, pos>>

(* The device is turned: a new activity with the same intent.  The dialogs *)
(* go with the old window; the list view restores the filter text.         *)
Recreate == onCreate /\ UNCHANGED <<filter, asked, shown>>

Next ==
  \/ Type
  \/ Publish
  \/ \E position \in DOMAIN rows : onItemClick(position)
  \/ \E which \in {0, 1} : onClick(which)
  \/ Recreate

Spec == Init /\ [][Next]_vars

-----------------------------------------------------------------------------
(* Every variable has its type: pos, a position in a list that may be      *)
(* filtered, is an index of newsh and newslinks whenever a dialog is open, *)
(* and so is what View has read.                                           *)
TypeOK ==
  /\ filter \subseteq Headline
  /\ \E match \in {filter, Headline} \cup Matches : rows = RowsOf(match)
  /\ pos \in 0 .. Count
  /\ dialogs \in Seq(Dialog)
  /\ dialogs # << >> => pos # 0
  /\ newest \in BOOLEAN
  /\ asked \in [dialog : Dialog \cup {NoDialog}, newest : BOOLEAN]
  /\ shown \in 0 .. Count

(* View in the dialog of the last click, made in a complete list, shows    *)
(* and opens the clicked headline: a filter result published while the     *)
(* dialog is open, dialogs below it and a restart before it do not matter. *)
ViewOpensRow ==
  asked.newest /\ asked.dialog.complete => shown = asked.dialog.of

(* "When clicked, show a toast with the TextView text": the toast names    *)
(* the headline whose row was clicked.                                     *)
ToastShowsClicked == shown = asked.dialog.of
=============================================================================
