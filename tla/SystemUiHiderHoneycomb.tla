----------------------- MODULE SystemUiHiderHoneycomb -----------------------
(***************************************************************************)
(* SystemUiHiderHoneycomb, the implementation for API 11 and later.        *)
(* hide() and show() only set the flags of the anchor view; the framework  *)
(* posts a report of a change, which is handled later, when the flags may  *)
(* have changed again, and the report updates mVisible.  The user can      *)
(* bring the bars back at any time.  View and WindowManager are library    *)
(* code, modelled from this use.                                           *)
(***************************************************************************)
EXTENDS Naturals, Sequences, SequencesExt

CONSTANTS
  FlagSets,   \* the flags a client may pass to getInstance
  MaxReports  \* bound: reports posted and not yet handled

FLAG_FULLSCREEN == {2}
FLAG_HIDE_NAVIGATION == FLAG_FULLSCREEN \cup {4}

VARIABLES
  preJB,       \* SDK_INT < JELLY_BEAN, of the device
  mFlags,
  isSetup,     \* setup() has been called
  vis,         \* the view's system UI visibility flags
  reported,    \* the flags of the last report that was handled
  posted,      \* the reports on their way, oldest first: the flags in each
  fullscreen,  \* window flag FULLSCREEN
  actionBar,   \* the action bar is shown
  mVisible,
  listener,    \* a client listener is registered
  told,        \* its last argument
  kept         \* history: the last call was hide(), it overtook no report of
               \* visible bars, and the user has left the bars alone since

vars == <<preJB, mFlags, isSetup, vis, reported, posted, fullscreen, actionBar, mVisible,
          listener, told, kept>>

-----------------------------------------------------------------------------
(* The constructor. *)

Has(flag) == mFlags \cap flag # {}

mShowFlags ==
  (IF Has(FLAG_FULLSCREEN) THEN {"LAYOUT_FULLSCREEN"} ELSE {}) \cup
  (IF Has(FLAG_HIDE_NAVIGATION) THEN {"LAYOUT_HIDE_NAVIGATION"} ELSE {})

mHideFlags ==
  {"LOW_PROFILE"} \cup mShowFlags \cup
  (IF Has(FLAG_FULLSCREEN) THEN {"FULLSCREEN"} ELSE {}) \cup
  (IF Has(FLAG_HIDE_NAVIGATION) THEN {"HIDE_NAVIGATION"} ELSE {})

mTestFlags ==
  {"LOW_PROFILE"} \cup
  (IF Has(FLAG_HIDE_NAVIGATION) THEN {"HIDE_NAVIGATION"} ELSE {})

Init ==
  /\ preJB \in BOOLEAN
  /\ mFlags \in FlagSets
  /\ isSetup = FALSE
  /\ vis = {}
  /\ reported = {}
  /\ posted = << >>
  /\ kept = FALSE
  /\ fullscreen = FALSE
  /\ actionBar = TRUE
  /\ mVisible = TRUE
  /\ listener = FALSE
  /\ told = "nothing"

-----------------------------------------------------------------------------
(* Calls of the client, which has called setup() from onCreate as the      *)
(* abstract class asks.  Its listener does not call toggle().              *)

setup ==
  /\ ~isSetup
  /\ isSetup' = TRUE
  /\ UNCHANGED <<preJB, mFlags, vis, reported, posted, fullscreen, actionBar, mVisible,
                 listener, told, kept>>

setSystemUiVisibility(flags) ==
  /\ isSetup
  /\ vis' = flags
  /\ UNCHANGED <<preJB, mFlags, isSetup, reported, posted, fullscreen, actionBar, mVisible,
                 listener, told>>

(* What a report says of the bars. *)
SaysVisible(report) == report \cap mTestFlags = {}

hide ==
  /\ setSystemUiVisibility(mHideFlags)
  /\ kept' = \A report \in ToSet(posted) : ~SaysVisible(report)
show ==
  /\ setSystemUiVisibility(mShowFlags)
  /\ kept' = FALSE
toggle == IF mVisible THEN hide ELSE show

setOnVisibilityChangeListener(l) ==
  /\ listener' = l
  /\ told' = "nothing"
  /\ UNCHANGED <<preJB, mFlags, isSetup, vis, reported, posted, fullscreen, actionBar,
                 mVisible, kept>>

-----------------------------------------------------------------------------
(* The framework. *)

(* The flags that a report mentions and that the system clears itself. *)
Clearable == {"LOW_PROFILE", "FULLSCREEN", "HIDE_NAVIGATION"}

(* The user touches the screen, or a system bar: the bars come back. *)
SystemShows ==
  /\ vis \cap Clearable # {}
  /\ vis' = vis \ Clearable
  /\ kept' = FALSE
  /\ UNCHANGED <<preJB, mFlags, isSetup, reported, posted, fullscreen, actionBar, mVisible,
                 listener, told>>

(* The flags differ from the last report: a new one is posted. *)
Post ==
  /\ Len(posted) < MaxReports
  /\ vis \cap Clearable # Last(<<reported>> \o posted)
  /\ posted' = Append(posted, vis \cap Clearable)
  /\ UNCHANGED <<preJB, mFlags, isSetup, vis, reported, fullscreen, actionBar, mVisible,
                 listener, told, kept>>

Word(visible) == IF visible THEN "visible" ELSE "hidden"

(* The oldest report is delivered; all of the handler but the assignments  *)
(* to the bars' flags, the action bar and mVisible.                        *)
Deliver(visible) ==
  /\ posted # << >>
  /\ visible = SaysVisible(Head(posted))
  /\ reported' = Head(posted)
  /\ posted' = Tail(posted)
  /\ fullscreen' = IF preJB THEN ~visible ELSE fullscreen
  /\ told' = IF listener THEN Word(visible) ELSE told
  /\ UNCHANGED <<preJB, mFlags, isSetup, listener, kept>>

(* Mutant: mVisible is not cached again when the bars come back. *)
onSystemUiVisibilityChangeOneWay == \E visible \in BOOLEAN :
  /\ Deliver(visible)
  /\ vis' = IF visible THEN mShowFlags ELSE vis
  /\ actionBar' = IF preJB THEN visible ELSE actionBar
  /\ mVisible' = (mVisible /\ visible)

(* Mutant: before Jelly Bean the action bar is hidden and never shown. *)
onSystemUiVisibilityChangeNoBar == \E visible \in BOOLEAN :
  /\ Deliver(visible)
  /\ vis' = IF visible THEN mShowFlags ELSE vis
  /\ actionBar' = (actionBar /\ (preJB => visible))
  /\ mVisible' = visible

(* Mutant: the show flags are set on any report. *)
onSystemUiVisibilityChangeAlwaysShows == \E visible \in BOOLEAN :
  /\ Deliver(visible)
  /\ vis' = mShowFlags
  /\ actionBar' = IF preJB THEN visible ELSE actionBar
  /\ mVisible' = visible

(* The handler of a report.  It tests the flags in the report, not those   *)
(* of the view, and when they hide nothing it sets the show flags: a       *)
(* report older than a hide() undoes it.                                   *)
onSystemUiVisibilityChange == \E visible \in BOOLEAN :
  /\ Deliver(visible)
  /\ vis' = IF visible THEN mShowFlags ELSE vis
  /\ actionBar' = IF preJB THEN visible ELSE actionBar
  /\ mVisible' = visible

Next ==
  \/ setup
  \/ hide
  \/ show
  \/ toggle
  \/ \E l \in BOOLEAN : setOnVisibilityChangeListener(l)
  \/ SystemShows
  \/ Post
  \/ onSystemUiVisibilityChange

-----------------------------------------------------------------------------
Visible == vis \cap mTestFlags = {}

(* When every report has arrived, isVisible(), the client's listener and,  *)
(* before Jelly Bean, the window flag and the action bar agree with the    *)
(* bars, whoever moved them and however old the reports were.              *)
SettledAgrees ==
  posted = << >> /\ vis \cap Clearable = reported =>
    /\ mVisible = Visible
    /\ told # "nothing" => told = Word(Visible)
    /\ preJB => fullscreen = ~Visible /\ actionBar = Visible

(* hide() stays in force until show(), toggle() or the user ends it, if no *)
(* report of visible bars was under way when it was called: a report that  *)
(* was is handled afterwards and shows the bars again.                     *)
HideStays == kept => ~Visible
=============================================================================
