------------------------- MODULE SystemUiHiderBase --------------------------
(***************************************************************************)
(* SystemUiHiderBase, the implementation for devices before Honeycomb.     *)
(* hide() and show() call the client's listener before they assign         *)
(* mVisible; a call made by the listener runs in between.                  *)
(***************************************************************************)
EXTENDS Naturals, Sequences

CONSTANTS
  FlagSets,   \* the flags a client may pass to getInstance
  MaxDepth    \* bound: calls of hide() and show() inside each other

(* The bits of mFlags.  FLAG_HIDE_NAVIGATION contains FLAG_FULLSCREEN. *)
FLAG_LAYOUT_IN_SCREEN_OLDER_DEVICES == {1}
FLAG_FULLSCREEN == {2}
FLAG_HIDE_NAVIGATION == FLAG_FULLSCREEN \cup {4}

VARIABLES
  mFlags,
  isSetup,     \* setup() has been called
  inScreen,    \* window flags LAYOUT_IN_SCREEN and LAYOUT_NO_LIMITS
  fullscreen,  \* window flag FULLSCREEN: the status bar is hidden
  mVisible,
  calls,       \* the calls under way, innermost first: the value each of
               \* them will assign to mVisible
  listener,    \* a client listener is registered
  told,        \* its last argument, "nothing" before the first call
  nested       \* history: the last outermost call had another inside it

vars == <<mFlags, isSetup, inScreen, fullscreen, mVisible, calls, listener, told, nested>>

Word(visible) == IF visible THEN "visible" ELSE "hidden"

Init ==
  /\ mFlags \in FlagSets
  /\ isSetup = FALSE
  /\ inScreen = FALSE
  /\ fullscreen = FALSE
  /\ mVisible = TRUE
  /\ calls = << >>
  /\ listener = FALSE
  /\ told = "nothing"
  /\ nested = FALSE

-----------------------------------------------------------------------------
setup ==
  /\ isSetup' = TRUE
  /\ inScreen' = (inScreen \/ mFlags \cap FLAG_LAYOUT_IN_SCREEN_OLDER_DEVICES = {})
  /\ UNCHANGED <<mFlags, fullscreen, mVisible, calls, listener, told, nested>>

(* Mutant: show() does not clear the window flag. *)
EnterOneWay(visible) ==
  /\ Len(calls) < MaxDepth
  /\ fullscreen' = (fullscreen \/ (mFlags \cap FLAG_FULLSCREEN # {} /\ ~visible))
  /\ told' = IF listener THEN Word(visible) ELSE told
  /\ calls' = <<visible>> \o calls
  /\ nested' = (calls # << >>)
  /\ UNCHANGED <<mFlags, isSetup, inScreen, mVisible, listener>>

(* hide() and show() up to the call of the listener. *)
Enter(visible) ==
  /\ Len(calls) < MaxDepth
  /\ fullscreen' = IF mFlags \cap FLAG_FULLSCREEN # {} THEN ~visible ELSE fullscreen
  /\ told' = IF listener THEN Word(visible) ELSE told
  /\ calls' = <<visible>> \o calls
  /\ nested' = (calls # << >>)
  /\ UNCHANGED <<mFlags, isSetup, inScreen, mVisible, listener>>

hide == Enter(FALSE)
show == Enter(TRUE)
toggle == IF mVisible THEN hide ELSE show

(* The listener returns; mVisible is assigned. *)
Return ==
  /\ calls # << >>
  /\ mVisible' = Head(calls)
  /\ calls' = Tail(calls)
  /\ UNCHANGED <<mFlags, isSetup, inScreen, fullscreen, listener, told, nested>>

(* setOnVisibilityChangeListener(l), the dummy for null. *)
setOnVisibilityChangeListener(l) ==
  /\ listener' = l
  /\ told' = "nothing"
  /\ UNCHANGED <<mFlags, isSetup, inScreen, fullscreen, mVisible, calls, nested>>

Next ==
  \/ setup
  \/ hide
  \/ show
  \/ toggle
  \/ Return
  \/ \E l \in BOOLEAN : setOnVisibilityChangeListener(l)

-----------------------------------------------------------------------------
(* When hide() or show() has returned and no other call ran inside it, the *)
(* listener was told what isVisible() says, and that is the truth if the   *)
(* client asked for full screen: without the flag hide() leaves the window *)
(* alone and still sets mVisible.                                          *)
SettledAgrees ==
  calls = << >> /\ ~nested =>
    /\ told # "nothing" => told = Word(mVisible)
    /\ mFlags \cap FLAG_FULLSCREEN # {} => mVisible = ~fullscreen
=============================================================================
