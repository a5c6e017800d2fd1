------------------------------ MODULE SystemUi ------------------------------
(***************************************************************************)
(* SystemUiHider.getInstance() returns a SystemUiHiderHoneycomb on API 11  *)
(* and later and a SystemUiHiderBase before.                               *)
(***************************************************************************)
EXTENDS Naturals, Sequences

CONSTANTS
  FlagSets,    \* the flags a client may pass
  MaxDepth,    \* bound: calls of hide() and show() inside each other
  MaxReports   \* bound: reports posted and not yet handled

ASSUME BoundsAssumption == MaxDepth \in Nat \ {0} /\ MaxReports \in Nat \ {0}
ASSUME FlagAssumption == FlagSets \subseteq SUBSET {1, 2, 4}

VARIABLES
  older,       \* SDK_INT < HONEYCOMB
  preJB, mFlags, isSetup, vis, reported, posted, inScreen, fullscreen, actionBar, mVisible,
  calls, listener, told, kept, nested

baseOnly  == <<inScreen, calls, nested>>
honeyOnly == <<preJB, vis, reported, posted, actionBar, kept>>
uiVars == <<older, baseOnly, honeyOnly, mFlags, isSetup, fullscreen, mVisible, listener, told>>

Base  == INSTANCE SystemUiHiderBase
Honey == INSTANCE SystemUiHiderHoneycomb

getInstance ==
  /\ older \in BOOLEAN
  /\ IF older
       THEN /\ Base!Init
            /\ preJB = TRUE /\ actionBar = TRUE /\ kept = FALSE
            /\ vis = {} /\ reported = {} /\ posted = << >>
       ELSE Honey!Init /\ inScreen = FALSE /\ calls = << >> /\ nested = FALSE

UiNext ==
  \/ older /\ Base!Next /\ UNCHANGED <<older, honeyOnly>>
  \/ ~older /\ Honey!Next /\ UNCHANGED <<older, baseOnly>>

UiSpec == getInstance /\ [][UiNext]_uiVars

(* The framework posts and delivers its reports; the client and the user   *)
(* are free.                                                               *)
Post == ~older /\ Honey!Post /\ UNCHANGED <<older, baseOnly>>
Report == ~older /\ Honey!onSystemUiVisibilityChange /\ UNCHANGED <<older, baseOnly>>
FairSpec == UiSpec /\ WF_uiVars(Post) /\ WF_uiVars(Report)

-----------------------------------------------------------------------------
(* On an older device isVisible(), the listener and the window agree after *)
(* a call that no other ran inside; on API 11 and later isVisible(), the   *)
(* listener, the window and the action bar agree with the bars once every  *)
(* report has arrived.                                                     *)
SettledAgrees == IF older THEN Base!SettledAgrees ELSE Honey!SettledAgrees

(* A hide() that overtakes no report of visible bars stays in force.       *)
HideStays == ~older => Honey!HideStays

(* isVisible() does not stay wrong: the report that corrects it arrives.   *)
EventuallyTrue ==
  ~older => ((mVisible # Honey!Visible) ~> (mVisible = Honey!Visible))
=============================================================================
