--------------------------- MODULE AndroidUiProofs ---------------------------
(***************************************************************************)
(* Proofs about two parts of the Android app that share no state.          *)
(*                                                                         *)
(* NewsActivity, for any number of headlines, any texts and any number of  *)
(* stacked dialogs: View opens the row that was clicked.                   *)
(*                                                                         *)
(* The system UI hiders, for any flags and any delays of the reports: the  *)
(* caches agree with the bars whenever nothing is under way, and a hide()  *)
(* that overtakes no report of visible bars stays in force.                *)
(***************************************************************************)
EXTENDS NewsActivity, SystemUi, Integers, FiniteSetTheorems, SequenceTheorems, TLAPS

-----------------------------------------------------------------------------
(* The list of headlines: what a filter leaves of it. *)

(* Headlines up to h that match. *)
UpTo(match, h) == {k \in match : k <= h}

LEMMA UpToFacts ==
  ASSUME NEW match \in SUBSET Headline, NEW h \in match
  PROVE  /\ IsFiniteSet(match) /\ Cardinality(match) \in 0 .. Count
         /\ Cardinality(UpTo(match, h)) \in 1 .. Cardinality(match)
<1>1. IsFiniteSet(Headline) /\ Cardinality(Headline) = Count
  BY FS_Interval, CountAssumption DEF Headline
<1>2. IsFiniteSet(match) /\ Cardinality(match) <= Count
  BY <1>1, FS_Subset
<1>3. Cardinality(match) \in Nat
  BY <1>2, FS_CardinalityType
<1>4. UpTo(match, h) \subseteq match /\ h \in UpTo(match, h)
  BY CountAssumption DEF UpTo, Headline
<1>5. IsFiniteSet(UpTo(match, h)) /\ Cardinality(UpTo(match, h)) <= Cardinality(match)
  BY <1>2, <1>4, FS_Subset
<1>6. Cardinality(UpTo(match, h)) \in Nat /\ Cardinality(UpTo(match, h)) # 0
  BY <1>4, <1>5, FS_CardinalityType, FS_EmptySet
<1>7. Cardinality(match) \in 0 .. Count
  BY <1>2, <1>3, CountAssumption
<1>8. Cardinality(UpTo(match, h)) \in 1 .. Cardinality(match)
  BY <1>3, <1>5, <1>6
<1> QED BY <1>2, <1>7, <1>8

(* A later headline has more matching ones up to it. *)
LEMMA UpToGrows ==
  ASSUME NEW match \in SUBSET Headline, NEW g \in match, NEW h \in match, g < h
  PROVE  Cardinality(UpTo(match, g)) < Cardinality(UpTo(match, h))
<1>1. UpTo(match, g) \subseteq UpTo(match, h) /\ h \in UpTo(match, h) /\ h \notin UpTo(match, g)
  <2>1. \A k \in match : k \in Int
    BY CountAssumption DEF Headline
  <2>2. \A k \in match : k <= g => k <= h
    BY <2>1
  <2>3. h <= h /\ ~(h <= g)
    BY <2>1
  <2> QED BY <2>2, <2>3 DEF UpTo
<1>2. IsFiniteSet(UpTo(match, h))
  BY UpToFacts, FS_Subset DEF UpTo
<1>3. /\ Cardinality(UpTo(match, g)) <= Cardinality(UpTo(match, h))
      /\ Cardinality(UpTo(match, g)) # Cardinality(UpTo(match, h))
  BY <1>1, <1>2, FS_Subset
<1>4. Cardinality(UpTo(match, g)) \in Int /\ Cardinality(UpTo(match, h)) \in Int
  BY UpToFacts
<1> QED BY <1>3, <1>4

(* The filtered list has one row for each matching headline, in the order  *)
(* of the complete list.                                                   *)
LEMMA RowsOfFacts ==
  ASSUME NEW match \in SUBSET Headline
  PROVE  /\ Cardinality(match) \in 0 .. Count
         /\ RowsOf(match) \in [1 .. Cardinality(match) -> match]
         /\ \A h \in match : \E i \in 1 .. Cardinality(match) : RowsOf(match)[i] = h
         /\ \A i, j \in 1 .. Cardinality(match) : i < j => RowsOf(match)[i] < RowsOf(match)[j]
<1> DEFINE n == Cardinality(match)
           rank == [h \in match |-> Cardinality(UpTo(match, h))]
<1>1. IsFiniteSet(match) /\ n \in 0 .. Count
  <2>1. CASE match = {}
    BY <2>1, FS_EmptySet, CountAssumption
  <2>2. CASE match # {}
    BY <2>2, UpToFacts
  <2> QED BY <2>1, <2>2
<1>2. rank \in [match -> 1 .. n]
  BY UpToFacts
<1>3. ASSUME NEW g \in match, NEW h \in match, rank[g] = rank[h] PROVE g = h
  <2>1. Cardinality(UpTo(match, g)) = Cardinality(UpTo(match, h))
    BY <1>3
  <2>2. Cardinality(UpTo(match, g)) \in Int /\ Cardinality(UpTo(match, h)) \in Int
    BY UpToFacts
  <2>3. ~(g < h) /\ ~(h < g)
    BY <2>1, <2>2, UpToGrows
  <2> QED BY <2>3, CountAssumption DEF Headline
<1>4. rank \in Injection(match, 1 .. n)
  BY <1>2, <1>3 DEF Injection, IsInjective
<1>5. IsFiniteSet(1 .. n) /\ Cardinality(1 .. n) = n
  BY <1>1, FS_Interval
<1>6. rank \in Surjection(match, 1 .. n)
  BY <1>1, <1>4, <1>5, FS_Injection
<1>7. \A i \in 1 .. n : \E h \in match : Cardinality(UpTo(match, h)) = i
  BY <1>6 DEF Surjection
<1>8. RowsOf(match) = [i \in 1 .. n |-> CHOOSE h \in match : Cardinality(UpTo(match, h)) = i]
  BY DEF RowsOf, UpTo
<1>9. \A i \in 1 .. n : RowsOf(match)[i] \in match /\ Cardinality(UpTo(match, RowsOf(match)[i])) = i
  BY <1>7, <1>8
<1>10. RowsOf(match) \in [1 .. n -> match]
  BY <1>8, <1>9
<1>11. ASSUME NEW h \in match PROVE \E i \in 1 .. n : RowsOf(match)[i] = h
  <2>1. rank[h] \in 1 .. n /\ rank[h] = Cardinality(UpTo(match, h))
    BY <1>2
  <2>2. RowsOf(match)[rank[h]] \in match /\ rank[RowsOf(match)[rank[h]]] = rank[h]
    BY <1>9, <2>1
  <2> QED BY <1>3, <2>1, <2>2
<1>12. ASSUME NEW i \in 1 .. n, NEW j \in 1 .. n, i < j
       PROVE  RowsOf(match)[i] < RowsOf(match)[j]
  <2> DEFINE g == RowsOf(match)[i]
             h == RowsOf(match)[j]
  <2>1. g \in match /\ h \in match /\ Cardinality(UpTo(match, g)) = i /\ Cardinality(UpTo(match, h)) = j
    BY <1>9
  <2> HIDE DEF g, h
  <2>2. ~(h < g) /\ g # h
    BY <1>1, <1>12, <2>1, UpToGrows
  <2>3. g < h
    BY <2>1, <2>2, CountAssumption DEF Headline
  <2> QED BY <2>3 DEF g, h
<1> QED BY <1>1, <1>10, <1>11, <1>12

(* When everything matches, the list is complete. *)
LEMMA CompleteRows == RowsOf(Headline) = AllRows
<1>1. Cardinality(Headline) = Count
  BY FS_Interval, CountAssumption DEF Headline
<1>2. \A h \in Headline : {k \in Headline : k <= h} = 1 .. h /\ h \in Nat
  BY CountAssumption DEF Headline
<1>3. \A h \in Headline : Cardinality(1 .. h) = h
  BY <1>2, FS_Interval
<1>4. \A i \in Headline : (CHOOSE h \in Headline : Cardinality({k \in Headline : k <= h}) = i) = i
  BY <1>2, <1>3
<1>5. RowsOf(Headline) =
        [i \in Headline |-> CHOOSE h \in Headline : Cardinality({k \in Headline : k <= h}) = i]
  BY <1>1 DEF RowsOf, Headline
<1> QED BY <1>4, <1>5 DEF AllRows

-----------------------------------------------------------------------------
(* A row that can be clicked is a headline, at an index of newsh. *)
LEMMA PositionFacts ==
  ASSUME TypeOK, NEW position \in DOMAIN rows
  PROVE  position \in 1 .. Count /\ rows[position] \in Headline
<1>1. PICK match \in {filter, Headline} \cup Matches : rows = RowsOf(match)
  BY DEF TypeOK
<1>2. match \in SUBSET Headline
  BY <1>1, MatchesAssumption DEF TypeOK
<1>3. Cardinality(match) \in 0 .. Count /\ rows \in [1 .. Cardinality(match) -> match]
  BY <1>1, <1>2, RowsOfFacts
<1>4. position \in 1 .. Cardinality(match) /\ rows[position] \in match
  BY <1>3
<1> QED BY <1>2, <1>3, <1>4, CountAssumption

(* The clicked row goes on top of the open dialogs. *)
LEMMA OpenedFacts ==
  ASSUME TypeOK, NEW position \in DOMAIN rows
  PROVE  /\ Opened(position) \in Seq(Dialog) /\ Opened(position) # << >>
         /\ Head(Opened(position)) = [of |-> rows[position], complete |-> rows = AllRows]
<1> DEFINE d == [of |-> rows[position], complete |-> rows = AllRows]
<1>1. d \in Dialog
  BY PositionFacts DEF Dialog
<1> HIDE DEF d
<1>2. <<d>> \in Seq(Dialog) /\ dialogs \in Seq(Dialog) /\ Len(<<d>>) = 1 /\ <<d>>[1] = d
  BY <1>1 DEF TypeOK
<1>3. /\ <<d>> \o dialogs \in Seq(Dialog)
      /\ Len(<<d>> \o dialogs) = 1 + Len(dialogs) /\ Len(dialogs) \in Nat
      /\ (<<d>> \o dialogs)[1] = d
  <2> DEFINE s == <<d>> \o dialogs
  <2>1. s \in Seq(Dialog) /\ Len(s) = Len(<<d>>) + Len(dialogs) /\ Len(dialogs) \in Nat
    BY <1>2, ConcatProperties, LenProperties
  <2>2. 1 \in 1 .. Len(<<d>>) + Len(dialogs)
    BY <1>2, <2>1
  <2>3. s[1] = IF 1 <= Len(<<d>>) THEN <<d>>[1] ELSE dialogs[1 - Len(<<d>>)]
    BY <1>2, <2>2, ConcatProperties
  <2> QED BY <1>2, <2>1, <2>3
<1> DEFINE s == <<d>> \o dialogs
<1>4. s \in Seq(Dialog) /\ Len(s) # 0 /\ s[1] = d
  BY <1>3
<1> HIDE DEF s
<1>5. s # << >> /\ Head(s) = d
  <2>1. s # << >>
    BY <1>4, EmptySeq
  <2> QED BY <1>4, <2>1, HeadTailProperties
<1> QED BY <1>4, <1>5 DEF s, d, Opened

(* The inductive invariant: the newest dialog, while it is the last click, *)
(* belongs to the row at pos.                                              *)
PosOfNewest ==
  newest => /\ dialogs # << >>
            /\ Head(dialogs).complete => pos = Head(dialogs).of

(* A text that was typed is one of Matches; none was typed at first. *)
FilterTyped == filter \in {Headline} \cup Matches

Inv == TypeOK /\ FilterTyped /\ PosOfNewest /\ ViewOpensRow

LEMMA InitInv == Init => Inv
<1> SUFFICES ASSUME Init PROVE Inv
  OBVIOUS
<1>1. \E match \in {filter, Headline} \cup Matches : rows = RowsOf(match)
  BY CompleteRows DEF Init
<1>2. TypeOK
  <2>1. filter \subseteq Headline /\ pos \in 0 .. Count /\ shown \in 0 .. Count
    <3>1. filter = Headline /\ pos = 0 /\ shown = 0
      BY DEF Init
    <3> QED BY <3>1, CountAssumption
  <2>2. dialogs = << >> /\ dialogs \in Seq(Dialog)
    BY EmptySeq DEF Init
  <2>3. asked \in [dialog : Dialog \cup {NoDialog}, newest : BOOLEAN] /\ newest \in BOOLEAN
    BY DEF Init
  <2> QED BY <1>1, <2>1, <2>2, <2>3 DEF TypeOK
<1>3. FilterTyped /\ PosOfNewest /\ ViewOpensRow
  BY DEF Init, FilterTyped, PosOfNewest, ViewOpensRow
<1> QED BY <1>2, <1>3 DEF Inv

LEMMA TypeStep == ASSUME Inv, Type PROVE Inv'
<1>1. filter' \subseteq Headline
  BY MatchesAssumption DEF Type
<1>2. \E match \in {filter', Headline} \cup Matches : rows' = RowsOf(match)
  <2>1. PICK match \in {filter, Headline} \cup Matches : rows = RowsOf(match)
    BY DEF Inv, TypeOK
  <2>2. match \in {Headline} \cup Matches
    BY <2>1 DEF Inv, FilterTyped
  <2>3. rows' = RowsOf(match)
    BY <2>1 DEF Type
  <2> QED BY <2>2, <2>3
<1> QED BY <1>1, <1>2 DEF Inv, TypeOK, Type, FilterTyped, PosOfNewest, ViewOpensRow

LEMMA NextInv == Inv /\ [Next]_vars => Inv'
<1> SUFFICES ASSUME Inv, [Next]_vars PROVE Inv'
  OBVIOUS
<1>1. CASE UNCHANGED vars
  BY <1>1 DEF vars, Inv, FilterTyped, TypeOK, PosOfNewest, ViewOpensRow
<1>2. CASE Type
  BY <1>2, TypeStep
<1>3. CASE Publish
  BY <1>3 DEF Publish, Inv, FilterTyped, TypeOK, PosOfNewest, ViewOpensRow
<1>4. ASSUME NEW position \in DOMAIN rows, onItemClick(position)
      PROVE  Inv'
  <2>1. /\ pos' = position /\ dialogs' = Opened(position) /\ newest' = TRUE
        /\ UNCHANGED <<filter, rows, asked, shown>>
    BY <1>4 DEF onItemClick
  <2>2. position \in 1 .. Count /\ rows[position] \in Headline
    BY <1>4, PositionFacts DEF Inv
  <2>3. /\ dialogs' \in Seq(Dialog) /\ dialogs' # << >>
        /\ Head(dialogs') = [of |-> rows[position], complete |-> rows = AllRows]
    BY <1>4, <2>1, OpenedFacts DEF Inv
  <2>4. pos' \in 0 .. Count /\ pos' # 0
    BY <2>1, <2>2, CountAssumption
  <2>5. TypeOK'
    <3>1. \E match \in {filter', Headline} \cup Matches : rows' = RowsOf(match)
      BY <2>1 DEF TypeOK, Inv
    <3>2. /\ filter' \subseteq Headline /\ newest' \in BOOLEAN /\ shown' \in 0 .. Count
          /\ asked' \in [dialog : Dialog \cup {NoDialog}, newest : BOOLEAN]
      BY <2>1 DEF TypeOK, Inv
    <3> QED BY <2>3, <2>4, <3>1, <3>2 DEF TypeOK
  <2>6. Head(dialogs').complete => pos' = Head(dialogs').of
    <3>1. Head(dialogs').of = rows[position] /\ (Head(dialogs').complete => rows = AllRows)
      <4> DEFINE complete == rows = AllRows
      <4>1. Head(dialogs') = [of |-> rows[position], complete |-> complete]
        BY <2>3
      <4> HIDE DEF complete
      <4>2. Head(dialogs').of = rows[position] /\ Head(dialogs').complete = complete
        BY <4>1
      <4> QED BY <4>2 DEF complete
    <3>2. rows = AllRows => rows[position] = position
      BY <2>2 DEF AllRows, Headline
    <3> QED BY <2>1, <3>1, <3>2
  <2> QED BY <2>1, <2>3, <2>5, <2>6 DEF Inv, FilterTyped, PosOfNewest, ViewOpensRow
<1>5. ASSUME NEW which \in {0, 1}, onClick(which)
      PROVE  Inv'
  <2>1. /\ dialogs \in Seq(Dialog) /\ dialogs # << >> /\ dialogs' = Tail(dialogs)
        /\ newest' = FALSE /\ UNCHANGED <<filter, rows, pos>>
        /\ pos \in 0 .. Count /\ pos # 0
    BY <1>5 DEF onClick, Inv, TypeOK
  <2>2. dialogs' \in Seq(Dialog) /\ Head(dialogs) \in Dialog
    BY <2>1, HeadTailProperties
  <2>3. CASE which = 0
    <3>1. asked' = [dialog |-> Head(dialogs), newest |-> newest] /\ shown' = pos
      BY <1>5, <2>3 DEF onClick
    <3>2. TypeOK'
      BY <2>1, <2>2, <3>1 DEF Inv, TypeOK
    <3>3. ViewOpensRow'
      BY <3>1 DEF Inv, FilterTyped, PosOfNewest, ViewOpensRow
    <3> QED BY <2>1, <3>2, <3>3 DEF Inv, FilterTyped, PosOfNewest
  <2>4. CASE which # 0
    <3>1. UNCHANGED <<asked, shown>>
      BY <1>5, <2>4 DEF onClick
    <3>2. TypeOK'
      BY <2>1, <2>2, <3>1 DEF Inv, TypeOK
    <3> QED BY <2>1, <3>1, <3>2 DEF Inv, FilterTyped, PosOfNewest, ViewOpensRow
  <2> QED BY <2>3, <2>4
<1>6. CASE Recreate
  <2>1. \E match \in {filter', Headline} \cup Matches : rows' = RowsOf(match)
    BY <1>6, CompleteRows DEF Recreate, onCreate
  <2>2. TypeOK'
    <3>1. dialogs' = << >> /\ dialogs' \in Seq(Dialog)
      BY <1>6, EmptySeq DEF Recreate, onCreate
    <3>0. pos' \in 0 .. Count /\ newest' \in BOOLEAN
      <4>1. pos' = 0 /\ newest' = FALSE
        BY <1>6 DEF Recreate, onCreate
      <4>2. pos' \in 0 .. Count
        BY <4>1, CountAssumption
      <4>3. newest' \in BOOLEAN
        BY <4>1
      <4> QED BY <4>2, <4>3
    <3>2. /\ filter' \subseteq Headline /\ shown' \in 0 .. Count
          /\ asked' \in [dialog : Dialog \cup {NoDialog}, newest : BOOLEAN]
      BY <1>6 DEF Recreate, Inv, TypeOK
    <3> QED BY <2>1, <3>0, <3>1, <3>2 DEF TypeOK
  <2> QED BY <1>6, <2>2 DEF Recreate, onCreate, Inv, FilterTyped, PosOfNewest, ViewOpensRow
<1> QED BY <1>1, <1>2, <1>3, <1>4, <1>5, <1>6 DEF Next

(* In every behaviour pos, set by a click in a list that may be filtered,  *)
(* is an index of newsh and newslinks whenever a dialog is open, so View   *)
(* never reads past their end, for any number of headlines.                *)
THEOREM NewsTypes == Spec => []TypeOK
<1>1. Inv => TypeOK
  BY DEF Inv
<1> QED BY <1>1, InitInv, NextInv, PTL DEF Spec

(* In every behaviour View in the dialog of the last click, made in a      *)
(* complete list, shows and opens the clicked headline, whatever the       *)
(* filter publishes meanwhile and however many dialogs lie below.          *)
THEOREM NewsViewOpensRow == Spec => []ViewOpensRow
<1>1. Inv => ViewOpensRow
  BY DEF Inv
<1> QED BY <1>1, InitInv, NextInv, PTL DEF Spec

-----------------------------------------------------------------------------
(* The system UI hiders: the flags. *)

(* A report mentions every flag the hider tests for, and one that hide()   *)
(* sets is among them.                                                     *)
LEMMA FlagFacts ==
  /\ Honey!mTestFlags \subseteq Honey!Clearable
  /\ Honey!mHideFlags \cap Honey!mTestFlags # {}
BY DEF Honey!mTestFlags, Honey!mShowFlags, Honey!mHideFlags, Honey!Clearable

(* The flags are fixed when the hider is constructed. *)
LEMMA FlagsFixed ==
  ASSUME mFlags' = mFlags
  PROVE  /\ Honey!mTestFlags' = Honey!mTestFlags
         /\ Honey!mHideFlags' = Honey!mHideFlags
         /\ \A report : (Honey!SaysVisible(report))' = Honey!SaysVisible(report)
BY DEF Honey!mTestFlags, Honey!mHideFlags, Honey!mShowFlags, Honey!Has, Honey!SaysVisible

(* A hider stays what getInstance() made it. *)
LEMMA DeviceFixed == [UiNext]_uiVars => UNCHANGED older
BY DEF UiNext, uiVars

(* What the set of the posted reports becomes. *)
Reports == SUBSET Honey!Clearable

LEMMA ReportFacts ==
  ASSUME NEW s \in Seq(Reports)
  PROVE  /\ \A r \in Reports : /\ Append(s, r) \in Seq(Reports)
                               /\ Honey!ToSet(Append(s, r)) = Honey!ToSet(s) \cup {r}
         /\ s # << >> => /\ Tail(s) \in Seq(Reports) /\ Head(s) \in Honey!ToSet(s)
                         /\ Honey!ToSet(Tail(s)) \subseteq Honey!ToSet(s)
<1>1. ASSUME NEW r \in Reports
      PROVE  /\ Append(s, r) \in Seq(Reports)
             /\ Honey!ToSet(Append(s, r)) = Honey!ToSet(s) \cup {r}
  <2>1. /\ Append(s, r) \in Seq(Reports) /\ Len(Append(s, r)) = Len(s) + 1
        /\ \A i \in 1 .. Len(s) : Append(s, r)[i] = s[i]
        /\ Append(s, r)[Len(s) + 1] = r /\ Len(s) \in Nat
    BY <1>1, AppendProperties
  <2>2. DOMAIN s = 1 .. Len(s) /\ DOMAIN Append(s, r) = 1 .. Len(s) + 1
    BY <2>1
  <2>3. 1 .. Len(s) + 1 = (1 .. Len(s)) \cup {Len(s) + 1}
    BY <2>1
  <2> QED BY <2>1, <2>2, <2>3 DEF Honey!ToSet
<1>2. ASSUME s # << >>
      PROVE  /\ Tail(s) \in Seq(Reports) /\ Head(s) \in Honey!ToSet(s)
             /\ Honey!ToSet(Tail(s)) \subseteq Honey!ToSet(s)
  BY <1>2 DEF Honey!ToSet
<1> QED BY <1>1, <1>2

-----------------------------------------------------------------------------
(* API 11 and later. *)

(* The caches agree with the flags of the last report, whatever the flags  *)
(* are by now.  This, unlike SettledAgrees, is inductive: hide(), show()   *)
(* and the user change the flags alone.                                    *)
ReportedAgrees ==
  /\ mVisible = (reported \cap Honey!mTestFlags = {})
  /\ told # "nothing" => listener /\ told = Honey!Word(mVisible)
  /\ preJB => fullscreen = ~mVisible /\ actionBar = mVisible

(* While a hide() is in force, no report on its way says that the bars are *)
(* visible.                                                                *)
KeptHidden ==
  /\ posted \in Seq(Reports)
  /\ kept => /\ vis = Honey!mHideFlags
             /\ \A report \in Honey!ToSet(posted) : ~Honey!SaysVisible(report)

HoneyInv == ~older => ReportedAgrees /\ KeptHidden

LEMMA InitHoney == getInstance => HoneyInv
<1> SUFFICES ASSUME getInstance, ~older PROVE ReportedAgrees /\ KeptHidden
  BY DEF HoneyInv
<1>1. ReportedAgrees
  BY DEF getInstance, Honey!Init, ReportedAgrees
<1>2. posted = << >> /\ kept = FALSE
  BY DEF getInstance, Honey!Init
<1>3. KeptHidden
  BY <1>2, EmptySeq DEF KeptHidden
<1> QED BY <1>1, <1>3

(* hide(), show() and the user change the flags alone. *)
LEMMA FlagsStep ==
  ASSUME ReportedAgrees, KeptHidden,
         UNCHANGED <<preJB, mFlags, reported, posted, fullscreen, actionBar, mVisible,
                     listener, told>>,
         \/ kept' = FALSE
         \/ /\ vis' = Honey!mHideFlags
            /\ kept' = \A report \in Honey!ToSet(posted) : ~Honey!SaysVisible(report)
         \/ UNCHANGED <<vis, kept>>
  PROVE  ReportedAgrees' /\ KeptHidden'
<1>1. /\ Honey!mTestFlags' = Honey!mTestFlags /\ Honey!mHideFlags' = Honey!mHideFlags
      /\ \A report : (Honey!SaysVisible(report))' = Honey!SaysVisible(report)
  BY FlagsFixed
<1>2. ReportedAgrees'
  BY <1>1 DEF ReportedAgrees, Honey!Word
<1>3. posted' \in Seq(Reports) /\ Honey!ToSet(posted') = Honey!ToSet(posted)
  BY DEF KeptHidden
<1>4. ASSUME kept'
      PROVE  /\ vis' = Honey!mHideFlags'
             /\ \A report \in Honey!ToSet(posted') : ~(Honey!SaysVisible(report))'
  BY <1>1, <1>3, <1>4 DEF KeptHidden
<1>5. KeptHidden'
  BY <1>3, <1>4 DEF KeptHidden, Reports, Honey!Clearable
<1> QED BY <1>2, <1>5

LEMMA NextHoney == HoneyInv /\ [UiNext]_uiVars => HoneyInv'
<1> SUFFICES ASSUME HoneyInv, [UiNext]_uiVars, ~older' PROVE ReportedAgrees' /\ KeptHidden'
  BY DEF HoneyInv
<1>0. UNCHANGED older
  BY DeviceFixed
<1>a. ReportedAgrees /\ KeptHidden
  BY <1>0 DEF HoneyInv
<1>1. CASE UNCHANGED uiVars
  BY <1>1, <1>a, FlagsStep DEF uiVars, baseOnly, honeyOnly
<1>2. CASE Honey!setup
  BY <1>2, <1>a, FlagsStep DEF Honey!setup
<1>3. CASE Honey!hide
  BY <1>3, <1>a, FlagsStep DEF Honey!hide, Honey!setSystemUiVisibility
<1>4. CASE Honey!show
  BY <1>4, <1>a, FlagsStep DEF Honey!show, Honey!setSystemUiVisibility
<1>5. CASE Honey!SystemShows
  BY <1>5, <1>a, FlagsStep DEF Honey!SystemShows
<1>6. ASSUME NEW l \in BOOLEAN, Honey!setOnVisibilityChangeListener(l)
      PROVE  ReportedAgrees' /\ KeptHidden'
  <2>1. UNCHANGED <<preJB, mFlags, reported, vis, posted, fullscreen, actionBar, mVisible,
                    kept>> /\ told' = "nothing"
    BY <1>6 DEF Honey!setOnVisibilityChangeListener
  <2>2. /\ Honey!mTestFlags' = Honey!mTestFlags /\ Honey!mHideFlags' = Honey!mHideFlags
        /\ \A report : (Honey!SaysVisible(report))' = Honey!SaysVisible(report)
    BY <2>1, FlagsFixed
  <2>3. ReportedAgrees'
    BY <1>a, <2>1, <2>2 DEF ReportedAgrees
  <2>4. Honey!ToSet(posted') = Honey!ToSet(posted)
    BY <2>1
  <2>5. KeptHidden'
    BY <1>a, <2>1, <2>2, <2>4 DEF KeptHidden, Reports, Honey!Clearable
  <2> QED BY <2>3, <2>5
<1>7. CASE Honey!Post
  <2> DEFINE report == vis \cap Honey!Clearable
  <2>1. /\ UNCHANGED <<preJB, mFlags, reported, vis, fullscreen, actionBar, mVisible,
                       listener, told, kept>>
        /\ posted' = Append(posted, report)
    BY <1>7 DEF Honey!Post
  <2>2. /\ Honey!mTestFlags' = Honey!mTestFlags /\ Honey!mHideFlags' = Honey!mHideFlags
        /\ \A r : (Honey!SaysVisible(r))' = Honey!SaysVisible(r)
    BY <2>1, FlagsFixed
  <2>3. ReportedAgrees'
    BY <1>a, <2>1, <2>2 DEF ReportedAgrees, Honey!Word
  <2>4. posted' \in Seq(Reports) /\ Honey!ToSet(posted') = Honey!ToSet(posted) \cup {report}
    BY <1>a, <2>1, ReportFacts DEF KeptHidden, Reports
  <2>5. ASSUME kept PROVE ~Honey!SaysVisible(report)
    BY <1>a, <2>5, FlagFacts DEF KeptHidden, Honey!SaysVisible
  <2>6. ASSUME kept'
        PROVE  /\ vis' = Honey!mHideFlags'
               /\ \A r \in Honey!ToSet(posted') : ~(Honey!SaysVisible(r))'
    BY <1>a, <2>1, <2>2, <2>4, <2>5, <2>6 DEF KeptHidden
  <2>7. KeptHidden'
    BY <2>4, <2>6 DEF KeptHidden, Reports, Honey!Clearable
  <2> QED BY <2>3, <2>7
<1>8. CASE Honey!onSystemUiVisibilityChange
  <2>1. PICK visible \in BOOLEAN :
          /\ Honey!Deliver(visible)
          /\ vis' = IF visible THEN Honey!mShowFlags ELSE vis
          /\ actionBar' = IF preJB THEN visible ELSE actionBar
          /\ mVisible' = visible
    BY <1>8 DEF Honey!onSystemUiVisibilityChange
  <2>2. /\ posted # << >> /\ visible = Honey!SaysVisible(Head(posted))
        /\ reported' = Head(posted) /\ posted' = Tail(posted)
        /\ fullscreen' = IF preJB THEN ~visible ELSE fullscreen
        /\ told' = IF listener THEN Honey!Word(visible) ELSE told
        /\ UNCHANGED <<preJB, mFlags, listener, kept>>
    BY <2>1 DEF Honey!Deliver
  <2>3. /\ Honey!mTestFlags' = Honey!mTestFlags /\ Honey!mHideFlags' = Honey!mHideFlags
        /\ \A r : (Honey!SaysVisible(r))' = Honey!SaysVisible(r)
    BY <2>2, FlagsFixed
  <2>4. mVisible' = (reported' \cap Honey!mTestFlags' = {})
    BY <2>1, <2>2, <2>3 DEF Honey!SaysVisible
  <2>5. told' # "nothing" => listener' /\ told' = Honey!Word(mVisible')
    <3>1. CASE listener
      BY <2>1, <2>2, <3>1, Zenon
    <3>2. CASE ~listener
      BY <1>a, <2>2, <3>2 DEF ReportedAgrees
    <3> QED BY <3>1, <3>2
  <2>6. preJB' => fullscreen' = ~mVisible' /\ actionBar' = mVisible'
    BY <2>1, <2>2
  <2>7. ReportedAgrees'
    BY <2>4, <2>5, <2>6 DEF ReportedAgrees
  <2>8. /\ posted' \in Seq(Reports) /\ Head(posted) \in Honey!ToSet(posted)
        /\ Honey!ToSet(posted') \subseteq Honey!ToSet(posted)
    BY <1>a, <2>2, ReportFacts DEF KeptHidden
  <2>9. ASSUME kept'
        PROVE  /\ vis' = Honey!mHideFlags'
               /\ \A r \in Honey!ToSet(posted') : ~(Honey!SaysVisible(r))'
    BY <1>a, <2>1, <2>2, <2>3, <2>8, <2>9 DEF KeptHidden
  <2>10. KeptHidden'
    BY <2>8, <2>9 DEF KeptHidden, Reports, Honey!Clearable
  <2> QED BY <2>7, <2>10
<1> QED BY <1>0, <1>1, <1>2, <1>3, <1>4, <1>5, <1>6, <1>7, <1>8
     DEF UiNext, Honey!Next, Honey!toggle

-----------------------------------------------------------------------------
(* Before Honeycomb. *)

(* A call that no other runs inside tells the listener, and sets the       *)
(* window to, what it will make isVisible() say.                           *)
CallAgrees ==
  /\ told # "nothing" => listener
  /\ fullscreen \in BOOLEAN
  /\ \/ nested
     \/ calls = << >> /\ Base!SettledAgrees
     \/ \E visible \in BOOLEAN :
          /\ calls = <<visible>>
          /\ told # "nothing" => told = Base!Word(visible)
          /\ mFlags \cap Base!FLAG_FULLSCREEN # {} => visible = ~fullscreen

BaseInv == older => CallAgrees

LEMMA InitBase == getInstance => BaseInv
BY DEF getInstance, Base!Init, BaseInv, CallAgrees, Base!SettledAgrees

LEMMA EnterBase ==
  ASSUME CallAgrees, NEW visible \in BOOLEAN, Base!Enter(visible)
  PROVE  CallAgrees'
<1>1. /\ fullscreen' = IF mFlags \cap Base!FLAG_FULLSCREEN # {} THEN ~visible ELSE fullscreen
      /\ told' = IF listener THEN Base!Word(visible) ELSE told
      /\ calls' = <<visible>> \o calls /\ nested' = (calls # << >>)
      /\ mFlags' = mFlags /\ listener' = listener
  BY DEF Base!Enter
<1>2. CASE calls # << >>
  BY <1>1, <1>2 DEF CallAgrees
<1>3. CASE calls = << >>
  <2>1. calls' = <<visible>>
    BY <1>1, <1>3
  <2>2. told' # "nothing" => listener' /\ told' = Base!Word(visible)
    BY <1>1 DEF CallAgrees
  <2>3. mFlags' \cap Base!FLAG_FULLSCREEN # {} => visible = ~fullscreen'
    BY <1>1
  <2>4. fullscreen' \in BOOLEAN
    BY <1>1 DEF CallAgrees
  <2> QED BY <2>1, <2>2, <2>3, <2>4 DEF CallAgrees, Base!Word, Base!FLAG_FULLSCREEN
<1> QED BY <1>2, <1>3

LEMMA NextBase == BaseInv /\ [UiNext]_uiVars => BaseInv'
<1> SUFFICES ASSUME BaseInv, [UiNext]_uiVars, older' PROVE CallAgrees'
  BY DEF BaseInv
<1>0. UNCHANGED older
  BY DeviceFixed
<1>a. CallAgrees
  BY <1>0 DEF BaseInv
<1> USE DEF Base!SettledAgrees, Base!Word, Base!FLAG_FULLSCREEN
<1>1. CASE UNCHANGED uiVars
  BY <1>1, <1>a DEF uiVars, baseOnly, CallAgrees
<1>2. CASE Base!setup
  BY <1>2, <1>a DEF Base!setup, CallAgrees
<1>3. CASE Base!Enter(FALSE) \/ Base!Enter(TRUE)
  BY <1>3, <1>a, EnterBase
<1>4. CASE Base!Return
  <2>1. /\ calls # << >> /\ mVisible' = Head(calls) /\ calls' = Tail(calls)
        /\ UNCHANGED <<mFlags, fullscreen, listener, told, nested>>
    BY <1>4 DEF Base!Return
  <2>2. CASE nested
    BY <1>a, <2>1, <2>2 DEF CallAgrees
  <2>3. CASE ~nested
    <3>1. PICK visible \in BOOLEAN :
            /\ calls = <<visible>>
            /\ told # "nothing" => told = Base!Word(visible)
            /\ mFlags \cap Base!FLAG_FULLSCREEN # {} => visible = ~fullscreen
      BY <1>a, <2>1, <2>3 DEF CallAgrees
    <3>2. calls' = << >> /\ mVisible' = visible
      BY <2>1, <3>1
    <3> QED BY <1>a, <2>1, <3>1, <3>2 DEF CallAgrees
  <2> QED BY <2>2, <2>3
<1>5. ASSUME NEW l \in BOOLEAN, Base!setOnVisibilityChangeListener(l)
      PROVE  CallAgrees'
  BY <1>5, <1>a DEF Base!setOnVisibilityChangeListener, CallAgrees
<1> QED BY <1>0, <1>1, <1>2, <1>3, <1>4, <1>5
     DEF UiNext, Base!Next, Base!hide, Base!show, Base!toggle

-----------------------------------------------------------------------------
(* Whichever flags were asked for and however the client, the user and     *)
(* late reports interleave: on API 11 and later, when every report has     *)
(* arrived, isVisible(), the client's listener and, before Jelly Bean, the *)
(* window flag and the action bar agree with the bars; on an older device  *)
(* isVisible(), the listener and the window agree after a call that no     *)
(* other ran inside.                                                       *)
THEOREM HidersSettle == UiSpec => []SettledAgrees
<1>1. HoneyInv /\ BaseInv => SettledAgrees
  <2>1. ASSUME ~older, ReportedAgrees PROVE Honey!SettledAgrees
    <3> SUFFICES ASSUME vis \cap Honey!Clearable = reported
                 PROVE  /\ mVisible = Honey!Visible
                        /\ told # "nothing" => told = Honey!Word(Honey!Visible)
                        /\ preJB => fullscreen = ~Honey!Visible /\ actionBar = Honey!Visible
      BY DEF Honey!SettledAgrees
    <3>1. mVisible = Honey!Visible
      BY <2>1, FlagFacts DEF ReportedAgrees, Honey!Visible
    <3> QED BY <2>1, <3>1 DEF ReportedAgrees
  <2>2. ASSUME older, CallAgrees PROVE Base!SettledAgrees
    BY <2>2 DEF CallAgrees, Base!SettledAgrees
  <2> QED BY <2>1, <2>2 DEF HoneyInv, BaseInv, SettledAgrees
<1> QED BY <1>1, InitHoney, NextHoney, InitBase, NextBase, PTL DEF UiSpec

(* On API 11 and later, for any flags and any number of reports on their   *)
(* way: a hide() that overtook no report of visible bars stays in force    *)
(* until show(), toggle() or the user ends it.                             *)
THEOREM HideStaysInForce == UiSpec => []HideStays
<1>1. HoneyInv => HideStays
  BY FlagFacts DEF HoneyInv, KeptHidden, HideStays, Honey!HideStays, Honey!Visible
<1> QED BY <1>1, InitHoney, NextHoney, PTL DEF UiSpec
=============================================================================
