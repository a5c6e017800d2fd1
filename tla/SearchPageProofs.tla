-------------------------- MODULE SearchPageProofs --------------------------
(* Safety of the search page for any number of symbols, requests and user  *)
(* events.                                                                 *)
EXTENDS SearchPage, SequenceTheorems, TLAPS

-----------------------------------------------------------------------------
(* Facts about the values. *)

(* The elements that changeRequest fills, by the kind of the answer. *)
LEMMA ElementsFacts ==
  ASSUME NEW s \in Symbol, NEW k \in Kind \ {"fail"}
  PROVE  LET p == Elements(s, k)
         IN  /\ p \in Page
             /\ p.demoo = << >>
             /\ p.header \in {s, Null}
             /\ p.fb => p.header = s /\ k \in {"nonews", "onenews", "news"}
             /\ p.chart # Null => k \in {"onenews", "news"}
             /\ k \in {"onenews", "news"} => p.header = s
<1>1. Blank \in Page
  BY DEF Blank, Page
<1>2. CASE k \in {"empty", "zero"}
  BY <1>1, <1>2 DEF Elements, Blank, Page
<1>3. CASE k \in {"badjson", "noquote"}
  BY <1>1, <1>3 DEF Elements, Blank, Page
<1>4. CASE k = "nonews"
  BY <1>1, <1>4 DEF Elements, Blank, Page
<1>5. CASE k \in {"onenews", "news"}
  BY <1>1, <1>5 DEF Elements, Blank, Page
<1> QED
  BY <1>2, <1>3, <1>4, <1>5 DEF Kind

(* What an answer assigns to the globals. *)
LEMMA AssignedFacts ==
  ASSUME NEW g \in Globals, NEW s \in Symbol, NEW k \in Kind \ {"fail"}
  PROVE  LET h == Assigned(g, s, k)
         IN  /\ h \in Globals
             /\ k \in {"nonews", "onenews", "news"} =>
                  h = [ident |-> s, quote |-> s]
<1>1. CASE k \in {"empty", "badjson"}
  BY <1>1 DEF Assigned
<1>2. CASE k = "noquote"
  BY <1>2 DEF Assigned, Globals
<1>3. CASE k \in {"zero", "nonews", "onenews", "news"}
  BY <1>3 DEF Assigned, Globals
<1> QED
  BY <1>1, <1>2, <1>3 DEF Kind

(* A set of tabs changes nothing but #demoo. *)
LEMMA WithTabsFacts ==
  ASSUME NEW p \in Page, NEW g \in Globals, NEW n \in Symbol \cup {Null}
  PROVE  LET w == WithTabs(p, g, n)
         IN  /\ w \in Page
             /\ w.header = p.header /\ w.error = p.error /\ w.fb = p.fb
             /\ w.chart = p.chart
             /\ w.demoo = Append(p.demoo, [quote |-> g.quote, news |-> n])
             /\ w.demoo # << >>
             /\ [w EXCEPT !.demoo = << >>] = [p EXCEPT !.demoo = << >>]
<1> DEFINE t == [quote |-> g.quote, news |-> n]
<1>1. t \in Tabs
  BY DEF Tabs, Globals
<1> HIDE DEF t
<1>2. p.demoo \in Seq(Tabs)
  BY DEF Page
<1>3. Append(p.demoo, t) \in Seq(Tabs) /\ Append(p.demoo, t) # << >>
  BY <1>1, <1>2
<1>4. WithTabs(p, g, n) = [p EXCEPT !.demoo = Append(p.demoo, t)]
  BY DEF WithTabs, t, Page
<1>5. /\ [p EXCEPT !.demoo = Append(p.demoo, t)] \in Page
      /\ [p EXCEPT !.demoo = Append(p.demoo, t)].demoo = Append(p.demoo, t)
      /\ [[p EXCEPT !.demoo = Append(p.demoo, t)] EXCEPT !.demoo = << >>]
           = [p EXCEPT !.demoo = << >>]
  BY <1>3 DEF Page
<1> QED
  BY <1>3, <1>4, <1>5 DEF Page, t

-----------------------------------------------------------------------------
(* The steps. *)

(* The share button stands below the header of the stock that the globals  *)
(* describe.                                                               *)
FbMatches ==
  page.fb => /\ page.header # Null
             /\ globals = [ident |-> page.header, quote |-> page.header]

(* One set of tabs at most, of the stock in the header. *)
OneSet(p) ==
  \/ p.demoo = << >>
  \/ \E n \in {p.header, Null} : p.demoo = <<[quote |-> p.header, news |-> n]>>

(* What changeRequest does with a full answer, whatever was on the page. *)
LEMMA RenderFacts ==
  ASSUME TypeOK, NEW s \in Symbol, NEW k \in Kind \ {"fail"}, Render(s, k)
  PROVE  /\ page' \in Page
         /\ globals' \in Globals
         /\ nuse' \in Nat
         /\ waiting' \subseteq [use : 1 .. nuse', news : Symbol \cup {Null}]
         /\ late' = FALSE
         /\ [page' EXCEPT !.demoo = << >>] = Elements(s, k)
         /\ page'.header \in {s, Null}
         /\ FbMatches'
         /\ OneSet(page')
         /\ TabsNotLost'
<1> DEFINE p == Elements(s, k)
           g == Assigned(globals, s, k)
           n == NewsList(s, k)
           tabs == k \in {"onenews", "news"}
           w == WithTabs(p, g, n)
<1>1. n \in {s, Null}
  BY DEF NewsList
<1>2. /\ p \in Page /\ p.demoo = << >> /\ p.header \in {s, Null}
      /\ p.fb => p.header = s /\ k \in {"nonews", "onenews", "news"}
      /\ p.chart # Null => tabs
      /\ tabs => p.header = s
  BY ElementsFacts
<1>3. /\ g \in Globals
      /\ k \in {"nonews", "onenews", "news"} => g = [ident |-> s, quote |-> s]
  BY AssignedFacts DEF TypeOK
<1>4. /\ w \in Page
      /\ w.header = p.header /\ w.fb = p.fb /\ w.chart = p.chart
      /\ w.demoo = Append(p.demoo, [quote |-> g.quote, news |-> n])
      /\ w.demoo # << >>
      /\ [w EXCEPT !.demoo = << >>] = [p EXCEPT !.demoo = << >>]
  BY <1>1, <1>2, <1>3, WithTabsFacts
<1>5. [p EXCEPT !.demoo = << >>] = p
  BY <1>2 DEF Page
<1>6. /\ globals' = g /\ late' = FALSE
      /\ page' = IF tabs /\ loaded THEN w ELSE p
      /\ IF tabs /\ ~loaded
         THEN /\ waiting' = waiting \cup {[use |-> nuse + 1, news |-> n]}
              /\ nuse' = nuse + 1
         ELSE waiting' = waiting /\ nuse' = nuse
  BY DEF Render
<1> HIDE DEF p, g, n, w
<1>7. /\ page' \in Page /\ page'.header = p.header
      /\ page'.fb = p.fb /\ page'.chart = p.chart
      /\ [page' EXCEPT !.demoo = << >>] = p
  BY <1>2, <1>4, <1>5, <1>6
<1>8. nuse' \in Nat /\ waiting' \subseteq [use : 1 .. nuse', news : Symbol \cup {Null}]
  BY <1>1, <1>6 DEF TypeOK
<1>9. FbMatches'
  BY <1>2, <1>3, <1>6, <1>7, SymbolAssumption DEF FbMatches
<1>10. OneSet(page')
  <2>1. CASE tabs /\ loaded
    <3>1. g.quote = s
      BY <1>3, <2>1
    <3>2. w.demoo = <<[quote |-> s, news |-> n]>>
      BY <1>2, <1>4, <3>1
    <3>3. page' = w /\ page'.header = s
      BY <1>2, <1>6, <1>7, <2>1
    <3> QED
      BY <1>1, <3>2, <3>3 DEF OneSet
  <2>2. CASE ~(tabs /\ loaded)
    BY <1>2, <1>6, <2>2 DEF OneSet
  <2> QED
    BY <2>1, <2>2
<1>11. TabsNotLost'
  BY <1>2, <1>4, <1>6, <1>7 DEF TabsNotLost
<1> QED
  BY <1>2, <1>3, <1>6, <1>7, <1>8, <1>9, <1>10, <1>11 DEF p

(* An event of a request advances that request alone, and runs             *)
(* changeRequest on the newest one.                                        *)
LEMMA EventFacts ==
  ASSUME TypeOK, NEW i \in ReqId, NEW k \in Kind, ReadyStateChange(i, k)
  PROVE  /\ requests' \in [ReqId -> Request]
         /\ \A j \in ReqId : requests'[j].readyState = 0 <=> j > nreq
         /\ req # 0 => req \in ReqId
         /\ \/ /\ req # 0 /\ Done(requests'[req])
               /\ requests'[req].sym \in Symbol
               /\ requests'[req].kind \in Kind \ {"fail"}
               /\ Render(requests'[req].sym, requests'[req].kind)
            \/ /\ ~(req # 0 /\ Done(requests'[req]))
               /\ UNCHANGED <<page, globals, waiting, nuse, late>>
<1> DEFINE old == requests[i]
           rs  == old.readyState + 1
           new == [sym |-> old.sym, readyState |-> rs, kind |-> IF rs = 4 THEN k ELSE Null]
<1>1. /\ old.readyState \in 1 .. 3
      /\ requests' = [requests EXCEPT ![i] = new]
      /\ changeRequest(requests')
  BY DEF ReadyStateChange
<1>2. old \in [sym : Symbol, readyState : 1 .. 3, kind : {Null}]
  <2>1. NoRequest.readyState = 0
    BY DEF NoRequest
  <2> QED
    BY <1>1, <2>1 DEF TypeOK, Request
<1>3. new \in Request /\ new.readyState \in 2 .. 4
  <2>1. rs \in 2 .. 4 /\ old.sym \in Symbol
    BY <1>2
  <2> HIDE DEF rs
  <2> HIDE DEF old
  <2>2. CASE rs = 4
    BY <2>1, <2>2 DEF Request
  <2>3. CASE rs \in 2 .. 3
    BY <2>1, <2>3 DEF Request
  <2> QED
    BY <2>1, <2>2, <2>3
<1> HIDE DEF new
<1>4. requests' \in [ReqId -> Request]
  BY <1>1, <1>3 DEF TypeOK
<1>5. \A j \in ReqId : requests'[j].readyState = 0 <=> j > nreq
  BY <1>1, <1>2, <1>3 DEF TypeOK
<1>6. req # 0 => req \in ReqId
  BY BoundAssumption DEF TypeOK, ReqId
<1>7. \A r \in Request : r.readyState = 4 => r.sym \in Symbol /\ r.kind \in Kind
  BY DEF Request, NoRequest
<1> QED
  BY <1>1, <1>4, <1>5, <1>6, <1>7 DEF changeRequest, Done

(* A new request is the newest one and has no answer yet. *)
LEMMA SearchFacts ==
  ASSUME TypeOK, NEW s \in Symbol, getXMLHttpRequest(s)
  PROVE  /\ requests' \in [ReqId -> Request]
         /\ nreq' \in 0 .. MaxReq
         /\ req' \in {0, nreq'}
         /\ \A j \in ReqId : requests'[j].readyState = 0 <=> j > nreq'
         /\ req' # 0 => ~Done(requests'[req'])
         /\ UNCHANGED <<page, globals, loaded, waiting, nuse, shared, late>>
<1> DEFINE new == [sym |-> s, readyState |-> 1, kind |-> Null]
<1>1. new \in Request /\ new.readyState = 1
  BY DEF Request
<1> HIDE DEF new
<1>2. CASE /\ nreq' = nreq + 1 /\ req' = nreq + 1
           /\ requests' = [requests EXCEPT ![nreq + 1] = new]
  <2>1. nreq + 1 \in ReqId /\ nreq' \in 0 .. MaxReq
    BY <1>2, BoundAssumption DEF getXMLHttpRequest, TypeOK, ReqId
  <2>2. requests'[nreq + 1] = new
    BY <1>2, <2>1 DEF TypeOK
  <2>3. \A j \in ReqId : requests'[j].readyState = 0 <=> j > nreq'
    BY <1>1, <1>2, <2>1, BoundAssumption DEF TypeOK, ReqId
  <2>4. ~Done(new)
    BY <1>1 DEF Done
  <2> QED
    BY <1>1, <1>2, <2>1, <2>2, <2>3, <2>4 DEF getXMLHttpRequest, TypeOK
<1>3. CASE req' = 0 /\ requests' = requests /\ nreq' = nreq
  BY <1>3 DEF getXMLHttpRequest, TypeOK
<1> QED
  BY <1>2, <1>3 DEF getXMLHttpRequest, new

(* The arrival of the tab module changes #demoo alone. *)
LEMMA TabviewFacts ==
  ASSUME TypeOK, NEW w \in waiting, TabviewReady(w)
  PROVE  /\ page' \in Page
         /\ page'.header = page.header /\ page'.fb = page.fb
         /\ page'.chart = page.chart
         /\ page'.demoo = Append(page.demoo, [quote |-> globals.quote,
                                              news |-> w.news])
         /\ page'.demoo # << >>
         /\ [page' EXCEPT !.demoo = << >>] = [page EXCEPT !.demoo = << >>]
         /\ UNCHANGED <<requests, nreq, req, globals, shared>>
<1> DEFINE p == WithTabs(page, globals, w.news)
<1>1. w.news \in Symbol \cup {Null} /\ page \in Page /\ globals \in Globals
  BY DEF TypeOK
<1>2. /\ p \in Page
      /\ p.header = page.header /\ p.fb = page.fb /\ p.chart = page.chart
      /\ p.demoo = Append(page.demoo, [quote |-> globals.quote, news |-> w.news])
      /\ p.demoo # << >>
      /\ [p EXCEPT !.demoo = << >>] = [page EXCEPT !.demoo = << >>]
  BY <1>1, WithTabsFacts
<1>3. page' = p
  BY DEF TabviewReady
<1> HIDE DEF p
<1> QED
  BY <1>2, <1>3 DEF TabviewReady

(* The steps other than searches, events and tabs: a reload starts from    *)
(* nothing, the others leave the page alone.                               *)
Idle ==
  /\ UNCHANGED <<requests, nreq, req, page, globals, loaded, waiting, nuse, late>>

(* Every step is a search, a reload, an event of a request, the arrival of *)
(* the tab module, a post or nothing.                                      *)
LEMMA StepCases ==
  ASSUME [Next]_vars
  PROVE  \/ \E s \in Symbol : UserEvent /\ getXMLHttpRequest(s)
         \/ UserEvent /\ Reload
         \/ \E i \in ReqId, k \in Kind : ReadyStateChange(i, k)
         \/ \E w \in waiting : TabviewReady(w)
         \/ Idle /\ postFB
         \/ Idle /\ shared' = shared /\ (UserEvent \/ events' = events)
BY DEF Next, Select, Submit, postFB, vars, Idle

LEMMA NextType == TypeOK /\ [Next]_vars => TypeOK'
<1> SUFFICES ASSUME TypeOK, [Next]_vars PROVE TypeOK'
  OBVIOUS
<1>0. UserEvent => events' \in 0 .. MaxEvents
  BY BoundAssumption DEF UserEvent, TypeOK
<1>1. ASSUME NEW s \in Symbol, UserEvent, getXMLHttpRequest(s) PROVE TypeOK'
  BY <1>0, <1>1, SearchFacts DEF TypeOK
<1>2. ASSUME UserEvent, Reload PROVE TypeOK'
  <2>1. NoRequest \in Request /\ NoRequest.readyState = 0
    BY DEF NoRequest, Request
  <2>2. /\ requests' \in [ReqId -> Request]
        /\ \A i \in ReqId : requests'[i].readyState = 0 <=> i > 0
    BY <1>2, <2>1, BoundAssumption DEF Reload, NoRequests, ReqId
  <2>3. Blank \in Page /\ NoGlobals \in Globals
    BY DEF Blank, Page, NoGlobals, Globals
  <2>4. nreq' \in 0 .. MaxReq /\ req' \in {0, nreq'} /\ nuse' \in Nat
    BY <1>2, BoundAssumption DEF Reload
  <2>5. events' \in 0 .. MaxEvents
    BY <1>0, <1>2
  <2> QED
    BY <1>2, <2>2, <2>3, <2>4, <2>5 DEF Reload, TypeOK
<1>3. ASSUME NEW i \in ReqId, NEW k \in Kind, ReadyStateChange(i, k) PROVE TypeOK'
  <2>1. /\ requests' \in [ReqId -> Request]
        /\ \A j \in ReqId : requests'[j].readyState = 0 <=> j > nreq
    BY <1>3, EventFacts
  <2>2. /\ page' \in Page /\ globals' \in Globals /\ nuse' \in Nat
        /\ waiting' \subseteq [use : 1 .. nuse', news : Symbol \cup {Null}]
        /\ late' \in BOOLEAN
    BY <1>3, EventFacts, RenderFacts DEF TypeOK
  <2> QED
    BY <1>3, <2>1, <2>2 DEF ReadyStateChange, TypeOK
<1>4. ASSUME NEW w \in waiting, TabviewReady(w) PROVE TypeOK'
  BY <1>4, TabviewFacts DEF TabviewReady, TypeOK
<1>5. CASE Idle /\ postFB
  BY <1>0, <1>5 DEF Idle, postFB, TypeOK
<1>6. CASE Idle /\ shared' = shared /\ (UserEvent \/ events' = events)
  BY <1>0, <1>6 DEF Idle, TypeOK
<1> QED
  BY <1>1, <1>2, <1>3, <1>4, <1>5, <1>6, StepCases

(* Every reachable state of the page is well typed. *)
THEOREM TypeCorrect == Spec => []TypeOK
<1>1. Init => TypeOK
  <2>1. NoRequest \in Request /\ NoRequest.readyState = 0
    BY DEF NoRequest, Request
  <2>2. Blank \in Page /\ NoGlobals \in Globals
    BY DEF Blank, Page, NoGlobals, Globals
  <2> SUFFICES ASSUME Init PROVE TypeOK
    OBVIOUS
  <2>3. /\ requests \in [ReqId -> Request]
        /\ \A i \in ReqId : requests[i].readyState = 0 <=> i > 0
    BY <2>1, BoundAssumption DEF Init, NoRequests, ReqId
  <2>4. /\ nreq \in 0 .. MaxReq /\ req \in {0, nreq} /\ nuse \in Nat
        /\ events \in 0 .. MaxEvents
    BY BoundAssumption DEF Init
  <2> QED
    BY <2>2, <2>3, <2>4 DEF Init, TypeOK
<1> QED
  BY <1>1, NextType, PTL DEF Spec

-----------------------------------------------------------------------------
(* The page shows the newest answer. *)

LEMMA NextNewest == TypeOK /\ NewestShown /\ [Next]_vars => NewestShown'
<1> SUFFICES ASSUME TypeOK, NewestShown, [Next]_vars PROVE NewestShown'
  OBVIOUS
<1>1. ASSUME NEW s \in Symbol, UserEvent, getXMLHttpRequest(s) PROVE NewestShown'
  BY <1>1, SearchFacts DEF NewestShown, Done
<1>2. ASSUME UserEvent, Reload PROVE NewestShown'
  BY <1>2 DEF Reload, NewestShown
<1>3. ASSUME NEW i \in ReqId, NEW k \in Kind, ReadyStateChange(i, k)
      PROVE  NewestShown'
  <2>1. req' = req
    BY <1>3 DEF ReadyStateChange
  <2>2. CASE req # 0 /\ Done(requests'[req])
    BY <1>3, <2>1, <2>2, EventFacts, RenderFacts DEF NewestShown
  <2>3. CASE ~(req # 0 /\ Done(requests'[req]))
    BY <2>1, <2>3 DEF NewestShown, Done
  <2> QED
    BY <2>2, <2>3
<1>4. ASSUME NEW w \in waiting, TabviewReady(w) PROVE NewestShown'
  BY <1>4, TabviewFacts DEF NewestShown, Done
<1>5. CASE Idle
  BY <1>5 DEF Idle, NewestShown, Done
<1> QED
  BY <1>1, <1>2, <1>3, <1>4, <1>5, StepCases

(* Once the newest search is answered the page shows its answer, in every  *)
(* order of answers and of the late events of older requests.              *)
THEOREM NewestAnswerShown == Spec => []NewestShown
<1>1. Init => NewestShown
  BY DEF Init, NewestShown
<1> QED
  BY <1>1, NextNewest, TypeCorrect, PTL DEF Spec

(* An answer that another search has overtaken never reaches the header. *)
THEOREM OvertakenAnswerHidden == Spec => NoStaleHeader
<1> DEFINE A == page'.header \notin {page.header, Null} =>
                  /\ req' # 0 /\ Done(requests'[req'])
                  /\ page'.header = requests'[req'].sym
<1>1. TypeOK /\ [Next]_vars => [A]_vars
  <2> SUFFICES ASSUME TypeOK, [Next]_vars PROVE A
    OBVIOUS
  <2>1. ASSUME NEW s \in Symbol, UserEvent, getXMLHttpRequest(s) PROVE A
    BY <2>1, SearchFacts
  <2>2. ASSUME UserEvent, Reload PROVE A
    BY <2>2 DEF Reload, Blank
  <2>3. ASSUME NEW i \in ReqId, NEW k \in Kind, ReadyStateChange(i, k) PROVE A
    <3>1. req' = req
      BY <2>3 DEF ReadyStateChange
    <3> QED
      BY <2>3, <3>1, EventFacts, RenderFacts
  <2>4. ASSUME NEW w \in waiting, TabviewReady(w) PROVE A
    BY <2>4, TabviewFacts
  <2>5. CASE Idle
    BY <2>5 DEF Idle
  <2> QED
    BY <2>1, <2>2, <2>3, <2>4, <2>5, StepCases
<1> QED
  BY <1>1, TypeCorrect, PTL DEF Spec, NoStaleHeader

-----------------------------------------------------------------------------
(* The share button and the tabs. *)

LEMMA NextFb == TypeOK /\ FbMatches /\ [Next]_vars => FbMatches'
<1> SUFFICES ASSUME TypeOK, FbMatches, [Next]_vars PROVE FbMatches'
  OBVIOUS
<1>1. ASSUME NEW s \in Symbol, UserEvent, getXMLHttpRequest(s) PROVE FbMatches'
  BY <1>1, SearchFacts DEF FbMatches
<1>2. ASSUME UserEvent, Reload PROVE FbMatches'
  BY <1>2 DEF Reload, Blank, FbMatches
<1>3. ASSUME NEW i \in ReqId, NEW k \in Kind, ReadyStateChange(i, k)
      PROVE  FbMatches'
  BY <1>3, EventFacts, RenderFacts DEF FbMatches
<1>4. ASSUME NEW w \in waiting, TabviewReady(w) PROVE FbMatches'
  BY <1>4, TabviewFacts DEF FbMatches
<1>5. CASE Idle
  BY <1>5 DEF Idle, FbMatches
<1> QED
  BY <1>1, <1>2, <1>3, <1>4, <1>5, StepCases

(* What is posted is about the stock in the header, although every answer, *)
(* also one that ends in an exception, overwrites the globals.             *)
THEOREM PostIsAboutHeader == Spec => PostsShown
<1> DEFINE A == shared' # shared =>
                  shared' = [ident |-> page.header, quote |-> page.header]
<1>1. Init => FbMatches
  BY DEF Init, Blank, FbMatches
<1>2. TypeOK /\ FbMatches /\ [Next]_vars => [A]_vars
  <2> SUFFICES ASSUME TypeOK, FbMatches, [Next]_vars PROVE A
    OBVIOUS
  <2>1. CASE shared' = shared
    BY <2>1
  <2>2. CASE postFB
    BY <2>2 DEF postFB, FbMatches
  <2> QED
    BY <2>1, <2>2, StepCases DEF getXMLHttpRequest, Reload, ReadyStateChange,
       TabviewReady
<1> QED
  BY <1>1, <1>2, NextFb, TypeCorrect, PTL DEF Spec, PostsShown

(* A complete page has its tabs, or the module that builds them is still   *)
(* being loaded for it.                                                    *)
THEOREM TabsArrive == Spec => []TabsNotLost
<1>1. Init => TabsNotLost
  BY DEF Init, Blank, TabsNotLost
<1>2. TypeOK /\ TabsNotLost /\ [Next]_vars => TabsNotLost'
  <2> SUFFICES ASSUME TypeOK, TabsNotLost, [Next]_vars PROVE TabsNotLost'
    OBVIOUS
  <2>1. ASSUME NEW s \in Symbol, UserEvent, getXMLHttpRequest(s) PROVE TabsNotLost'
    BY <2>1, SearchFacts DEF TabsNotLost
  <2>2. ASSUME UserEvent, Reload PROVE TabsNotLost'
    BY <2>2 DEF Reload, Blank, TabsNotLost
  <2>3. ASSUME NEW i \in ReqId, NEW k \in Kind, ReadyStateChange(i, k)
        PROVE  TabsNotLost'
    BY <2>3, EventFacts, RenderFacts DEF TabsNotLost
  <2>4. ASSUME NEW w \in waiting, TabviewReady(w) PROVE TabsNotLost'
    BY <2>4, TabviewFacts DEF TabsNotLost
  <2>5. CASE Idle
    BY <2>5 DEF Idle, TabsNotLost
  <2> QED
    BY <2>1, <2>2, <2>3, <2>4, <2>5, StepCases
<1> QED
  BY <1>1, <1>2, TypeCorrect, PTL DEF Spec

-----------------------------------------------------------------------------
(* The tabs of a page with a single search. *)

(* No tabs were asked for. *)
Fresh == page.demoo = << >> /\ waiting = {} /\ ~loaded

(* The tabs of the answer wait for the module. *)
OneWaits ==
  /\ page.demoo = << >> /\ ~loaded
  /\ globals.quote = page.header
  /\ \E w : waiting = {w} /\ w.news \in {page.header, Null}

(* They have been built. *)
OneBuilt == waiting = {} /\ OneSet(page)

(* A single search renders at most once, when its request is finished.     *)
SingleSearch ==
  nreq \in {0, 1} =>
    \/ Fresh
    \/ nreq = 1 /\ requests[1].readyState = 4 /\ (OneWaits \/ OneBuilt)

(* The first answer of the page. *)
LEMMA RenderFirst ==
  ASSUME TypeOK, Fresh, NEW s \in Symbol, NEW k \in Kind \ {"fail"}, Render(s, k),
         UNCHANGED loaded
  PROVE  Fresh' \/ OneWaits'
<1> DEFINE p == Elements(s, k)
           g == Assigned(globals, s, k)
           n == NewsList(s, k)
           tabs == k \in {"onenews", "news"}
<1>1. p.demoo = << >> /\ (tabs => p.header = s)
  BY ElementsFacts
<1>2. tabs => g.quote = s
  BY AssignedFacts DEF TypeOK
<1>3. n \in {s, Null}
  BY DEF NewsList
<1>4. /\ globals' = g /\ page' = p /\ ~loaded'
      /\ waiting' = IF tabs THEN {[use |-> nuse + 1, news |-> n]} ELSE {}
  BY DEF Render, Fresh
<1> HIDE DEF p, g, n
<1>5. CASE ~tabs
  BY <1>1, <1>4, <1>5 DEF Fresh
<1>6. CASE tabs
  <2> DEFINE w == [use |-> nuse + 1, news |-> n]
  <2>1. waiting' = {w} /\ w.news \in {page'.header, Null}
    BY <1>1, <1>3, <1>4, <1>6
  <2> QED
    BY <1>1, <1>2, <1>4, <1>6, <2>1 DEF OneWaits
<1> QED
  BY <1>5, <1>6

LEMMA NextSingle == TypeOK /\ SingleSearch /\ [Next]_vars => SingleSearch'
<1> SUFFICES ASSUME TypeOK, SingleSearch, [Next]_vars, nreq' \in {0, 1}
             PROVE  \/ Fresh'
                    \/ nreq' = 1 /\ requests'[1].readyState = 4 /\ (OneWaits' \/ OneBuilt')
  BY DEF SingleSearch
<1>0. nreq \in Nat
  BY BoundAssumption DEF TypeOK
<1>1. ASSUME NEW s \in Symbol, getXMLHttpRequest(s)
      PROVE  \/ Fresh'
             \/ nreq' = 1 /\ requests'[1].readyState = 4 /\ (OneWaits' \/ OneBuilt')
  <2>1. UNCHANGED <<page, globals, loaded, waiting>>
    BY <1>1, SearchFacts
  <2>2. Fresh \/ (requests' = requests /\ nreq' = nreq)
    BY <1>0, <1>1 DEF getXMLHttpRequest, SingleSearch
  <2> QED
    BY <2>1, <2>2 DEF SingleSearch, Fresh, OneWaits, OneBuilt, OneSet
<1>2. CASE Reload
  BY <1>2 DEF Reload, Blank, Fresh
<1>3. ASSUME NEW i \in ReqId, NEW k \in Kind, ReadyStateChange(i, k)
      PROVE  \/ Fresh'
             \/ nreq' = 1 /\ requests'[1].readyState = 4 /\ (OneWaits' \/ OneBuilt')
  <2>1. /\ nreq' = nreq /\ req' = req /\ loaded' = loaded
        /\ requests[i].readyState \in 1 .. 3
    BY <1>3 DEF ReadyStateChange
  <2>2. i = 1 /\ nreq = 1
    BY <1>0, <1>3, <2>1, BoundAssumption DEF TypeOK, ReqId
  <2>3. Fresh
    BY <2>1, <2>2 DEF SingleSearch
  <2>4. CASE /\ req # 0 /\ Done(requests'[req])
             /\ requests'[req].sym \in Symbol
             /\ requests'[req].kind \in Kind \ {"fail"}
             /\ Render(requests'[req].sym, requests'[req].kind)
    <3>1. req = 1
      BY <2>2, <2>4 DEF TypeOK
    <3>2. requests'[1].readyState = 4
      BY <2>4, <3>1 DEF Done
    <3>3. Fresh' \/ OneWaits'
      BY <2>1, <2>3, <2>4, RenderFirst
    <3> QED
      BY <2>1, <2>2, <3>2, <3>3
  <2>5. CASE UNCHANGED <<page, globals, waiting, nuse, late>>
    BY <2>1, <2>3, <2>5 DEF Fresh
  <2> QED
    BY <1>3, <2>4, <2>5, EventFacts
<1>4. ASSUME NEW w \in waiting, TabviewReady(w)
      PROVE  nreq' = 1 /\ requests'[1].readyState = 4 /\ OneBuilt'
  <2>1. /\ page'.demoo = Append(page.demoo, [quote |-> globals.quote, news |-> w.news])
        /\ page'.header = page.header /\ UNCHANGED <<requests, nreq>>
        /\ waiting' = waiting \ {w}
    BY <1>4, TabviewFacts DEF TabviewReady
  <2>2. nreq = 1 /\ requests[1].readyState = 4 /\ OneWaits
    BY <1>4, <2>1 DEF SingleSearch, Fresh, OneBuilt
  <2>3. w.news \in {page.header, Null} /\ waiting' = {} /\ page.demoo = << >>
    BY <1>4, <2>1, <2>2 DEF OneWaits
  <2>4. page'.demoo = <<[quote |-> page.header, news |-> w.news]>>
    BY <2>1, <2>2, <2>3 DEF OneWaits
  <2> QED
    BY <2>1, <2>2, <2>3, <2>4 DEF OneBuilt, OneSet
<1>5. CASE Idle
  BY <1>5 DEF Idle, SingleSearch, Fresh, OneWaits, OneBuilt, OneSet
<1> QED
  BY <1>1, <1>2, <1>3, <1>4, <1>5, StepCases

(* Once the module is there, tabs come with their answer. *)
LEMMA NextOneSet ==
  TypeOK /\ (~late => OneSet(page)) /\ [Next]_vars => (~late' => OneSet(page'))
<1> SUFFICES ASSUME TypeOK, ~late => OneSet(page), [Next]_vars, ~late'
             PROVE  OneSet(page')
  OBVIOUS
<1>1. ASSUME NEW s \in Symbol, getXMLHttpRequest(s) PROVE OneSet(page')
  BY <1>1, SearchFacts
<1>2. CASE Reload
  BY <1>2 DEF Reload, Blank, OneSet
<1>3. ASSUME NEW i \in ReqId, NEW k \in Kind, ReadyStateChange(i, k)
      PROVE  OneSet(page')
  BY <1>3, EventFacts, RenderFacts
<1>4. ASSUME NEW w \in waiting, TabviewReady(w) PROVE FALSE
  BY <1>4 DEF TabviewReady
<1>5. CASE Idle
  BY <1>5 DEF Idle
<1> QED
  BY <1>1, <1>2, <1>3, <1>4, <1>5, StepCases

(* In every behaviour, unless the tab module came later than an answer,    *)
(* and always on a page with a single search, #demoo holds at most one set *)
(* of tabs, with the prices and the headlines of the stock in the header.  *)
THEOREM TabsOfHeader == Spec => []TabsMatch
<1> DEFINE J == SingleSearch /\ (~late => OneSet(page))
<1>1. Init => J
  BY DEF Init, Blank, SingleSearch, Fresh, OneSet
<1>2. TypeOK /\ J /\ [Next]_vars => J'
  BY NextSingle, NextOneSet
<1>3. J => TabsMatch
  BY DEF SingleSearch, Fresh, OneWaits, OneBuilt, OneSet, TabsMatch
<1> QED
  BY <1>1, <1>2, <1>3, TypeCorrect, PTL DEF Spec
=============================================================================
