----------------------------- MODULE SearchPage -----------------------------
(***************************************************************************)
(* The script of search_stock.html: the AJAX search page of the web        *)
(* application.                                                            *)
(*                                                                         *)
(* The browser runs one handler at a time.  Every search puts a new        *)
(* XMLHttpRequest in the global req; the handler changeRequest, shared by  *)
(* all of them, looks at req and never at the request whose event it       *)
(* handles.  The tabs are built by YUI().use('tabview', ...): at once when *)
(* the module is loaded, otherwise later, from the globals of that time    *)
(* and the news list of the call.                                          *)
(***************************************************************************)
EXTENDS Naturals, Sequences

CONSTANTS
  Symbol,     \* stock symbols
  Null,       \* nothing displayed, an undefined global
  MaxReq,     \* bound: requests of one page
  MaxEvents   \* bound: searches, reloads and posts in a behaviour

ASSUME BoundAssumption == MaxReq \in Nat /\ MaxEvents \in Nat
ASSUME SymbolAssumption == Null \notin Symbol

VARIABLES
  requests,  \* every XMLHttpRequest of the page
  nreq,      \* how many there are
  req,       \* the global req: the newest of them, or 0 for false
  page,      \* the elements that changeRequest fills
  globals,   \* the stock whose Name/Symbol, and whose Quote, the globals hold
  loaded,    \* the tabview module is loaded
  waiting,   \* calls of YUI().use whose callback has not run
  nuse,      \* how many such calls there were
  shared,    \* the last post handed to FB.ui
  late,      \* history: a tab set came later than its search
  events     \* user events so far

vars == <<requests, nreq, req, page, globals, loaded, waiting, nuse, shared,
          late, events>>

-----------------------------------------------------------------------------
(* The servlet's answers.                                                  *)
(*   fail     a status other than 200                                      *)
(*   empty    an empty body                                                *)
(*   badjson  no JSON                                                      *)
(*   noquote  a result without Quote                                       *)
(*   zero     a quote with all its prices 0.00                             *)
(*   nonews, onenews, news   a quote with no, one, several news items; one *)
(*            item is an object, not an array, and none is no object       *)
Kind == {"fail", "empty", "badjson", "noquote", "zero", "nonews", "onenews",
         "news"}

ReqId == 1 .. MaxReq
NoRequest == [sym |-> Null, readyState |-> 0, kind |-> Null]
Request   == {NoRequest} \cup
             [sym : Symbol, readyState : 1 .. 3, kind : {Null}] \cup
             [sym : Symbol, readyState : {4}, kind : Kind]

(* One TabView below #demoo: whose prices, and whose headlines (Null: "not *)
(* available").                                                            *)
Tabs == [quote : Symbol \cup {Null}, news : Symbol \cup {Null}]

Page == [header : Symbol \cup {Null}, error : BOOLEAN, fb : BOOLEAN,
         chart : Symbol \cup {Null}, demoo : Seq(Tabs)]

Blank == [header |-> Null, error |-> FALSE, fb |-> FALSE, chart |-> Null,
          demoo |-> << >>]

Globals == [ident : Symbol \cup {Null}, quote : Symbol \cup {Null}]
NoGlobals == [ident |-> Null, quote |-> Null]

NoRequests == [i \in ReqId |-> NoRequest]

Init ==
  /\ requests = NoRequests
  /\ nreq = 0
  /\ req = 0
  /\ page = Blank
  /\ globals = NoGlobals
  /\ loaded = FALSE
  /\ waiting = {}
  /\ nuse = 0
  /\ shared = NoGlobals
  /\ late = FALSE
  /\ events = 0

-----------------------------------------------------------------------------
(* User events. *)

UserEvent == events < MaxEvents /\ events' = events + 1

(* The new request replaces req; where none can be created (no             *)
(* XMLHttpRequest and no ActiveX), req stays false.                        *)
getXMLHttpRequest(s) ==
  /\ nreq < MaxReq
  /\ \/ /\ nreq' = nreq + 1
        /\ req' = nreq + 1
        /\ requests' = [requests EXCEPT ![nreq + 1] =
                          [sym |-> s, readyState |-> 1, kind |-> Null]]
     \/ /\ req' = 0
        /\ UNCHANGED <<requests, nreq>>
  /\ UNCHANGED <<page, globals, loaded, waiting, nuse, shared, late>>

(* A suggestion is selected. *)
Select(s) == UserEvent /\ getXMLHttpRequest(s)

(* The page is loaded again; its requests are aborted. *)
Reload ==
  /\ requests' = NoRequests
  /\ nreq' = 0
  /\ req' = 0
  /\ page' = Blank
  /\ globals' = NoGlobals
  /\ loaded' = FALSE
  /\ waiting' = {}
  /\ nuse' = 0
  /\ late' = FALSE
  /\ UNCHANGED shared

(* checkinput: an empty box returns undefined, so that the form is         *)
(* submitted and the page loaded again; only blanks: an alert; anything    *)
(* else is searched for.                                                   *)
Submit(x) ==
  /\ UserEvent
  /\ \/ x = "" /\ Reload
     \/ x = " " /\ UNCHANGED <<requests, nreq, req, page, globals, loaded, waiting,
                               nuse, shared, late>>
     \/ x \in Symbol /\ getXMLHttpRequest(x)

(* postFB: the post is put together from the globals.  Until the Facebook  *)
(* SDK has been loaded, FB is undefined and the call throws.               *)
postFB ==
  /\ UserEvent
  /\ page.fb
  /\ shared' \in {globals, shared}
  /\ UNCHANGED <<requests, nreq, req, page, globals, loaded, waiting, nuse, late>>

-----------------------------------------------------------------------------
(* changeRequest. *)

(* What changeRequest leaves on the page for an answer of kind k about     *)
(* stock s, the tabs apart.  The exceptions: undefined.result (badjson),   *)
(* undefined.ChangeType (noquote), undefined.length (nonews).              *)
Elements(s, k) ==
  CASE k \in {"empty", "zero"}     -> [Blank EXCEPT !.error = TRUE]
    [] k \in {"badjson", "noquote"} -> Blank
    [] k = "nonews"                -> [Blank EXCEPT !.header = s, !.fb = TRUE]
    [] k \in {"onenews", "news"}   -> [Blank EXCEPT !.header = s, !.fb = TRUE,
                                                    !.chart = s]

Assigned(g, s, k) ==
  CASE k \in {"empty", "badjson"} -> g
    [] k = "noquote"              -> [g EXCEPT !.ident = s]
    [] OTHER                      -> [ident |-> s, quote |-> s]

(* newslist *)
NewsList(s, k) == IF k = "onenews" THEN Null ELSE s

(* The callback of YUI().use appends a TabView to #demoo. *)
WithTabs(p, g, n) == [p EXCEPT !.demoo = Append(@, [quote |-> g.quote, news |-> n])]

(* Mutant: the share button of the previous stock is not removed. *)
RenderKeepsFb(s, k) ==
  LET p == [Elements(s, k) EXCEPT !.fb = @ \/ page.fb]
      g == Assigned(globals, s, k)
      n == NewsList(s, k)
      tabs == k \in {"onenews", "news"}
  IN  /\ globals' = g
      /\ late' = FALSE
      /\ page' = IF tabs /\ loaded THEN WithTabs(p, g, n) ELSE p
      /\ IF tabs /\ ~loaded
         THEN /\ waiting' = waiting \cup {[use |-> nuse + 1, news |-> n]}
              /\ nuse' = nuse + 1
         ELSE UNCHANGED <<waiting, nuse>>

(* Mutant: #demoo is not cleared. *)
RenderKeepsTabs(s, k) ==
  LET p == [Elements(s, k) EXCEPT !.demoo = page.demoo]
      g == Assigned(globals, s, k)
      n == NewsList(s, k)
      tabs == k \in {"onenews", "news"}
  IN  /\ globals' = g
      /\ late' = FALSE
      /\ page' = IF tabs /\ loaded THEN WithTabs(p, g, n) ELSE p
      /\ IF tabs /\ ~loaded
         THEN /\ waiting' = waiting \cup {[use |-> nuse + 1, news |-> n]}
              /\ nuse' = nuse + 1
         ELSE UNCHANGED <<waiting, nuse>>

(* A full answer for stock s: the page is cleared and filled again. *)
Render(s, k) ==
  LET p == Elements(s, k)
      g == Assigned(globals, s, k)
      n == NewsList(s, k)
      tabs == k \in {"onenews", "news"}
  IN  /\ globals' = g
      /\ late' = FALSE
      /\ page' = IF tabs /\ loaded THEN WithTabs(p, g, n) ELSE p
      /\ IF tabs /\ ~loaded
         THEN /\ waiting' = waiting \cup {[use |-> nuse + 1, news |-> n]}
              /\ nuse' = nuse + 1
         ELSE UNCHANGED <<waiting, nuse>>

(* rs is the new requests: the state of req after the event. *)
changeRequest(rs) ==
  IF req # 0 /\ rs[req].readyState = 4 /\ rs[req].kind # "fail"
  THEN Render(rs[req].sym, rs[req].kind)
  ELSE UNCHANGED <<page, globals, waiting, nuse, late>>

(* Mutant: the handler renders the request whose event it handles. *)
ReadyStateChangeOwn(i, k) ==
  LET old == requests[i]
      rs  == old.readyState + 1
      new == [sym |-> old.sym, readyState |-> rs, kind |-> IF rs = 4 THEN k ELSE Null]
  IN  /\ old.readyState \in 1 .. 3
      /\ requests' = [requests EXCEPT ![i] = new]
      /\ changeRequest([j \in ReqId |-> new])
      /\ UNCHANGED <<nreq, req, loaded, shared, events>>

(* A request moves on and its onreadystatechange handler runs. *)
ReadyStateChange(i, k) ==
  LET old == requests[i]
      rs  == old.readyState + 1
      new == [sym |-> old.sym, readyState |-> rs, kind |-> IF rs = 4 THEN k ELSE Null]
  IN  /\ old.readyState \in 1 .. 3
      /\ requests' = [requests EXCEPT ![i] = new]
      /\ changeRequest(requests')
      /\ UNCHANGED <<nreq, req, loaded, shared, events>>

(* Mutant: a callback that comes after another search is dropped. *)
TabviewReadyOnce(w) ==
  /\ waiting' = {}
  /\ loaded' = TRUE
  /\ page' = IF w.use = nuse THEN WithTabs(page, globals, w.news) ELSE page
  /\ late' = TRUE
  /\ UNCHANGED <<requests, nreq, req, globals, nuse, shared, events>>

(* The tabview module has arrived for one of the waiting calls. *)
TabviewReady(w) ==
  /\ waiting' = waiting \ {w}
  /\ loaded' = TRUE
  /\ page' = WithTabs(page, globals, w.news)
  /\ late' = TRUE
  /\ UNCHANGED <<requests, nreq, req, globals, nuse, shared, events>>

-----------------------------------------------------------------------------
Next ==
  \/ \E s \in Symbol : Select(s)
  \/ \E x \in Symbol \cup {"", " "} : Submit(x)
  \/ postFB
  \/ \E i \in ReqId, k \in Kind : ReadyStateChange(i, k)
  \/ \E w \in waiting : TabviewReady(w)

Spec == Init /\ [][Next]_vars

-----------------------------------------------------------------------------
(* Properties. *)

(* Every variable has its type, and req is false or the newest request.    *)
TypeOK ==
  /\ requests \in [ReqId -> Request]
  /\ nreq \in 0 .. MaxReq
  /\ req \in {0, nreq}
  /\ \A i \in ReqId : requests[i].readyState = 0 <=> i > nreq
  /\ page \in Page
  /\ globals \in Globals
  /\ loaded \in BOOLEAN
  /\ waiting \subseteq [use : 1 .. nuse, news : Symbol \cup {Null}]
  /\ nuse \in Nat
  /\ shared \in Globals
  /\ late \in BOOLEAN
  /\ events \in 0 .. MaxEvents

Done(r) == r.readyState = 4 /\ r.kind # "fail"

(* Once the newest request has its answer the page shows that answer, and  *)
(* late events of older requests do not replace it.                        *)
NewestShown ==
  req # 0 /\ Done(requests[req]) =>
    [page EXCEPT !.demoo = << >>] = Elements(requests[req].sym, requests[req].kind)

(* A stock appears in the header only as the answer to the newest search:  *)
(* an answer that has been overtaken by another search is never shown.     *)
NoStaleHeader ==
  [][page'.header \notin {page.header, Null} =>
       req' # 0 /\ Done(requests'[req']) /\ page'.header = requests'[req'].sym]_vars

(* The post is put together from globals that every answer overwrites: it  *)
(* is about the stock in the header above the share button.                *)
PostsShown ==
  [][shared' # shared =>
       shared' = [ident |-> page.header, quote |-> page.header]]_vars

(* Unless the tab module came later than an answer, and always when there  *)
(* was a single search, there is at most one set of tabs, with the prices  *)
(* and the headlines of the stock in the header.                           *)
TabsMatch ==
  ~late \/ nreq = 1 =>
    \/ page.demoo = << >>
    \/ \E n \in {page.header, Null} :
         page.demoo = <<[quote |-> page.header, news |-> n]>>

(* The tabs of a complete page are there or on their way. *)
TabsNotLost == page.chart # Null => page.demoo # << >> \/ waiting # {}
=============================================================================
