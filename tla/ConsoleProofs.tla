---------------------------- MODULE ConsoleProofs ----------------------------
(***************************************************************************)
(* The console for every set of organizations, administrators and tickets  *)
(* and every number of requests: ConsoleInv is inductive.  Its core is     *)
(* that the number of the latest request of a panel bounds what the panel  *)
(* shows, and that a disabled button waits for exactly that request.       *)
(***************************************************************************)
EXTENDS Console, TLAPS

\* The panels that number their requests are panels.
LEMMA NumberedPanels == Numbered \subseteq Panels /\ NeedOrg \subseteq Panels
BY DEF Numbered, Panels, NeedOrg

\* The tab is at its login screen, or nothing is under way.
LEMMA ConsoleInitially == ConsoleInit => ConsoleInv
<1> SUFFICES ASSUME ConsoleInit PROVE ConsoleInv
  OBVIOUS
<1>1. PanelsOK
  BY NumberedPanels DEF ConsoleInit, PanelsOK
<1>2. CachesOK
  BY DEF ConsoleInit, CachesOK
<1>3. TabOK
  BY DEF ConsoleInit, TabOK, OperatorViewsGuarded, Restricted
<1>4. DetailOK
  BY DEF ConsoleInit, DetailOK, TicketSavesItsForm
<1>5. QED
  BY <1>1, <1>2, <1>3, <1>4 DEF ConsoleInv

-----------------------------------------------------------------------------
(***************************************************************************)
(* Requests and panels.                                                    *)
(***************************************************************************)

\* What may be sent beside the loads of panels.
Beside(new) ==
  \A q \in new : /\ q.id = issued + 1 /\ q.kind # "load"
                 /\ q.kind \in {"post", "review"} => q.target \in Panels
                 /\ q.kind = "cache" => q.target \in Caches

\* What stays in flight when an answer other than a panel's is dealt with.
Keeps(base) == base \subseteq inflight /\ \A q \in inflight \ base : q.kind # "load"

\* Requests other than loads leave the panels as they are.
LEMMA SendKeepsPanels ==
  ASSUME PanelsOK, NEW base, NEW new, Keeps(base), Beside(new), Send(base, new),
         UNCHANGED <<rows, busy, latest>>
  PROVE  PanelsOK'
<1>1. issued' \in Nat /\ issued' >= issued /\ inflight' = base \cup new
  BY DEF PanelsOK, Send
<1>2. \A q \in inflight' : /\ q.id \in Nat
                           /\ q.kind \in {"load", "post", "review"} => q.target \in Panels
                           /\ q.kind = "cache" => q.target \in Caches
  BY <1>1 DEF PanelsOK, Keeps, Beside
<1>3. \A q \in inflight : q.kind = "load" => q \in inflight'
  BY <1>1 DEF Keeps
<1>4. QED
  BY <1>1, <1>2, <1>3 DEF PanelsOK

\* The load functions number their requests above all others and disable the buttons.
LEMMA LoadKeepsPanels ==
  ASSUME PanelsOK, NEW who, NEW P \in SUBSET Panels, NEW chosen, NEW base, NEW others,
         Keeps(base), Beside(others), Load(who, P, chosen, base, others)
  PROVE  PanelsOK' /\ base \cup others \subseteq inflight'
<1> DEFINE loads == {p \in P : MayLoad(who, p, chosen)}
           empty == (P \cap Emptied) \cup {p \in P \cap NeedOrg : chosen[p] = None}
           new == {Req("load", p) : p \in loads}
<1>1. /\ inflight' = base \cup (new \cup others)
      /\ issued' = IF new \cup others = {} THEN issued ELSE issued + 1
      /\ rows' = [p \in Panels |-> IF p \in empty THEN None ELSE rows[p]]
      /\ latest' = [p \in Panels |-> IF p \in loads THEN issued + 1 ELSE latest[p]]
      /\ busy' = [p \in Panels |-> IF p \in loads \cap Numbered THEN TRUE ELSE busy[p]]
  BY DEF Load, Send
<1>2. \A q \in new : q.id = issued + 1 /\ q.kind = "load" /\ q.target \in loads
  BY DEF Req
<1>3. \A p \in loads : \E q \in new : q.kind = "load" /\ q.target = p /\ q.id = issued + 1
  <2>1. \A p \in loads : Req("load", p) \in new
    OBVIOUS
  <2>2. \A p \in loads : /\ Req("load", p).kind = "load" /\ Req("load", p).target = p
                         /\ Req("load", p).id = issued + 1
    BY DEF Req
  <2> HIDE DEF loads, new
  <2>3. QED
    BY <2>1, <2>2
<1>4. loads \subseteq Panels /\ (loads # {} => new # {})
  OBVIOUS
<1> HIDE DEF loads, empty, new
<1>5. /\ issued' \in Nat /\ issued' >= issued /\ (loads # {} => issued' = issued + 1)
      /\ rows' \in [Panels -> Nat \cup {None}] /\ latest' \in [Panels -> Nat] /\ busy' \in [Panels -> BOOLEAN]
  <2>1. issued' \in Nat /\ issued' >= issued /\ (loads # {} => issued' = issued + 1)
    BY <1>1, <1>4 DEF PanelsOK
  <2>2. rows' \in [Panels -> Nat \cup {None}] /\ latest' \in [Panels -> Nat]
    BY <1>1 DEF PanelsOK
  <2>3. busy' \in [Panels -> BOOLEAN]
    BY <1>1 DEF PanelsOK
  <2>4. QED
    BY <2>1, <2>2, <2>3
<1>6. \A q \in inflight' : /\ q.id \in Nat
                           /\ q.kind \in {"load", "post", "review"} => q.target \in Panels
                           /\ q.kind = "cache" => q.target \in Caches
  BY <1>1, <1>2, <1>4 DEF PanelsOK, Keeps, Beside
<1>7. \A p \in Panels : latest'[p] <= issued'
  BY <1>1, <1>5 DEF PanelsOK
<1>8. \A p \in Numbered : rows'[p] # None => rows'[p] <= latest'[p]
  BY <1>1, <1>5, NumberedPanels DEF PanelsOK
<1>9. ASSUME NEW p \in Panels, busy'[p]
      PROVE  p \in Numbered /\ \E q \in inflight' : q.kind = "load" /\ q.target = p /\ q.id = latest'[p]
  <2>1. CASE p \in loads \cap Numbered
    BY <1>1, <1>3, <2>1
  <2>2. CASE p \notin loads \cap Numbered
    <3>1. busy[p]
      BY <1>1, <1>9, <2>2
    <3>2. p \in Numbered /\ \E q \in inflight : q.kind = "load" /\ q.target = p /\ q.id = latest[p]
      BY <3>1 DEF PanelsOK
    <3>3. QED
      BY <1>1, <2>2, <3>2 DEF Keeps
  <2>3. QED
    BY <2>1, <2>2
<1>10. QED
  BY <1>1, <1>5, <1>6, <1>7, <1>8, <1>9 DEF PanelsOK

\* The answer to a load is shown when it is the latest, and then enables the button.
LEMMA LoadAnsweredKeepsPanels ==
  ASSUME PanelsOK, NEW q \in inflight, NEW outcome, LoadAnswered(q, outcome)
  PROVE  PanelsOK'
<1>1. /\ q.target \in Panels /\ q.id \in Nat /\ inflight' = inflight \ {q}
      /\ UNCHANGED <<latest, issued>>
  BY DEF LoadAnswered, PanelsOK
<1>2. CASE Current(q)
  <2>1. /\ busy' = [busy EXCEPT ![q.target] = FALSE]
        /\ \E r \in {q.id, None, rows[q.target]} : rows' = [rows EXCEPT ![q.target] = r]
        /\ q.target \in Numbered => q.id = latest[q.target]
    BY <1>1, <1>2 DEF LoadAnswered, AnsweredBusy, AnsweredRows, Current, PanelsOK
  <2>2. QED
    BY <1>1, <2>1, NumberedPanels DEF PanelsOK
<1>3. CASE ~Current(q)
  <2>1. UNCHANGED <<rows, busy>> /\ q.id # latest[q.target]
    BY <1>3 DEF LoadAnswered, AnsweredBusy, AnsweredRows, Current
  <2>2. QED
    BY <1>1, <2>1 DEF PanelsOK
<1>4. QED
  BY <1>2, <1>3

-----------------------------------------------------------------------------
(***************************************************************************)
(* Caches and the router.                                                  *)
(***************************************************************************)

\* As long as no promise is made and no load of a cache ends, the caches stay as they are.
LEMMA CachesKept ==
  ASSUME CachesOK, promise' = promise, waiting' \subseteq waiting,
         \A q \in inflight : q.kind = "cache" => q \in inflight'
  PROVE  CachesOK'
BY DEF CachesOK

\* A promise is made together with its request.
LEMMA PromiseKeepsCaches ==
  ASSUME CachesOK, issued \in Nat, NEW C \in SUBSET Caches, promise' = Promised(C), waiting' \subseteq Panels,
         \A q \in inflight : q.kind = "cache" => q \in inflight', CacheRequests(C) \subseteq inflight'
  PROVE  CachesOK'
<1>1. promise' \in [Caches -> Nat \cup {None}]
  BY DEF Promised, CachesOK
<1>2. \A c \in C : Needed(c) => Req("cache", c) \in inflight'
  BY DEF CacheRequests
<1>3. \A c \in C : Req("cache", c).kind = "cache" /\ Req("cache", c).target = c
  BY DEF Req
<1>4. \A c \in Caches : promise'[c] = promise[c] \/ (c \in C /\ Needed(c))
  BY DEF Promised
<1>5. QED
  BY <1>1, <1>2, <1>3, <1>4 DEF CachesOK

\* The requests of caches can be sent beside loads.
LEMMA CacheRequestsBeside == ASSUME NEW C \in SUBSET Caches PROVE Beside(CacheRequests(C))
BY DEF Beside, CacheRequests, Req

\* The handlers of the views load panels.
LEMMA EnterPanels ==
  ASSUME NEW who, NEW v
  PROVE  EnterLoads(who, v) \subseteq Panels /\ EnterWaits(v) \subseteq Panels /\ EnterCaches(v) \subseteq Caches
BY DEF EnterLoads, EnterWaits, EnterCaches, renderSecurity, Panels, NeedOrg, Caches

\* The router shows an operator view to superadmins only, and at most a redirect is still to come.
LEMMA DispatchKeeps ==
  ASSUME ConsoleInv, NEW who, NEW base, NEW C \in SUBSET Caches, Keeps(base),
         \A q \in inflight \ base : q.kind # "cache", dispatch(who, base, C)
  PROVE  PanelsOK' /\ CachesOK' /\ (view' \in Restricted /\ ~event' => IsSuper(who))
<1>1. PanelsOK /\ CachesOK /\ issued \in Nat
  BY DEF ConsoleInv, PanelsOK
<1>2. CASE Refused(who, hash)
  <2>1. /\ event' = TRUE /\ promise' = Promised(C) /\ waiting' = waiting
        /\ Load(who, {}, sel, base, CacheRequests(C))
    BY <1>2 DEF dispatch
  <2>2. PanelsOK' /\ base \cup CacheRequests(C) \subseteq inflight'
    BY <1>1, <2>1, LoadKeepsPanels, CacheRequestsBeside
  <2>3. CachesOK'
    BY <1>1, <2>1, <2>2, PromiseKeepsCaches DEF CachesOK
  <2>4. event'
    BY <2>1
  <2>5. QED
    BY <2>2, <2>3, <2>4
<1>3. CASE ~Refused(who, hash)
  <2> DEFINE D == C \cup EnterCaches(hash)
  <2>1. /\ view' = hash /\ promise' = Promised(D) /\ waiting' = waiting \cup EnterWaits(hash)
        /\ \E chosen : Load(who, EnterLoads(who, hash), chosen, base, CacheRequests(D))
    BY <1>3 DEF dispatch
  <2>2. D \subseteq Caches /\ EnterLoads(who, hash) \subseteq Panels /\ waiting' \subseteq Panels
    BY <1>1, <2>1, EnterPanels DEF CachesOK
  <2> HIDE DEF D
  <2>3. PanelsOK' /\ base \cup CacheRequests(D) \subseteq inflight'
    BY <1>1, <2>1, <2>2, LoadKeepsPanels, CacheRequestsBeside
  <2>4. CachesOK'
    BY <1>1, <2>1, <2>2, <2>3, PromiseKeepsCaches
  <2>5. view' \in Restricted => IsSuper(who)
    BY <1>3, <2>1 DEF Refused
  <2>6. QED
    BY <2>3, <2>4, <2>5
<1>4. QED
  BY <1>2, <1>3

-----------------------------------------------------------------------------
(***************************************************************************)
(* The steps.                                                              *)
(***************************************************************************)

\* A 401 brings the login screen, any other answer leaves the tab's session alone.
LEMMA ApiKeepsTab ==
  ASSUME TabOK, NEW q, NEW outcome, api(q, outcome), UNCHANGED <<me, view, event, mixed>>
  PROVE  TabOK'
BY DEF TabOK, api, OperatorViewsGuarded

\* So do the steps that touch neither the session nor the router.
LEMMA TabKept ==
  ASSUME TabOK, UNCHANGED <<token, me, screen, view, event, mixed>>
  PROVE  TabOK'
BY DEF TabOK, OperatorViewsGuarded

\* The open ticket and its form stay together where neither is touched.
LEMMA DetailKept == ASSUME DetailOK, UNCHANGED <<detail, patched>> PROVE DetailOK'
BY DEF DetailOK, TicketSavesItsForm

\* The controls of a panel: a refresh, a selection, a filter.
LEMMA ControlsKeepInv ==
  ASSUME ConsoleInv, NEW p \in Panels, Refresh(p) \/ Choose(p) \/ Refilter(p)
  PROVE  ConsoleInv'
<1> USE DEF session, router, caches, history, requests
<1>1. Keeps(inflight) /\ Beside({}) /\ {p} \in SUBSET Panels
  BY DEF Keeps, Beside
<1>2. UNCHANGED <<token, me, screen, view, event, mixed, detail, patched, promise, waiting>>
  BY DEF Refresh, Choose, Select, Refilter
<1>3. \/ \E chosen : Load(me, {p}, chosen, inflight, {})
      \/ UNCHANGED <<rows, busy, latest, inflight, issued>>
  BY DEF Refresh, Choose, Select, Refilter
<1>4. PanelsOK' /\ inflight \subseteq inflight'
  <2>1. CASE \E chosen : Load(me, {p}, chosen, inflight, {})
    BY <1>1, <2>1, LoadKeepsPanels DEF ConsoleInv
  <2>2. CASE UNCHANGED <<rows, busy, latest, inflight, issued>>
    BY <2>2 DEF ConsoleInv, PanelsOK
  <2>3. QED
    BY <1>3, <2>1, <2>2
<1>5. CachesOK'
  BY <1>2, <1>4, CachesKept DEF ConsoleInv
<1>6. QED
  BY <1>2, <1>4, <1>5, TabKept, DetailKept DEF ConsoleInv

\* A request for a change, or for a ticket: nothing but the request is added.
LEMMA SendKeepsInv ==
  ASSUME ConsoleInv, NEW what \in {"post", "review", "org", "open", "patch", "totp"}, NEW x,
         what \in {"post", "review"} => x \in Panels,
         Send(inflight, {Req(what, x)}),
         UNCHANGED <<token, me, screen, view, event, mixed, rows, busy, latest, promise, waiting>>
  PROVE  PanelsOK' /\ CachesOK' /\ TabOK'
<1>1. Keeps(inflight) /\ Beside({Req(what, x)})
  BY DEF Keeps, Beside, Req
<1>2. inflight \subseteq inflight'
  BY DEF Send
<1>3. PanelsOK'
  BY <1>1, SendKeepsPanels DEF ConsoleInv
<1>4. QED
  BY <1>2, <1>3, CachesKept, TabKept DEF ConsoleInv

\* The steps of the administrator.
LEMMA UserKeepsInv ==
  ASSUME ConsoleInv,
         \/ saveServiceBinding \/ changeServiceState \/ revokeOrBindDevice \/ reviewLearning
         \/ updateCrashReport \/ createPerson \/ changeUser \/ changeProviderKey \/ createOrg
         \/ (\E t \in Tickets : openTicket(t)) \/ closeTicketDetail \/ saveTicket \/ changeSecondFactor
  PROVE  ConsoleInv'
<1> USE DEF session, router, panels, caches, history, requests
<1>1. ASSUME NEW what \in {"post", "review", "org"}, NEW p \in Panels, Post(what, p) PROVE ConsoleInv'
  <2>1. /\ Send(inflight, {Req(what, p)}) /\ UNCHANGED <<detail, patched>>
        /\ UNCHANGED <<token, me, screen, view, event, mixed, rows, busy, latest, promise, waiting>>
    BY <1>1 DEF Post
  <2>2. QED
    BY <2>1, SendKeepsInv, DetailKept DEF ConsoleInv
<1>2. CASE changeSecondFactor
  <2>1. /\ Send(inflight, {Req("totp", None)}) /\ UNCHANGED <<detail, patched>>
        /\ UNCHANGED <<token, me, screen, view, event, mixed, rows, busy, latest, promise, waiting>>
    BY <1>2 DEF changeSecondFactor
  <2>2. QED
    BY <2>1, SendKeepsInv, DetailKept DEF ConsoleInv
<1>3. ASSUME NEW t \in Tickets, openTicket(t) PROVE ConsoleInv'
  <2>1. /\ Send(inflight, {Req("open", t)}) /\ UNCHANGED <<detail, patched>>
        /\ UNCHANGED <<token, me, screen, view, event, mixed, rows, busy, latest, promise, waiting>>
    BY <1>3 DEF openTicket
  <2>2. QED
    BY <2>1, SendKeepsInv, DetailKept DEF ConsoleInv
<1>4. CASE saveTicket
  <2>1. /\ Send(inflight, {Req("patch", detail.ticket)}) /\ detail' = detail
        /\ patched' = patched \cup {detail} /\ detail.ticket # None
        /\ UNCHANGED <<token, me, screen, view, event, mixed, rows, busy, latest, promise, waiting>>
    BY <1>4 DEF saveTicket
  <2>2. DetailOK'
    BY <2>1 DEF ConsoleInv, DetailOK, TicketSavesItsForm
  <2>3. PanelsOK' /\ CachesOK' /\ TabOK'
    BY <2>1, SendKeepsInv
  <2>4. QED
    BY <2>2, <2>3 DEF ConsoleInv
<1>5. CASE closeTicketDetail
  <2>1. DetailOK'
    <3>1. detail' = [detail EXCEPT !.ticket = None] /\ patched' = patched
      BY <1>5 DEF closeTicketDetail
    <3>2. detail'.ticket = None \/ detail' = detail
      BY <3>1
    <3>3. QED
      BY <3>1, <3>2 DEF ConsoleInv, DetailOK, TicketSavesItsForm
  <2>2. PanelsOK' /\ CachesOK'
    BY <1>5 DEF closeTicketDetail, ConsoleInv, PanelsOK, CachesOK
  <2>3. TabOK'
    BY <1>5, TabKept DEF closeTicketDetail, ConsoleInv
  <2>4. QED
    BY <2>1, <2>2, <2>3 DEF ConsoleInv
<1>6. {"services", "fleet", "learnings", "crashes", "people", "users", "provider"} \subseteq Panels
  BY DEF Panels, NeedOrg
<1>7. QED
  BY <1>1, <1>2, <1>3, <1>4, <1>5, <1>6 DEF saveServiceBinding, changeServiceState, revokeOrBindDevice,
     reviewLearning, updateCrashReport, createPerson, changeUser, changeProviderKey, createOrg

\* Logins, logouts and navigation.
LEMMA SessionKeepsInv ==
  ASSUME ConsoleInv,
         \/ \E s \in Sessions : login(s) \/ Expire(s)
         \/ logout \/ hashchange
         \/ \E v \in Views : navigate(v)
  PROVE  ConsoleInv'
<1> USE DEF session, router, panels, caches, history, requests
<1>1. ASSUME NEW s \in Sessions, login(s) PROVE ConsoleInv'
  <2> DEFINE q == [kind |-> "me", target |-> None, id |-> issued + 1, tok |-> s]
  <2>1. /\ Send(inflight, {q}) /\ screen = "login"
        /\ UNCHANGED <<screen, view, event, mixed, rows, busy, latest, promise, waiting, detail, patched>>
    BY <1>1 DEF login
  <2>2. Keeps(inflight) /\ Beside({q})
    BY DEF Keeps, Beside
  <2> HIDE DEF q
  <2>3. PanelsOK'
    BY <2>1, <2>2, SendKeepsPanels DEF ConsoleInv
  <2>4. CachesOK'
    BY <2>1, CachesKept DEF ConsoleInv, Send
  <2>5. TabOK'
    BY <2>1 DEF TabOK, OperatorViewsGuarded
  <2>6. QED
    BY <2>1, <2>3, <2>4, <2>5, DetailKept DEF ConsoleInv
<1>2. CASE hashchange
  <2>1. /\ dispatch(me, inflight, {}) /\ UNCHANGED <<token, me, screen, mixed, detail, patched>>
    BY <1>2 DEF hashchange
  <2>2. Keeps(inflight)
    BY DEF Keeps
  <2>3. PanelsOK' /\ CachesOK' /\ (view' \in Restricted /\ ~event' => IsSuper(me))
    BY <2>1, <2>2, DispatchKeeps
  <2>4. TabOK'
    BY <2>1, <2>3 DEF ConsoleInv, TabOK, OperatorViewsGuarded
  <2>5. QED
    BY <2>1, <2>3, <2>4, DetailKept DEF ConsoleInv
<1>3. CASE logout \/ (\E s \in Sessions : Expire(s)) \/ \E v \in Views : navigate(v)
  <2>1. UNCHANGED <<rows, busy, latest, promise, waiting, inflight, issued, detail, patched, view, mixed>>
    BY <1>3 DEF logout, Expire, navigate
  <2>2. PanelsOK' /\ CachesOK' /\ DetailOK'
    BY <2>1, DetailKept DEF ConsoleInv, PanelsOK, CachesOK
  <2>3. TabOK'
    <3>1. CASE logout
      BY <3>1 DEF logout, TabOK, OperatorViewsGuarded
    <3>2. CASE \E s \in Sessions : Expire(s)
      BY <3>2, TabKept DEF Expire, ConsoleInv
    <3>3. CASE \E v \in Views : navigate(v)
      <4>1. event' = TRUE /\ UNCHANGED <<token, me, screen, mixed>>
        BY <3>3 DEF navigate
      <4>2. QED
        BY <4>1 DEF ConsoleInv, TabOK, OperatorViewsGuarded
    <3>4. QED
      BY <1>3, <3>1, <3>2, <3>3
  <2>4. QED
    BY <2>2, <2>3 DEF ConsoleInv
<1>4. QED
  BY <1>1, <1>2, <1>3

\* Answers, in whatever order and however late they come.
LEMMA AnswersKeepInv ==
  ASSUME ConsoleInv, NEW q \in inflight, NEW outcome \in Outcomes(q), Answered(q, outcome)
  PROVE  ConsoleInv'
<1> USE DEF router, panels, caches, history
<1>0. q.kind # "load" => Keeps(inflight \ {q})
  BY DEF Keeps
<1>1. Beside({}) /\ inflight \ {q} \subseteq inflight
  BY DEF Beside
<1>2. CASE LoadAnswered(q, outcome)
  <2>1. /\ q.kind = "load" /\ inflight' = inflight \ {q} /\ api(q, outcome)
        /\ UNCHANGED <<me, view, event, mixed, promise, waiting, patched>>
        /\ detail' = detail \/ detail' = [detail EXCEPT !.ticket = None]
    BY <1>2 DEF LoadAnswered
  <2>2. CachesOK'
    BY <2>1, CachesKept DEF ConsoleInv
  <2>3. detail'.ticket = None \/ detail' = detail
    <3>1. CASE detail' = [detail EXCEPT !.ticket = None]
      BY <3>1
    <3>2. QED
      BY <2>1, <3>1
  <2>4. DetailOK'
    BY <2>1, <2>3 DEF ConsoleInv, DetailOK, TicketSavesItsForm
  <2>5. PanelsOK' /\ TabOK'
    BY <1>2, <2>1, LoadAnsweredKeepsPanels, ApiKeepsTab DEF ConsoleInv
  <2>6. QED
    BY <2>2, <2>4, <2>5 DEF ConsoleInv
<1>3. CASE CacheAnswered(q, outcome)
  <2>1. PICK P, chosen : /\ Load(me, P, chosen, inflight \ {q}, {})
                         /\ P \subseteq waiting \cup {"people"}
    <3> DEFINE Loads(P, chosen) == /\ Load(me, P, chosen, inflight \ {q}, {})
                                   /\ P \subseteq waiting \cup {"people"}
    <3>1. CASE q.target # "orgs"
      <4>1. Loads({}, sel)
        BY <1>3, <3>1 DEF CacheAnswered
      <4>2. QED
        BY <4>1
    <3>2. CASE q.target = "orgs" /\ outcome # "ok"
      <4>1. Loads(waiting, [p \in NeedOrg |-> IF p = "services" THEN sel[p] ELSE None])
        BY <1>3, <3>2 DEF CacheAnswered, OrgsAnswered
      <4>2. QED
        BY <4>1
    <3>3. CASE q.target = "orgs" /\ outcome = "ok"
      <4>1. OrgsAnswered(outcome, inflight \ {q})
        BY <1>3, <3>3 DEF CacheAnswered
      <4>2. PICK list, first :
              LET chosen == FirstChosen(me, waiting, first, paintOrgChoices(list))
                  people == IF chosen["people"] # None THEN {"people"} ELSE {}
              IN Load(me, waiting \cup people, chosen, inflight \ {q}, {})
        BY <3>3, <4>1 DEF OrgsAnswered
      <4> DEFINE chosen == FirstChosen(me, waiting, first, paintOrgChoices(list))
                 people == IF chosen["people"] # None THEN {"people"} ELSE {}
      <4>3. Load(me, waiting \cup people, chosen, inflight \ {q}, {})
        BY <4>2
      <4>4. people \subseteq {"people"}
        OBVIOUS
      <4> HIDE DEF chosen, people
      <4>5. Loads(waiting \cup people, chosen)
        BY <4>3, <4>4
      <4>6. QED
        BY <4>5
    <3>4. QED
      BY <3>1, <3>2, <3>3
  <2>2. /\ q.kind = "cache" /\ api(q, outcome) /\ waiting' \subseteq waiting
        /\ promise' = [promise EXCEPT ![q.target] = None]
        /\ UNCHANGED <<me, view, event, mixed, detail, patched>>
    BY <1>3 DEF CacheAnswered, PromiseSettled
  <2>3. P \subseteq Panels
    BY <2>1 DEF ConsoleInv, CachesOK, Panels, NeedOrg
  <2>4. PanelsOK' /\ inflight \ {q} \subseteq inflight'
    BY <1>0, <1>1, <2>1, <2>2, <2>3, LoadKeepsPanels DEF ConsoleInv
  <2>5. CachesOK'
    BY <2>2, <2>4 DEF ConsoleInv, CachesOK, PanelsOK
  <2>6. QED
    BY <2>2, <2>4, <2>5, ApiKeepsTab, DetailKept DEF ConsoleInv
<1>4. CASE boot(q, outcome)
  <2>1. /\ q.kind = "me" /\ UNCHANGED <<detail, patched>> /\ mixed' = (mixed \/ q.tok # token)
    BY <1>4 DEF boot
  <2>2. CASE outcome # "ok"
    <3>1. /\ screen' = "login" /\ inflight' = inflight \ {q}
          /\ UNCHANGED <<rows, busy, latest, promise, waiting, issued>>
      BY <1>4, <2>2 DEF boot
    <3>2. PanelsOK'
      BY <2>1, <3>1 DEF ConsoleInv, PanelsOK
    <3>3. CachesOK'
      BY <2>1, <3>1, CachesKept DEF ConsoleInv
    <3>4. TabOK'
      BY <3>1 DEF TabOK, OperatorViewsGuarded
    <3>5. QED
      BY <2>1, <3>2, <3>3, <3>4, DetailKept DEF ConsoleInv
  <2>3. CASE outcome = "ok"
    <3>1. me' = q.tok /\ token' = token /\ dispatch(q.tok, inflight \ {q}, {"orgs"})
      BY <1>4, <2>3 DEF boot
    <3>2. PanelsOK' /\ CachesOK' /\ (view' \in Restricted /\ ~event' => IsSuper(q.tok))
      BY <1>0, <2>1, <3>1, DispatchKeeps DEF Caches
    <3>3. TabOK'
      BY <2>1, <3>1, <3>2 DEF TabOK, OperatorViewsGuarded
    <3>4. QED
      BY <2>1, <3>2, <3>3, DetailKept DEF ConsoleInv
  <2>4. QED
    BY <2>2, <2>3
<1>5. CASE RefreshedMe(q, outcome)
  <2>1. /\ q.kind = "again" /\ api(q, outcome)
        /\ me' \in {me, q.tok} /\ mixed' = (mixed \/ q.tok # token)
        /\ UNCHANGED <<promise, waiting, detail, patched, view, event>>
    BY <1>5 DEF RefreshedMe
  <2>2. PICK P \in SUBSET {"provider"} : Load(me', P, sel, inflight \ {q}, {})
    BY <1>5 DEF RefreshedMe, renderSecurity
  <2>3. PanelsOK' /\ inflight \ {q} \subseteq inflight'
    <3>1. P \in SUBSET Panels
      BY DEF Panels
    <3>2. QED
      BY <1>0, <1>1, <2>1, <2>2, <3>1, LoadKeepsPanels DEF ConsoleInv
  <2>4. CachesOK'
    BY <2>1, <2>3, CachesKept DEF ConsoleInv
  <2>5. TabOK'
    <3>1. CASE screen' = "app" /\ ~mixed'
      <4>1. screen = "app" /\ ~mixed /\ q.tok = token /\ token' = token /\ me = token
        BY <2>1, <3>1 DEF api, ConsoleInv, TabOK
      <4>2. QED
        BY <2>1, <3>1, <4>1 DEF ConsoleInv, TabOK, OperatorViewsGuarded
    <3>2. CASE ~(screen' = "app" /\ ~mixed')
      BY <3>2 DEF TabOK, OperatorViewsGuarded
    <3>3. QED
      BY <3>1, <3>2
  <2>6. QED
    BY <2>1, <2>3, <2>4, <2>5, DetailKept DEF ConsoleInv
<1>9. CASE refreshMe(q, outcome)
  <2>1. /\ q.kind = "totp" /\ api(q, outcome)
        /\ UNCHANGED <<me, view, event, mixed, rows, busy, latest, promise, waiting, detail, patched>>
    BY <1>9 DEF refreshMe
  <2>2. PICK new \in SUBSET {Req("again", None)} : Send(inflight \ {q}, new)
    BY <1>9 DEF refreshMe
  <2>3. Beside(new)
    BY DEF Beside, Req
  <2>4. PanelsOK' /\ CachesOK'
    BY <1>0, <2>1, <2>2, <2>3, SendKeepsPanels, CachesKept DEF ConsoleInv, Send
  <2>5. QED
    BY <2>1, <2>4, ApiKeepsTab, DetailKept DEF ConsoleInv
<1>6. CASE PostAnswered(q, outcome)
  <2>1. /\ q.kind \in {"post", "review"} /\ api(q, outcome)
        /\ \E P \in SUBSET {q.target} : Load(me, P, sel, inflight \ {q}, {})
        /\ UNCHANGED <<me, view, event, mixed, promise, waiting, detail, patched>>
    BY <1>6 DEF PostAnswered
  <2>2. q.target \in Panels
    BY <2>1 DEF ConsoleInv, PanelsOK
  <2>3. PanelsOK' /\ inflight \ {q} \subseteq inflight'
    BY <1>0, <1>1, <2>1, <2>2, LoadKeepsPanels DEF ConsoleInv
  <2>4. CachesOK'
    BY <2>1, <2>3, CachesKept DEF ConsoleInv
  <2>5. QED
    BY <2>1, <2>3, <2>4, ApiKeepsTab, DetailKept DEF ConsoleInv
<1>7. CASE OrgCreated(q, outcome)
  <2>1. /\ q.kind = "org" /\ api(q, outcome)
        /\ UNCHANGED <<me, view, event, mixed, rows, busy, latest, waiting, detail, patched>>
    BY <1>7 DEF OrgCreated
  <2>2. CASE outcome # "ok"
    <3>1. inflight' = inflight \ {q} /\ UNCHANGED <<promise, issued>>
      BY <1>7, <2>2 DEF OrgCreated
    <3>2. PanelsOK' /\ CachesOK'
      BY <2>1, <3>1, CachesKept DEF ConsoleInv, PanelsOK
    <3>3. QED
      BY <2>1, <3>2, ApiKeepsTab, DetailKept DEF ConsoleInv
  <2>3. CASE outcome = "ok"
    <3>1. /\ promise' = [promise EXCEPT !["orgs"] = issued + 1]
          /\ Send(inflight \ {q}, {Req("cache", "orgs")})
      BY <1>7, <2>3 DEF OrgCreated, getOrgChoicesForced
    <3>2. Beside({Req("cache", "orgs")}) /\ Req("cache", "orgs").kind = "cache"
          /\ Req("cache", "orgs").target = "orgs"
      BY DEF Beside, Req, Caches
    <3>3. PanelsOK'
      BY <1>0, <2>1, <3>1, <3>2, SendKeepsPanels DEF ConsoleInv
    <3>4. CachesOK'
      <4>1. /\ Req("cache", "orgs") \in inflight' /\ inflight \ {q} \subseteq inflight'
        BY <3>1 DEF Send
      <4>2. promise' \in [Caches -> Nat \cup {None}] /\ \A c \in Caches \ {"orgs"} : promise'[c] = promise[c]
        <5>1. issued + 1 \in Nat /\ promise \in [Caches -> Nat \cup {None}]
          BY DEF ConsoleInv, CachesOK, PanelsOK
        <5>2. QED
          BY <3>1, <5>1
      <4>3. QED
        BY <2>1, <3>2, <4>1, <4>2 DEF ConsoleInv, CachesOK
    <3>5. QED
      BY <2>1, <3>3, <3>4, ApiKeepsTab, DetailKept DEF ConsoleInv
  <2>4. QED
    BY <2>2, <2>3
<1>8. CASE TicketAnswered(q, outcome)
  <2>1. /\ q.kind \in {"open", "patch", "reread"} /\ api(q, outcome)
        /\ UNCHANGED <<me, view, event, mixed, promise, waiting, patched>>
    BY <1>8 DEF TicketAnswered
  <2>2. PICK P \in SUBSET {"tickets"}, new \in SUBSET {Req("reread", detail.ticket)} :
          Load(me, P, sel, inflight \ {q}, new)
    BY <1>8 DEF TicketAnswered
  <2>3. detail' = detail \/ detail' = [ticket |-> q.target, form |-> q.target]
    BY <1>8 DEF TicketAnswered, renderTicketDetail
  <2>4. Beside(new) /\ P \subseteq Panels
    BY DEF Beside, Req, Panels
  <2>5. PanelsOK' /\ inflight \ {q} \subseteq inflight'
    BY <1>0, <2>1, <2>2, <2>4, LoadKeepsPanels DEF ConsoleInv
  <2>6. CachesOK'
    BY <2>1, <2>5, CachesKept DEF ConsoleInv
  <2>7. DetailOK'
    BY <2>1, <2>3 DEF ConsoleInv, DetailOK, TicketSavesItsForm
  <2>8. QED
    BY <2>1, <2>5, <2>6, <2>7, ApiKeepsTab DEF ConsoleInv
<1>10. QED
  BY <1>2, <1>3, <1>4, <1>5, <1>6, <1>7, <1>8, <1>9 DEF Answered

\* Every step keeps ConsoleInv.
LEMMA ConsoleStep == ConsoleInv /\ [ConsoleNext]_consoleVars => ConsoleInv'
<1> SUFFICES ASSUME ConsoleInv, [ConsoleNext]_consoleVars PROVE ConsoleInv'
  OBVIOUS
<1>1. {"learnings", "usage", "tickets", "crashes", "fleet", "services", "people", "provider"} \subseteq Panels
  BY DEF Panels, NeedOrg
<1>2. CASE \/ loadLearnings \/ loadUsage \/ loadFeedbackTickets \/ loadCrashReports
           \/ loadFleet \/ loadServiceBindings \/ loadEnrollPeople \/ loadProviderStatus
  BY <1>1, <1>2, ControlsKeepInv DEF loadLearnings, loadUsage, loadFeedbackTickets, loadCrashReports,
     loadFleet, loadServiceBindings, loadEnrollPeople, loadProviderStatus
<1>3. CASE UNCHANGED consoleVars
  <2>1. PanelsOK' /\ CachesOK'
    BY <1>3 DEF consoleVars, panels, caches, requests, ConsoleInv, PanelsOK, CachesOK
  <2>2. TabOK' /\ DetailOK'
    BY <1>3, TabKept, DetailKept DEF consoleVars, session, router, history, ConsoleInv
  <2>3. QED
    BY <2>1, <2>2 DEF ConsoleInv
<1>4. QED
  BY <1>2, <1>3, UserKeepsInv, SessionKeepsInv, AnswersKeepInv DEF ConsoleNext

-----------------------------------------------------------------------------
\* ConsoleInv holds in every reachable state of the tab.
THEOREM ConsoleInvariant == ConsoleSpec => []ConsoleInv
BY ConsoleInitially, ConsoleStep, PTL DEF ConsoleSpec

\* The finally blocks: no error and no overtaken answer leaves a button disabled or a cache waiting
\* for a load that has ended.
THEOREM TabComesToRest == ConsoleSpec => []RestIsReady
<1>1. ConsoleInv => RestIsReady
  BY DEF ConsoleInv, PanelsOK, CachesOK, RestIsReady
<1>2. QED
  BY <1>1, ConsoleInvariant, PTL

\* dispatch and boot: only a superadmin looks at the operator views, across logouts, logins of
\* someone else, typed URLs and late answers.
THEOREM OperatorViewsStayGuarded == ConsoleSpec => []OperatorViewsGuarded
<1>1. ConsoleInv => OperatorViewsGuarded
  BY DEF ConsoleInv, TabOK
<1>2. QED
  BY <1>1, ConsoleInvariant, PTL

\* renderTicketDetail, saveTicket: a saved ticket carries the values of its own form.
THEOREM SavedTicketsMatch == ConsoleSpec => []TicketSavesItsForm
<1>1. ConsoleInv => TicketSavesItsForm
  BY DEF ConsoleInv, DetailOK
<1>2. QED
  BY <1>1, ConsoleInvariant, PTL

\* A step shows an answer or empties a panel, or leaves the panels as they are.
RowsMove ==
  \/ \A p \in Panels : rows'[p] \in {rows[p], None}
  \/ \E q \in inflight, outcome \in {"ok", "failed", "unauthorized"} :
       LoadAnswered(q, outcome)

\* Every step is such a step.
LEMMA RowsStep == [ConsoleNext]_consoleVars => RowsMove
<1> SUFFICES ASSUME [ConsoleNext]_consoleVars PROVE RowsMove
  OBVIOUS
<1>1. ASSUME NEW who, NEW P, NEW chosen, NEW base, NEW others, Load(who, P, chosen, base, others)
      PROVE  \A p \in Panels : rows'[p] \in {rows[p], None}
  BY <1>1 DEF Load
<1>2. ASSUME rows' = rows PROVE \A p \in Panels : rows'[p] \in {rows[p], None}
  BY <1>2
<1>3. ASSUME NEW who, NEW base, NEW C, dispatch(who, base, C)
      PROVE  \A p \in Panels : rows'[p] \in {rows[p], None}
  BY <1>1, <1>3 DEF dispatch
<1>4. ASSUME NEW p, Refresh(p) \/ Choose(p) \/ Refilter(p) PROVE RowsMove
  BY <1>1, <1>2, <1>4 DEF Refresh, Choose, Select, Refilter, RowsMove
<1>5. CASE \/ loadLearnings \/ loadUsage \/ loadFeedbackTickets \/ loadCrashReports
           \/ loadFleet \/ loadServiceBindings \/ loadEnrollPeople \/ loadProviderStatus
  BY <1>4, <1>5 DEF loadLearnings, loadUsage, loadFeedbackTickets, loadCrashReports,
     loadFleet, loadServiceBindings, loadEnrollPeople, loadProviderStatus
<1>6. CASE \/ saveServiceBinding \/ changeServiceState \/ revokeOrBindDevice \/ reviewLearning
           \/ updateCrashReport \/ createPerson \/ changeUser \/ changeProviderKey \/ createOrg
           \/ (\E t \in Tickets : openTicket(t)) \/ closeTicketDetail \/ saveTicket \/ changeSecondFactor
           \/ (\E s \in Sessions : login(s) \/ Expire(s)) \/ logout \/ \E v \in Views : navigate(v)
  <2>1. rows' = rows
    BY <1>6 DEF saveServiceBinding, changeServiceState, revokeOrBindDevice, reviewLearning, updateCrashReport,
       createPerson, changeUser, changeProviderKey, createOrg, Post, openTicket, closeTicketDetail, saveTicket,
       changeSecondFactor, login, Expire, logout, navigate, panels
  <2>2. QED
    BY <1>2, <2>1 DEF RowsMove
<1>7. CASE hashchange
  BY <1>3, <1>7 DEF hashchange, RowsMove
<1>8. ASSUME NEW q \in inflight, NEW outcome \in Outcomes(q), Answered(q, outcome) PROVE RowsMove
  <2>1. CASE LoadAnswered(q, outcome)
    BY <2>1, <1>8 DEF Outcomes, RowsMove
  <2>2. CASE CacheAnswered(q, outcome) \/ PostAnswered(q, outcome) \/ RefreshedMe(q, outcome)
    BY <1>1, <2>2 DEF CacheAnswered, OrgsAnswered, PostAnswered, RefreshedMe, RowsMove
  <2>3. CASE TicketAnswered(q, outcome)
    BY <1>1, <2>3 DEF TicketAnswered, RowsMove
  <2>4. CASE boot(q, outcome)
    BY <1>2, <1>3, <2>4 DEF boot, panels, RowsMove
  <2>5. CASE refreshMe(q, outcome) \/ OrgCreated(q, outcome)
    BY <1>2, <2>5 DEF refreshMe, OrgCreated, panels, RowsMove
  <2>6. QED
    BY <1>8, <2>1, <2>2, <2>3, <2>4, <2>5 DEF Answered
<1>9. CASE UNCHANGED consoleVars
  BY <1>2, <1>9 DEF consoleVars, panels, RowsMove
<1>10. QED
  BY <1>5, <1>6, <1>7, <1>8, <1>9 DEF ConsoleNext

\* The request numbers of the numbered panels: an answer that arrives late never replaces the answer
\* to a later request.
THEOREM LateAnswersStayIgnored == ConsoleSpec => LateAnswersIgnored
<1>1. ConsoleInv /\ [ConsoleNext]_consoleVars =>
        [\A p \in Numbered : rows'[p] # None => rows[p] = None \/ rows'[p] >= rows[p]]_consoleVars
  <2> SUFFICES ASSUME ConsoleInv, [ConsoleNext]_consoleVars, NEW p \in Numbered, rows'[p] # None, rows[p] # None
               PROVE  rows'[p] >= rows[p]
    OBVIOUS
  <2>1. p \in Panels /\ rows \in [Panels -> Nat \cup {None}] /\ rows[p] \in Nat /\ rows[p] <= latest[p]
        /\ latest[p] \in Nat
    BY NumberedPanels DEF ConsoleInv, PanelsOK
  <2>2. CASE \A r \in Panels : rows'[r] \in {rows[r], None}
    BY <2>1, <2>2
  <2>3. ASSUME NEW q \in inflight, NEW outcome, LoadAnswered(q, outcome) PROVE rows'[p] >= rows[p]
    <3>1. CASE rows' = rows
      BY <2>1, <3>1
    <3>2. CASE rows' # rows
      <4>1. /\ Current(q)
            /\ rows' = [rows EXCEPT ![q.target] = IF outcome = "ok" THEN q.id ELSE None]
        BY <2>3, <3>2 DEF LoadAnswered, AnsweredRows
      <4>2. q.target = p => q.id = latest[p]
        BY <4>1 DEF Current
      <4>3. QED
        BY <2>1, <4>1, <4>2
    <3>3. QED
      BY <3>1, <3>2
  <2>4. QED
    BY <2>2, <2>3, RowsStep DEF RowsMove
<1>2. QED
  BY <1>1, ConsoleInvariant, PTL DEF ConsoleSpec, LateAnswersIgnored
=============================================================================
