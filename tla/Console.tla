------------------------------ MODULE Console ------------------------------
(***************************************************************************)
(* The administration console (public/console/app.js): one browser tab,    *)
(* the requests it has under way, and the administrators who log in and    *)
(* out of it.  JavaScript runs to completion: an action is what runs       *)
(* between two awaits or events.                                           *)
(*                                                                         *)
(* A panel is a part of a view that loads rows: `sel` is the organization  *)
(* or filter its controls select, `rows` the answer it shows (with the     *)
(* number of the request it answers), `busy` its disabled refresh button.  *)
(* Requests sent by one action share a number; numbers only grow.  The     *)
(* texts of rows, toasts and translations (with the repainting after a     *)
(* change of language) are left out, and people already read               *)
(* (peopleByOrg) are read again.                                           *)
(***************************************************************************)
EXTENDS Naturals, FiniteSets

CONSTANTS
    Orgs,          \* organizations, and filters of the ticket and crash lists
    Sessions,      \* logins: what a bearer token stands for
    Superadmins,   \* the sessions with role SUPERADMIN
    Home,          \* the orgId of an administrator's account, None for a superadmin
    Tickets,       \* rows of the ticket list
    None,          \* null, the empty selection
    MaxRequests,   \* bound: batches of requests
    Plans          \* bound: the views visited in one behaviour, each at most once

ASSUME ConsoleAssumption ==
    /\ Superadmins \subseteq Sessions
    /\ Home \in [Sessions -> Orgs \cup {None}]
    /\ None \notin Orgs \cup Sessions \cup Tickets
    /\ MaxRequests \in Nat

Views == {"overview", "orgs", "fleet", "usage", "learnings", "tickets", "crashes", "enroll",
          "users", "security"}
Restricted == {"users", "tickets", "crashes"}
Caches == {"orgs", "catalog"}             \* orgChoices, managedModelCatalog
NeedOrg == {"usage", "learnings", "services", "fleet", "people"}
Panels == NeedOrg \cup {"overview", "tickets", "crashes", "users", "provider"}

VARIABLES
    token, me, screen,    \* localStorage token, the `me` object's session, login or app
    expired,              \* sessions the server no longer accepts
    hash, view,                          \* location.hash and the view that is not hidden
    event, visits,        \* a hashchange event is to be delivered; the views still to visit
    sel, rows, busy,      \* the panels
    latest,               \* learningRequestId, ticketRequestId, crashRequestId, usageRequestId
    cache, promise,       \* the caches and the promise a load in flight leaves there
    waiting,              \* panels whose view handler awaits getOrgChoices
    detail,               \* selectedTicket, and the ticket whose values fill the form
    inflight,             \* requests under way
    issued,               \* number of the last request
    patched,              \* history: tickets saved, with the form that was sent
    mixed                 \* history: /auth/me was answered for another login than the tab's

session == <<token, me, screen, expired>>
panels == <<sel, rows, busy, latest>>
router == <<hash, view, event, visits>>
caches == <<cache, promise, waiting>>
requests == <<inflight, issued>>
history == <<patched, mixed>>
consoleVars == <<session, router, panels, caches, detail, requests, history>>

IsSuper(who) == who \in Superadmins

(* The tab on its login screen, or in the overview after a login whose requests are answered. *)
ConsoleInit ==
    /\ \/ token = None /\ me = None /\ screen = "login" /\ cache = [c \in Caches |-> None]
       \/ /\ token \in Sessions /\ me = token /\ screen = "app"
          /\ cache = [c \in Caches |-> IF c = "orgs" THEN 0 ELSE None]
    /\ expired = {}
    /\ hash = "overview" /\ view = "overview" /\ event = FALSE /\ visits \in Plans
    /\ sel = [p \in NeedOrg |-> None]
    /\ rows = [p \in Panels |-> None]
    /\ busy = [p \in Panels |-> FALSE]
    /\ latest = [p \in Panels |-> 0]
    /\ promise = [c \in Caches |-> None]
    /\ waiting = {}
    /\ detail = [ticket |-> None, form |-> None]
    /\ inflight = {} /\ issued = 0 /\ patched = {} /\ mixed = FALSE

-----------------------------------------------------------------------------
(* Requests *)

Req(kind, target) == [kind |-> kind, target |-> target, id |-> issued + 1, tok |-> token]

(* Send a batch; `base` is what stays in flight. *)
Send(base, new) ==
    /\ new # {} => issued < MaxRequests
    /\ inflight' = base \cup new
    /\ issued' = IF new = {} THEN issued ELSE issued + 1

(* Panels that number their requests, that empty themselves when they load, and that keep what
   they show when a load fails. *)
Numbered == {"learnings", "usage", "tickets", "crashes"}
Emptied == {"services"}
KeptOnError == {"overview", "usage", "fleet", "users", "provider", "services"}

(* A panel loads only with an organization chosen, and the operator lists only for a superadmin. *)
MayLoad(who, p, chosen) ==
    CASE p \in NeedOrg                -> chosen[p] # None
      [] p \in {"tickets", "crashes"} -> IsSuper(who)
      [] OTHER                        -> TRUE

(* Calling the load functions of the panels P for the `me` object who, with `others` sent beside
   them: without a selection a panel is emptied and sends nothing. *)
Load(who, P, chosen, base, others) ==
    LET loads == {p \in P : MayLoad(who, p, chosen)}
        empty == (P \cap Emptied) \cup {p \in P \cap NeedOrg : chosen[p] = None}
    IN /\ Send(base, {Req("load", p) : p \in loads} \cup others)
       /\ rows' = [p \in Panels |-> IF p \in empty THEN None ELSE rows[p]]
       /\ latest' = [p \in Panels |-> IF p \in loads THEN issued + 1 ELSE latest[p]]
       /\ busy' = [p \in Panels |-> IF p \in loads \cap Numbered THEN TRUE ELSE busy[p]]

(* The controls of a panel are there when its view is shown. *)
Shown(p) ==
    /\ screen = "app"
    /\ view = CASE p = "services" -> "orgs" [] p = "people" -> "enroll"
                [] p = "provider" -> "security" [] OTHER -> p

Refresh(p) ==
    /\ Shown(p) /\ ~busy[p]
    /\ Load(me, {p}, sel, inflight, {})
    /\ UNCHANGED <<session, router, sel, caches, detail, history>>

(* The controls of a panel: a change loads at once; the fleet view has a button for it. *)
Select(p, o) ==
    LET chosen == [sel EXCEPT ![p] = o]
    IN /\ Shown(p) /\ sel[p] # o
       /\ sel' = chosen
       /\ IF p = "fleet" THEN UNCHANGED <<rows, busy, latest, requests>>
                         ELSE Load(me, {p}, chosen, inflight, {})
       /\ UNCHANGED <<session, router, caches, detail, history>>

(* The filters of the operator lists are not disabled while they load. *)
Refilter(p) ==
    /\ Shown(p)
    /\ Load(me, {p}, sel, inflight, {})
    /\ UNCHANGED <<session, router, sel, caches, detail, history>>

Choose(p) == \E o \in Orgs \cup {None} : Select(p, o)

loadLearnings == Refresh("learnings") \/ Choose("learnings")
loadUsage == Refresh("usage") \/ Choose("usage")
loadFeedbackTickets == Refilter("tickets")
loadCrashReports == Refilter("crashes")
loadFleet == Refresh("fleet") \/ Choose("fleet")
loadServiceBindings == Refresh("services") \/ Choose("services")
loadEnrollPeople == Refresh("people") \/ Choose("people")
loadProviderStatus == IsSuper(me) /\ Refresh("provider")

-----------------------------------------------------------------------------
(* Answers *)

(* A 401 drops the token, whichever token the request was sent with, and shows the login. *)
api(q, outcome) ==
    IF outcome = "unauthorized" THEN token' = None /\ screen' = "login"
                                ELSE UNCHANGED <<token, screen>>

Outcomes(q) == IF q.tok \in expired \cup {None} THEN {"unauthorized", "failed"} ELSE {"ok", "failed"}

(* Mutant of Current: every answer is shown. *)
AnyAnswer(q) == TRUE

(* A numbered panel drops every answer but the one to its latest request. *)
Current(q) == q.target \in Numbered => q.id = latest[q.target]

AnsweredRows(q, outcome) ==
    IF ~Current(q) \/ (outcome # "ok" /\ q.target \in KeptOnError) THEN rows
    ELSE [rows EXCEPT ![q.target] = IF outcome = "ok" THEN q.id ELSE None]

(* Mutant of AnsweredBusy: only an answer that is shown ends the loading state. *)
BusyUntilShown(q, outcome) ==
    IF Current(q) /\ outcome = "ok" THEN [busy EXCEPT ![q.target] = FALSE] ELSE busy

(* finally: the refresh button comes back with the answer to the latest request. *)
AnsweredBusy(q, outcome) == IF Current(q) THEN [busy EXCEPT ![q.target] = FALSE] ELSE busy

LoadAnswered(q, outcome) ==
    /\ q.kind = "load"
    /\ api(q, outcome)
    /\ rows' = AnsweredRows(q, outcome)
    /\ busy' = AnsweredBusy(q, outcome)
    /\ inflight' = inflight \ {q}
    /\ \/ UNCHANGED detail
       \/ /\ q.target = "tickets" /\ Current(q) /\ outcome = "ok"
          /\ detail' = [detail EXCEPT !.ticket = None]      \* the list no longer has it
    /\ UNCHANGED <<me, expired, router, sel, latest, caches, issued, history>>

-----------------------------------------------------------------------------
(* getOrgChoices, loadManagedModelCatalog: a cache with one load in flight *)

Needed(c) == cache[c] = None /\ promise[c] = None

CacheRequests(C) == {Req("cache", c) : c \in {d \in C : Needed(d)}}

Promised(C) == [c \in Caches |-> IF c \in C /\ Needed(c) THEN issued + 1 ELSE promise[c]]

(* paintOrgChoices, with the organizations the answer lists: an unset selection becomes the
   administrator's own organization, in a select also the only one of the list. *)
paintOrgChoices(list) ==
    LET Own == IF me = None THEN None ELSE Home[me]
        Only(p) == IF p \in {"usage", "learnings", "services"} /\ Cardinality(list) = 1
                   THEN CHOOSE o \in list : TRUE ELSE None
    IN [p \in NeedOrg |-> CASE sel[p] # None -> sel[p] [] Own # None -> Own [] OTHER -> Only(p)]

(* The usage and learning hooks choose once more: the first organization of the list, if any. *)
FirstChosen(who, P, first, chosen) ==
    [p \in NeedOrg |-> IF p \in P \cap {"usage", "learnings"} /\ chosen[p] = None /\ first # None
                       THEN IF who # None /\ Home[who] # None THEN Home[who] ELSE first
                       ELSE chosen[p]]

(* finally, also when a forced load has put its own promise there *)
PromiseSettled(c, outcome) == [promise EXCEPT ![c] = None]

(* The selects are painted, people are loaded, and the views that awaited the list load; without a
   list only the services load, the usage and learning views prompt for an organization. *)
OrgsAnswered(outcome, base) ==
    \/ /\ outcome = "ok"
       /\ \E list \in SUBSET Orgs : \E first \in IF list = {} THEN {None} ELSE list :
             LET chosen == FirstChosen(me, waiting, first, paintOrgChoices(list))
                 people == IF chosen["people"] # None THEN {"people"} ELSE {}
             IN sel' = chosen /\ Load(me, waiting \cup people, chosen, base, {})
    \/ /\ outcome # "ok"
       /\ Load(me, waiting, [p \in NeedOrg |-> IF p = "services" THEN sel[p] ELSE None], base, {})
       /\ UNCHANGED sel

CacheAnswered(q, outcome) ==
    /\ q.kind = "cache"
    /\ api(q, outcome)
    /\ cache' = IF outcome = "ok" THEN [cache EXCEPT ![q.target] = q.id] ELSE cache
    /\ promise' = PromiseSettled(q.target, outcome)
    /\ \/ /\ q.target = "orgs" /\ waiting' = {}
          /\ OrgsAnswered(outcome, inflight \ {q})
       \/ /\ q.target # "orgs"
          /\ Load(me, {}, sel, inflight \ {q}, {})
          /\ UNCHANGED <<sel, waiting>>
    /\ UNCHANGED <<me, expired, router, detail, history>>

(* A new organization forces the list to be read again. *)
getOrgChoicesForced(q) ==
    /\ cache' = [cache EXCEPT !["orgs"] = None]
    /\ promise' = [promise EXCEPT !["orgs"] = issued + 1]
    /\ Send(inflight \ {q}, {Req("cache", "orgs")})

-----------------------------------------------------------------------------
(* Router *)

(* renderSecurity: the provider panel is there for a superadmin, and loads. *)
renderSecurity(who) == IF IsSuper(who) THEN {"provider"} ELSE {}

(* The onEnter hook of a view: what it loads at once, what it loads after the organizations, and
   the caches it asks for. *)
EnterLoads(who, v) ==
    CASE v \in {"overview", "tickets", "crashes", "users"} -> {v}
      [] v = "enroll"                                      -> {"people"}
      [] v = "security"                                    -> renderSecurity(who)
      [] v = "orgs" /\ cache["orgs"] # None                -> {"services"}
      [] v \in {"usage", "learnings"} /\ cache["orgs"] # None -> {v}
      [] OTHER                                             -> {}
EnterWaits(v) ==
    IF cache["orgs"] # None THEN {}
    ELSE CASE v = "orgs" -> {"services"} [] v \in {"usage", "learnings"} -> {v} [] OTHER -> {}
EnterCaches(v) ==
    CASE v \in {"orgs", "usage", "learnings"} -> {"orgs"}
      [] v = "enroll"                         -> Caches
      [] OTHER                                -> {}

(* Mutant of Refused: the role is not looked at. *)
NeverRefused(who, v) == FALSE

(* dispatch: global operator views are refused in navigation and in direct hash URLs. *)
Refused(who, v) == v \in Restricted /\ ~IsSuper(who)

dispatch(who, base, C) ==
    \/ /\ Refused(who, hash)
       /\ hash' = "overview" /\ event' = TRUE
       /\ promise' = Promised(C)
       /\ Load(who, {}, sel, base, CacheRequests(C))
       /\ UNCHANGED <<view, waiting, sel>>
    \/ /\ ~Refused(who, hash)
       /\ view' = hash /\ event' = FALSE
       /\ waiting' = waiting \cup EnterWaits(hash)
       /\ promise' = Promised(C \cup EnterCaches(hash))
       /\ \E first \in Orgs \cup {None} :
             LET loads == EnterLoads(who, hash)
                 chosen == FirstChosen(who, loads, first, sel)
             IN sel' = chosen /\ Load(who, loads, chosen, base, CacheRequests(C \cup EnterCaches(hash)))
       /\ UNCHANGED hash

(* A click or a typed URL; the hashchange event follows. *)
navigate(v) ==
    /\ hash # v /\ v \in visits
    /\ hash' = v /\ event' = TRUE /\ visits' = visits \ {v}
    /\ UNCHANGED <<session, view, panels, caches, detail, requests, history>>

hashchange ==
    /\ event
    /\ dispatch(me, inflight, {})
    /\ UNCHANGED <<session, visits, cache, detail, history>>

-----------------------------------------------------------------------------
(* Sessions *)

(* The login form is accepted, with or without a second factor, and boot asks who it is. *)
login(s) ==
    /\ screen = "login"
    /\ token' = s
    /\ Send(inflight, {[kind |-> "me", target |-> None, id |-> issued + 1, tok |-> s]})
    /\ UNCHANGED <<me, screen, expired, router, panels, caches, detail, history>>

(* boot: the answer decides the role the tab works with; then the current hash is dispatched. *)
boot(q, outcome) ==
    /\ q.kind = "me"
    /\ \/ /\ outcome # "ok"
          /\ token' = IF outcome = "unauthorized" THEN None ELSE token
          /\ screen' = "login"
          /\ inflight' = inflight \ {q}
          /\ UNCHANGED <<me, hash, view, event, panels, promise, waiting, issued>>
       \/ /\ outcome = "ok"
          /\ me' = q.tok /\ screen' = "app"
          /\ dispatch(q.tok, inflight \ {q}, {"orgs"})
          /\ UNCHANGED token
    /\ mixed' = (mixed \/ q.tok # token)
    /\ UNCHANGED <<expired, visits, cache, detail, patched>>

logout ==
    /\ screen = "app"
    /\ token' = None /\ me' = None /\ screen' = "login"
    /\ UNCHANGED <<expired, router, panels, caches, detail, requests, history>>

(* Enabling or disabling the second factor: when it is done, `me` is read again, for the login the
   tab has by then. *)
changeSecondFactor ==
    /\ screen = "app" /\ view = "security"
    /\ Send(inflight, {Req("totp", None)})
    /\ UNCHANGED <<session, router, panels, caches, detail, history>>

refreshMe(q, outcome) ==
    /\ q.kind = "totp"
    /\ api(q, outcome)
    /\ Send(inflight \ {q}, IF outcome = "ok" THEN {Req("again", None)} ELSE {})
    /\ UNCHANGED <<me, expired, router, panels, caches, detail, history>>

RefreshedMe(q, outcome) ==
    /\ q.kind = "again"
    /\ api(q, outcome)
    /\ me' = IF outcome = "ok" THEN q.tok ELSE me
    /\ Load(me', IF outcome = "ok" THEN renderSecurity(q.tok) ELSE {}, sel, inflight \ {q}, {})
    /\ mixed' = (mixed \/ q.tok # token)
    /\ UNCHANGED <<expired, router, sel, caches, detail, patched>>

(* Bound: one session expires. *)
Expire(s) ==
    /\ expired = {}
    /\ expired' = {s}
    /\ UNCHANGED <<token, me, screen, router, panels, caches, detail, requests, history>>

-----------------------------------------------------------------------------
(* Changes: a request, and the panel loaded again when it has succeeded *)

Post(what, p) ==
    /\ Shown(p)
    /\ Send(inflight, {Req(what, p)})
    /\ UNCHANGED <<session, router, panels, caches, detail, history>>

saveServiceBinding == sel["services"] # None /\ Post("post", "services")
changeServiceState == sel["services"] # None /\ Post("post", "services")
revokeOrBindDevice == rows["fleet"] # None /\ Post("post", "fleet")
reviewLearning == rows["learnings"] # None /\ Post("review", "learnings")
updateCrashReport == rows["crashes"] # None /\ Post("post", "crashes")
createPerson == sel["people"] # None /\ Post("post", "people")
changeUser == rows["users"] # None /\ Post("post", "users")
changeProviderKey == IsSuper(me) /\ Post("post", "provider")
createOrg == Post("org", "services")

(* A refused review also loads the list again, since the row has changed under it. *)
PostAnswered(q, outcome) ==
    /\ q.kind \in {"post", "review"}
    /\ api(q, outcome)
    /\ Load(me, IF outcome = "ok" \/ q.kind = "review" THEN {q.target} ELSE {}, sel,
            inflight \ {q}, {})
    /\ UNCHANGED <<me, expired, router, sel, caches, detail, history>>

OrgCreated(q, outcome) ==
    /\ q.kind = "org"
    /\ api(q, outcome)
    /\ IF outcome = "ok" THEN getOrgChoicesForced(q)
       ELSE inflight' = inflight \ {q} /\ UNCHANGED <<cache, promise, issued>>
    /\ UNCHANGED <<me, expired, router, panels, waiting, detail, history>>

-----------------------------------------------------------------------------
(* The ticket detail: opened, saved and read again *)

openTicket(t) ==
    /\ Shown("tickets") /\ rows["tickets"] # None
    /\ Send(inflight, {Req("open", t)})
    /\ UNCHANGED <<session, router, panels, caches, detail, history>>

closeTicketDetail ==
    /\ Shown("tickets") /\ detail.ticket # None
    /\ detail' = [detail EXCEPT !.ticket = None]
    /\ UNCHANGED <<session, router, panels, caches, requests, history>>

(* Mutant of renderTicketDetail: the form keeps its values. *)
DetailOnly(t) == [detail EXCEPT !.ticket = t]

(* selectedTicket and the form are set together, when the answer is there. *)
renderTicketDetail(t) == [ticket |-> t, form |-> t]

saveTicket ==
    /\ Shown("tickets") /\ detail.ticket # None
    /\ \A q \in inflight : q.kind \notin {"patch", "reread"}      \* the button is disabled
    /\ Send(inflight, {Req("patch", detail.ticket)})
    /\ patched' = patched \cup {detail}
    /\ UNCHANGED <<session, router, panels, caches, detail, mixed>>

TicketAnswered(q, outcome) ==
    /\ q.kind \in {"open", "patch", "reread"}
    /\ api(q, outcome)
    /\ CASE outcome = "ok" /\ q.kind = "open" ->
              /\ detail' = renderTicketDetail(q.target)
              /\ Load(me, {}, sel, inflight \ {q}, {})
         [] outcome = "ok" /\ q.kind = "patch" /\ detail.ticket # None ->
              /\ Load(me, {}, sel, inflight \ {q}, {Req("reread", detail.ticket)})
              /\ UNCHANGED detail
         [] outcome = "ok" /\ q.kind = "reread" ->
              /\ detail' = renderTicketDetail(q.target)
              /\ Load(me, {"tickets"}, sel, inflight \ {q}, {})
         [] OTHER -> Load(me, {}, sel, inflight \ {q}, {}) /\ UNCHANGED detail
    /\ UNCHANGED <<me, expired, router, sel, caches, history>>

-----------------------------------------------------------------------------
Answered(q, outcome) ==
    \/ LoadAnswered(q, outcome)
    \/ CacheAnswered(q, outcome)
    \/ boot(q, outcome)
    \/ refreshMe(q, outcome)
    \/ RefreshedMe(q, outcome)
    \/ PostAnswered(q, outcome)
    \/ OrgCreated(q, outcome)
    \/ TicketAnswered(q, outcome)

ConsoleNext ==
    \/ \E s \in Sessions : login(s) \/ Expire(s)
    \/ logout \/ changeSecondFactor
    \/ \E v \in Views : navigate(v)
    \/ hashchange
    \/ loadLearnings \/ loadUsage \/ loadFeedbackTickets \/ loadCrashReports
    \/ loadFleet \/ loadServiceBindings \/ loadEnrollPeople \/ loadProviderStatus
    \/ saveServiceBinding \/ changeServiceState \/ revokeOrBindDevice \/ reviewLearning
    \/ updateCrashReport \/ createPerson \/ changeUser \/ changeProviderKey \/ createOrg
    \/ \E t \in Tickets : openTicket(t)
    \/ closeTicketDetail \/ saveTicket
    \/ \E q \in inflight : \E outcome \in Outcomes(q) : Answered(q, outcome)

ConsoleSpec == ConsoleInit /\ [][ConsoleNext]_consoleVars

-----------------------------------------------------------------------------
(* Properties *)

(* In the four panels that number their requests an answer that arrives late never replaces the
   answer to a later request, whatever was selected, refreshed or changed meanwhile (app.js, 1002,
   1183, 1322, 1474). *)
LateAnswersIgnored ==
    [][\A p \in Numbered : rows'[p] # None => rows[p] = None \/ rows'[p] >= rows[p]]_consoleVars

(* With nothing in flight every refresh button works again and no cache waits for a load that has
   ended: no error and no overtaken answer leaves a panel stuck (app.js, 268, 819, 1012, 1196). *)
RestIsReady ==
    /\ \A p \in Panels : busy[p] => \E q \in inflight : q.kind = "load" /\ q.target = p
    /\ \A c \in Caches : promise[c] # None => \E q \in inflight : q.kind = "cache" /\ q.target = c

(* Only a superadmin looks at the operator views, across logouts, logins of someone else, typed
   URLs and late answers; at most the redirect is still to come (app.js, 391-411).  Two logins
   whose /auth/me answers overlap are excepted. *)
OperatorViewsGuarded ==
    screen = "app" /\ view \in Restricted /\ ~event /\ ~mixed => IsSuper(me)

(* A saved ticket carries the values of its own form, although details are opened, saved and read
   again by requests that may be answered in any order (app.js, 1217-1232, 1277-1299). *)
TicketSavesItsForm == \A d \in patched : d.ticket = d.form

-----------------------------------------------------------------------------
(* The inductive invariant *)

(* A panel shows an answer to none but its latest request or an earlier one, and its button waits
   for the latest. *)
PanelsOK ==
    /\ issued \in Nat
    /\ rows \in [Panels -> Nat \cup {None}] /\ latest \in [Panels -> Nat] /\ busy \in [Panels -> BOOLEAN]
    /\ \A q \in inflight : /\ q.id \in Nat
                           /\ q.kind \in {"load", "post", "review"} => q.target \in Panels
                           /\ q.kind = "cache" => q.target \in Caches
    /\ \A p \in Panels : latest[p] <= issued
    /\ \A p \in Numbered : rows[p] # None => rows[p] <= latest[p]
    /\ \A p \in Panels : busy[p] =>
          p \in Numbered /\ \E q \in inflight : q.kind = "load" /\ q.target = p /\ q.id = latest[p]

(* A promise in a cache belongs to a request in flight. *)
CachesOK ==
    /\ promise \in [Caches -> Nat \cup {None}] /\ waiting \subseteq Panels
    /\ \A c \in Caches : promise[c] # None => \E q \in inflight : q.kind = "cache" /\ q.target = c

(* The tab works for the administrator whose token it holds. *)
TabOK ==
    /\ screen = "app" /\ ~mixed => me = token
    /\ OperatorViewsGuarded

(* The form is that of the ticket which is open. *)
DetailOK ==
    /\ detail.ticket # None => detail.form = detail.ticket
    /\ TicketSavesItsForm

ConsoleInv == PanelsOK /\ CachesOK /\ TabOK /\ DetailOK
=============================================================================
