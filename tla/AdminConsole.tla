---------------------------- MODULE AdminConsole ----------------------------
(***************************************************************************)
(* The table of gateways in the administrators' console (public/admin.js): *)
(* the list it was answered, drafts of fields that were edited but not     *)
(* saved, the refresh in the background and the session.  A handler runs   *)
(* without interruption up to an await.  All lists are read by one load,   *)
(* which concurrent callers join; the other requests are in net.           *)
(***************************************************************************)
EXTENDS Naturals, FiniteSets, Functions

CONSTANTS
  Gateways,
  Unmade,     \* gateways that do not exist yet
  MaxClicks,  \* bound of the model on what the administrator does
  MaxOthers,  \* bound of the model on what others do to the gateways
  MaxErrors   \* bound of the model on calls that fail

(* What is assumed of the constants, by the module that gives their values *)
AdminConsoleAssumption ==
  /\ Unmade \subseteq Gateways
  /\ MaxClicks \in Nat /\ MaxOthers \in Nat /\ MaxErrors \in Nat

VARIABLES
  rows,      \* server: the gateways there are, with their fields
  session,   \* server: the role of the session
  user, open,           \* state.user by its role, and whether the panel is shown
  auto, hidden, timer,  \* automatic refresh, document.hidden, and the interval
  list, drafts,
  configured,           \* state.callSquareConfigLoaded
  load,      \* the load under way
  net,       \* the other requests under way
  clicks, others, errors

server == <<rows, session>>
refresh == <<auto, hidden, timer>>
table == <<list, drafts>>
bounds == <<clicks, others, errors>>
vars == <<server, user, open, refresh, table, configured, load, net, bounds>>

-----------------------------------------------------------------------------
(* Rows and drafts *)

Fields == {"text", "enabled"}   \* an input of the row, and the button that toggles
Values == {0, 1}
NoDraft == <<>>
NoLoad == [stage |-> "none", answer |-> NoDraft, waiters |-> {}]
Roles == {"none", "plain", "admin"}

Dirty(row, draft) == Restrict(draft, {f \in DOMAIN draft : draft[f] # row[f]})

RowInput(g, f) == IF f \in DOMAIN drafts[g] THEN drafts[g][f] ELSE list[g][f]

(* Variant: a reload starts from clean rows. *)
PruneDrafts_All(ds, rs) == [g \in Gateways |-> NoDraft]

PruneDrafts(ds, rs) ==
  [g \in Gateways |-> IF g \in DOMAIN rs THEN Dirty(rs[g], ds[g]) ELSE NoDraft]

Without(ds, g, fs) == [ds EXCEPT ![g] = Restrict(@, DOMAIN @ \ fs)]

Upsert(rs, g, row) == [h \in DOMAIN rs \cup {g} |-> IF h = g THEN row ELSE rs[h]]

(* rowPatch: the inputs of the row, dirty or not; the button is none of them *)
RowPatch(g) == [f \in {"text"} |-> RowInput(g, f)]

-----------------------------------------------------------------------------
(* The refresh in the background *)

(* Variant: the page does not care whether it can be seen. *)
StartAutoRefresh_Hidden(u) == timer' = (auto' /\ u # "none")

StartAutoRefresh(u) == timer' = (auto' /\ u # "none" /\ ~hidden')

ApplyAutoRefresh(u) == UNCHANGED <<auto, hidden>> /\ StartAutoRefresh(u)

(* state.user = null; clearAdminData(); setAdminVisible(false) *)
SignOut ==
  /\ user' = "none" /\ open' = FALSE
  /\ list' = <<>> /\ drafts' = [g \in Gateways |-> NoDraft]
  /\ configured' = FALSE
  /\ timer' = FALSE /\ UNCHANGED <<auto, hidden>>

(* loadAll: one load at a time, which callers join *)
LoadAll(now, waiters) ==
  IF now = NoLoad THEN [NoLoad EXCEPT !.stage = "sent", !.waiters = waiters]
  ELSE [now EXCEPT !.waiters = @ \cup waiters]

(* rerenderAfterMutation *)
Rerender(rs, ds) ==
  /\ list' = rs
  /\ drafts' = PruneDrafts(ds, rs)
  /\ ApplyAutoRefresh(user)

Request(kind, g, patch) ==
  [kind |-> kind, gateway |-> g, patch |-> patch, stage |-> "sent", row |-> NoDraft,
   role |-> "none", rest |-> {}, id |-> clicks]

Nobody == "nobody"   \* of a request that is not about a gateway

Init ==
  /\ rows = [g \in Gateways \ Unmade |-> [text |-> 0, enabled |-> 1]]
  /\ session \in {"plain", "admin"}
  /\ user = "none" /\ open = FALSE
  /\ auto = TRUE /\ hidden = FALSE /\ timer = FALSE
  /\ list = <<>> /\ drafts = [g \in Gateways |-> NoDraft]
  /\ configured = FALSE
  /\ load = NoLoad
  /\ net = {[kind |-> "me", gateway |-> Nobody, patch |-> NoDraft, stage |-> "sent",
             row |-> NoDraft, role |-> "none", rest |-> {}, id |-> MaxClicks]}
  /\ clicks = 0 /\ others = 0 /\ errors = 0

-----------------------------------------------------------------------------
(* The service, and the other administrators *)

Other ==
  /\ others < MaxOthers /\ others' = others + 1
  /\ \/ \E g \in DOMAIN rows, f \in Fields : rows' = [rows EXCEPT ![g][f] = 1 - @]
     \/ \E g \in DOMAIN rows : rows' = Restrict(rows, DOMAIN rows \ {g})
  /\ UNCHANGED <<session, user, open, refresh, table, configured, load, net, clicks, errors>>

Allowed(r) ==
  IF r.kind \in {"me", "logout", "login"} THEN TRUE
  ELSE session = "admin" /\ (r.kind \in {"create", "checkall"} \/ r.gateway \in DOMAIN rows)

Applied(r) ==
  CASE r.kind \in {"save", "toggle", "revive"} ->
         [rows EXCEPT ![r.gateway] = [f \in Fields |-> IF f \in DOMAIN r.patch THEN r.patch[f] ELSE @[f]]]
    [] r.kind = "delete" -> Restrict(rows, DOMAIN rows \ {r.gateway})
    [] r.kind = "create" -> Upsert(rows, r.gateway, [f \in Fields |-> 0])
    [] OTHER -> rows

Replaced(r, s) == net' = (net \ {r}) \cup {s}

Serve(r) ==
  /\ r.stage = "sent"
  /\ IF Allowed(r)
     THEN /\ rows' = Applied(r)
          /\ session' = CASE r.kind = "logout" -> "none" [] r.kind = "login" -> "admin" [] OTHER -> session
          /\ Replaced(r, [r EXCEPT !.stage = "answered",
                                   !.row = IF r.kind = "checkall" THEN rows'
                                           ELSE IF r.gateway \in DOMAIN rows' THEN rows'[r.gateway] ELSE NoDraft,
                                   !.role = session])
     ELSE /\ Replaced(r, [r EXCEPT !.stage = "failed"])
          /\ UNCHANGED server
  /\ UNCHANGED <<user, open, refresh, table, configured, load, bounds>>

ServeLoad ==
  /\ load.stage = "sent"
  /\ load' = IF session = "admin" THEN [load EXCEPT !.stage = "answered", !.answer = rows]
             ELSE [load EXCEPT !.stage = "failed"]
  /\ UNCHANGED <<server, user, open, refresh, table, configured, net, bounds>>

Lose(r) ==
  /\ errors < MaxErrors /\ errors' = errors + 1
  /\ r.stage # "failed"
  /\ Replaced(r, [r EXCEPT !.stage = "failed"])
  /\ UNCHANGED <<server, user, open, refresh, table, configured, load, clicks, others>>

LoseLoad ==
  /\ errors < MaxErrors /\ errors' = errors + 1
  /\ load.stage = "sent"
  /\ load' = [load EXCEPT !.stage = "failed"]
  /\ UNCHANGED <<server, user, open, refresh, table, configured, net, clicks, others>>

-----------------------------------------------------------------------------
(* The continuations of the handlers *)

(* ensureAdmin *)
DeliverMe(r) ==
  /\ r.kind = "me"
  /\ net' = net \ {r}
  /\ IF r.stage = "failed" \/ r.role = "none" THEN SignOut /\ load' = load
     ELSE /\ user' = r.role
          /\ open' = (r.role = "admin")
          /\ IF r.role = "admin" THEN load' = LoadAll(load, {"admin"}) /\ UNCHANGED refresh
             ELSE load' = load /\ timer' = FALSE /\ UNCHANGED <<auto, hidden>>
          /\ UNCHANGED <<table, configured>>

DeliverLogin(r) ==
  /\ r.kind = "login"
  /\ net' = IF r.stage = "failed" THEN net \ {r}
            ELSE (net \ {r}) \cup {[Request("me", Nobody, NoDraft) EXCEPT !.id = r.id]}
  /\ UNCHANGED <<user, open, refresh, table, configured, load>>

(* The page signs out even when the call fails. *)
DeliverLogout(r) ==
  /\ r.kind = "logout"
  /\ net' = net \ {r}
  /\ SignOut /\ load' = load

DeliverSave(r) ==
  /\ r.kind = "save" /\ r.stage = "answered"
  /\ net' = net \ {r}
  /\ Rerender(Upsert(list, r.gateway, r.row), Without(drafts, r.gateway, Fields))
  /\ UNCHANGED <<user, open, configured, load>>

DeliverToggle(r) ==
  /\ r.kind = "toggle" /\ r.stage = "answered"
  /\ net' = net \ {r}
  /\ Rerender(Upsert(list, r.gateway, r.row), Without(drafts, r.gateway, {"enabled"}))
  /\ UNCHANGED <<user, open, configured, load>>

DeliverCheck(r) ==
  /\ r.kind = "check" /\ r.stage = "answered"
  /\ net' = net \ {r}
  /\ Rerender(Upsert(list, r.gateway, r.row), drafts)
  /\ UNCHANGED <<user, open, configured, load>>

DeliverDelete(r) ==
  /\ r.kind = "delete" /\ r.stage = "answered"
  /\ net' = net \ {r}
  /\ Rerender(Restrict(list, DOMAIN list \ {r.gateway}), Without(drafts, r.gateway, Fields))
  /\ UNCHANGED <<user, open, configured, load>>

(* The new row is read by a load, the one under way if there is one. *)
DeliverCreate(r) ==
  /\ r.kind = "create" /\ r.stage = "answered"
  /\ net' = net \ {r}
  /\ load' = LoadAll(load, {})
  /\ UNCHANGED <<user, open, refresh, table, configured>>

DeliverCheckAll(r) ==
  /\ r.kind = "checkall" /\ r.stage = "answered"
  /\ net' = net \ {r}
  /\ Rerender(r.row, drafts)
  /\ UNCHANGED <<user, open, configured, load>>

(* The loop of enableHealthyGateways: each gateway is checked and, when the *)
(* check is good, enabled; the page is rendered after the last.             *)
Recheck(rest, id) ==
  {[Request("recheck", g, NoDraft) EXCEPT !.rest = rest \ {g}, !.id = id] : g \in rest}

DeliverRecheck(r) ==
  /\ r.kind \in {"recheck", "revive"} /\ r.stage = "answered"
  /\ LET rs == Upsert(list, r.gateway, r.row)
     IN  \/ /\ r.kind = "recheck"
            /\ net' = (net \ {r}) \cup {[r EXCEPT !.kind = "revive", !.stage = "sent", !.row = NoDraft,
                                                    !.patch = [f \in {"enabled"} |-> 1]]}
            /\ list' = rs /\ UNCHANGED <<refresh, drafts>>
         \/ \E next \in Recheck(r.rest, r.id) :
              net' = (net \ {r}) \cup {next} /\ list' = rs /\ UNCHANGED <<refresh, drafts>>
         \/ r.rest = {} /\ net' = net \ {r} /\ Rerender(rs, drafts)
  /\ UNCHANGED <<user, open, configured, load>>

(* The buttons of the table read the lists again, the form and the drawer do not. *)
DeliverError(r) ==
  /\ r.kind \in {"save", "toggle", "check", "delete", "create", "checkall", "recheck", "revive"}
  /\ r.stage = "failed"
  /\ net' = net \ {r}
  /\ load' = IF r.kind \in {"save", "checkall", "recheck", "revive"} THEN LoadAll(load, {}) ELSE load
  /\ UNCHANGED <<user, open, refresh, table, configured>>

Deliver(r) ==
  /\ r.stage # "sent"
  /\ \/ DeliverMe(r) \/ DeliverLogin(r) \/ DeliverLogout(r)
     \/ DeliverSave(r) \/ DeliverToggle(r) \/ DeliverCheck(r) \/ DeliverDelete(r)
     \/ DeliverCreate(r) \/ DeliverCheckAll(r) \/ DeliverRecheck(r) \/ DeliverError(r)
  /\ UNCHANGED <<server, bounds>>

(* pruneDrafts, renderAll and what ensureAdmin does after its load *)
LoadEnds(rs) ==
  /\ load' = NoLoad
  /\ Rerender(rs, drafts)
  /\ UNCHANGED <<server, user, open, net, bounds>>

(* Before the drafts are pruned, the configuration of the test page may be awaited. *)
LoadArrives ==
  /\ load.stage = "answered"
  /\ IF configured THEN LoadEnds(load.answer) /\ UNCHANGED configured
     ELSE /\ list' = load.answer
          /\ load' = [load EXCEPT !.stage = "config"]
          /\ UNCHANGED <<server, user, open, refresh, drafts, configured, net, bounds>>

ConfigArrives ==
  /\ load.stage = "config"
  /\ configured' \in BOOLEAN
  /\ LoadEnds(list)

LoadFails ==
  /\ load.stage = "failed"
  /\ load' = NoLoad
  /\ IF "admin" \in load.waiters THEN SignOut ELSE UNCHANGED <<user, open, refresh, table, configured>>
  /\ UNCHANGED <<server, net, bounds>>

TimerFires ==
  /\ timer
  /\ load' = LoadAll(load, {})
  /\ UNCHANGED <<server, user, open, refresh, table, configured, net, bounds>>

-----------------------------------------------------------------------------
(* The administrator *)

Click == clicks < MaxClicks /\ clicks' = clicks + 1 /\ UNCHANGED <<server, user, open, configured, others, errors>>

(* setRowDraftField *)
SetDraft(g, f, v) ==
  /\ Click /\ open /\ g \in DOMAIN list
  /\ drafts' = [drafts EXCEPT ![g] = Dirty(list[g], [h \in DOMAIN @ \cup {f} |-> IF h = f THEN v ELSE @[h]])]
  /\ ApplyAutoRefresh(user)
  /\ UNCHANGED <<list, load, net>>

Type(g, v) == g \in DOMAIN list /\ RowInput(g, "text") # v /\ SetDraft(g, "text", v)
ToggleRow(g) == g \in DOMAIN list /\ SetDraft(g, "enabled", 1 - RowInput(g, "enabled"))

ResetGateway(g) ==
  /\ Click /\ open /\ drafts[g] # NoDraft
  /\ drafts' = [drafts EXCEPT ![g] = NoDraft]
  /\ ApplyAutoRefresh(user)
  /\ UNCHANGED <<list, load, net>>

Ask(kind, g, patch) ==
  /\ Click
  /\ net' = net \cup {Request(kind, g, patch)}
  /\ UNCHANGED <<refresh, table, load>>

(* The button of the row saves; the drawer of a gateway holds the others. *)
SaveGateway(g) == open /\ g \in DOMAIN list /\ drafts[g] # NoDraft /\ Ask("save", g, RowPatch(g))
CheckGateway(g) == open /\ g \in DOMAIN list /\ Ask("check", g, NoDraft)
DeleteGateway(g) == open /\ g \in DOMAIN list /\ Ask("delete", g, NoDraft)
CreateGateway(g) == open /\ g \in Unmade \ DOMAIN rows /\ Ask("create", g, NoDraft)

(* This one patches at once, from the list. *)
ToggleInDrawer(g) ==
  open /\ g \in DOMAIN list /\ Ask("toggle", g, [f \in {"enabled"} |-> 1 - list[g].enabled])

CheckAllGateways == open /\ Ask("checkall", Nobody, NoDraft)

(* Which of the gateways are cooling down is not modelled: any may be. *)
EnableHealthyGateways ==
  /\ Click /\ open
  /\ \E G \in SUBSET {g \in DOMAIN list : list[g].enabled = 1} :
       \E first \in Recheck(G, clicks) : net' = net \cup {first}
  /\ UNCHANGED <<refresh, table, load>>

Logout == open /\ Ask("logout", Nobody, NoDraft)
Login == ~open /\ Ask("login", Nobody, NoDraft)

RefreshButton ==
  /\ Click /\ open
  /\ load' = LoadAll(load, {})
  /\ UNCHANGED <<refresh, table, net>>

AutoRefreshButton ==
  /\ Click /\ open
  /\ auto' = ~auto /\ hidden' = hidden
  /\ StartAutoRefresh(user)
  /\ UNCHANGED <<table, load, net>>

VisibilityChange ==
  /\ Click
  /\ hidden' = ~hidden /\ auto' = auto
  /\ IF hidden' THEN timer' = FALSE ELSE StartAutoRefresh(user)
  /\ UNCHANGED <<table, load, net>>

-----------------------------------------------------------------------------

Services == ServeLoad \/ \E r \in net : Serve(r)
Continuations == LoadArrives \/ ConfigArrives \/ LoadFails \/ \E r \in net : Deliver(r)

Next ==
  \/ Other
  \/ Services
  \/ LoseLoad \/ \E r \in net : Lose(r)
  \/ Continuations
  \/ TimerFires
  \/ \E g \in Gateways :
       \/ \E v \in Values : Type(g, v)
       \/ ToggleRow(g) \/ ResetGateway(g) \/ SaveGateway(g) \/ CheckGateway(g)
       \/ DeleteGateway(g) \/ CreateGateway(g) \/ ToggleInDrawer(g)
  \/ CheckAllGateways \/ EnableHealthyGateways
  \/ Logout \/ Login \/ RefreshButton \/ AutoRefreshButton \/ VisibilityChange

Spec == Init /\ [][Next]_vars

(* Calls are answered and the interval fires. *)
FairSpec == Spec /\ WF_vars(Services) /\ WF_vars(Continuations) /\ WF_vars(TimerFires)

-----------------------------------------------------------------------------
(* Properties *)

Row == [Fields -> Values]

(* The table lists rows and keeps drafts of known fields only, for rows it  *)
(* lists once no load is between its list and its pruning.                  *)
TypeOK ==
  /\ DOMAIN rows \subseteq Gateways /\ \A g \in DOMAIN rows : rows[g] \in Row
  /\ session \in Roles /\ user \in Roles
  /\ open \in BOOLEAN /\ auto \in BOOLEAN /\ hidden \in BOOLEAN /\ timer \in BOOLEAN
  /\ DOMAIN list \subseteq Gateways /\ \A g \in DOMAIN list : list[g] \in Row
  /\ \A g \in Gateways : DOMAIN drafts[g] \subseteq Fields
  /\ load.stage # "config" => \A g \in Gateways : drafts[g] # NoDraft => g \in DOMAIN list
  /\ clicks \in 0..MaxClicks /\ others \in 0..MaxOthers /\ errors \in 0..MaxErrors

(* The page refreshes itself only while it is on, somebody is signed in and *)
(* the page can be seen, whatever answer arrives late (startAutoRefresh is  *)
(* reached from every edit and every answer).                               *)
TimerIsWanted == timer => auto /\ user # "none" /\ ~hidden

GivenUp(g) == ResetGateway(g) \/ ToggleRow(g) \/ \E v \in Values : Type(g, v)

Stored(g) == \E r \in net \ net' : r.gateway = g /\ r.kind \in {"save", "toggle"}

(* An edit that is not saved stays in its row: a refresh, a check, or what  *)
(* happens to another row never discards it.  It goes when the row is       *)
(* saved, reset or edited, has gone, or holds that value anyway.            *)
KeepsDrafts ==
  \A g \in Gateways : \A f \in DOMAIN drafts[g] :
    \/ f \in DOMAIN drafts'[g] /\ drafts'[g][f] = drafts[g][f]
    \/ user' = "none" \/ g \notin DOMAIN list' \/ list'[g][f] = drafts[g][f]
    \/ GivenUp(g) \/ Stored(g)

DraftsSurvive == [][KeepsDrafts]_vars

Watching == auto /\ ~hidden /\ user = "admin" /\ session = "admin"

(* A page that is watched ends up with the gateways there are, whatever     *)
(* order loads, saves, checks and deletions were answered in.               *)
CaughtUp == list = rows

ListCatchesUp == <>[]Watching => <>[]CaughtUp
=============================================================================
