----------------------------- MODULE AdminUsers -----------------------------
(***************************************************************************)
(* The table of users in the administrators' console (public/admin.js):    *)
(* the selection and its bulk adjustment of credits, which is one call     *)
(* after the other, the adjustments, warnings and deletions of the drawer, *)
(* and the load that refreshes the table while they are under way.         *)
(***************************************************************************)
EXTENDS Naturals, FiniteSets, Functions

CONSTANTS
  Users,
  MaxClicks,  \* bound of the model on what the administrator does
  MaxOthers,  \* bound of the model on what others do to the users
  MaxErrors   \* bound of the model on calls that fail

(* What is assumed of the constants, by the module that gives their values *)
AdminUsersAssumption ==
  MaxClicks \in Nat /\ MaxOthers \in Nat /\ MaxErrors \in Nat

VARIABLES
  credits,   \* server: the users there are, with their credits
  users,     \* state.users
  selected,  \* state.selected.users
  shown,     \* the rows and the ticks as they were last rendered
  drawer,    \* what the drawer is about
  bulk,      \* the bulk adjustment under way
  granted,   \* server: how often it has given each user its amount
  net,       \* the calls of the drawer
  load, configured,
  clicks, others, errors

bounds == <<clicks, others, errors>>
vars == <<credits, users, selected, shown, drawer, bulk, granted, net, load, configured, bounds>>

-----------------------------------------------------------------------------

Views == {"closed", "menu", "detail", "warning", "delete"}
Nobody == "nobody"
Closed == [view |-> "closed", user |-> Nobody, email |-> FALSE]
Idle == [stage |-> "idle", asked |-> {}, todo |-> {}, now |-> Nobody, credits |-> 0]
NoLoad == [stage |-> "none", answer |-> <<>>, waiters |-> {}]

Upsert(us, u, c) == [v \in DOMAIN us \cup {u} |-> IF v = u THEN c ELSE us[v]]
Without(us, gone) == Restrict(us, DOMAIN us \ gone)

(* renderUsers *)
Render(us, sel) == shown' = [rows |-> DOMAIN us, ticks |-> sel \cap DOMAIN us]

(* rerenderAfterMutation: pruneSelections, then renderAll *)
Rerender(us, sel) ==
  /\ users' = us
  /\ selected' = sel \cap DOMAIN us
  /\ Render(us, sel \cap DOMAIN us)

LoadAll(waiters) ==
  load' = IF load = NoLoad THEN [NoLoad EXCEPT !.stage = "sent", !.waiters = waiters]
          ELSE [load EXCEPT !.waiters = @ \cup waiters]

OpenDrawer(view, u) == drawer' = [view |-> view, user |-> u, email |-> FALSE]

(* The page as it is some time after its first load. *)
Init ==
  /\ credits = [u \in Users |-> 0]
  /\ users = credits /\ selected \in SUBSET Users
  /\ shown = [rows |-> Users, ticks |-> selected]
  /\ drawer \in {Closed} \cup [view : {"menu"}, user : Users, email : {FALSE}]
                       \cup [view : {"delete"}, user : Users, email : {TRUE}]
  /\ bulk = Idle
  /\ granted = [u \in Users |-> 0]
  /\ net = {} /\ load = NoLoad /\ configured \in BOOLEAN
  /\ clicks = 0 /\ others = 0 /\ errors = 0

-----------------------------------------------------------------------------
(* The service, and the other administrators *)

Other ==
  /\ others < MaxOthers /\ others' = others + 1
  /\ \E u \in DOMAIN credits :
       credits' \in {Without(credits, {u}), [credits EXCEPT ![u] = @ + 1]}
  /\ UNCHANGED <<users, selected, shown, drawer, bulk, granted, net, load, configured, clicks, errors>>

(* POST /api/admin/credits of the bulk adjustment; 404 for who is gone *)
ServeBulk ==
  /\ bulk.stage = "sent"
  /\ IF bulk.now \in DOMAIN credits
     THEN /\ credits' = [credits EXCEPT ![bulk.now] = @ + 1]
          /\ granted' = [granted EXCEPT ![bulk.now] = @ + 1]
          /\ bulk' = [bulk EXCEPT !.stage = "answered", !.credits = credits'[bulk.now]]
     ELSE /\ bulk' = [bulk EXCEPT !.stage = "failed"]
          /\ UNCHANGED <<credits, granted>>
  /\ UNCHANGED <<users, selected, shown, drawer, net, load, configured, bounds>>

Serve(r) ==
  /\ r.stage = "sent" /\ r.kind # "create"
  /\ IF r.user \in DOMAIN credits
     THEN /\ credits' = CASE r.kind = "credit" -> [credits EXCEPT ![r.user] = @ + 1]
                          [] r.kind = "delete" -> Without(credits, {r.user})
                          [] OTHER -> credits
          /\ net' = (net \ {r}) \cup {[r EXCEPT !.stage = "answered",
                                                !.credits = IF r.kind = "delete" THEN 0 ELSE credits'[r.user]]}
     ELSE /\ net' = (net \ {r}) \cup {[r EXCEPT !.stage = "failed"]}
          /\ UNCHANGED credits
  /\ UNCHANGED <<users, selected, shown, drawer, bulk, granted, load, configured, bounds>>

(* POST /api/admin/users *)
ServeCreate(r) ==
  /\ r.kind = "create" /\ r.stage = "sent"
  /\ \E u \in Users \ DOMAIN credits : credits' = Upsert(credits, u, 0)
  /\ net' = (net \ {r}) \cup {[r EXCEPT !.stage = "answered"]}
  /\ UNCHANGED <<users, selected, shown, drawer, bulk, granted, load, configured, bounds>>

ServeLoad ==
  /\ load.stage = "sent"
  /\ load' = [load EXCEPT !.stage = "answered", !.answer = credits]
  /\ UNCHANGED <<credits, users, selected, shown, drawer, bulk, granted, net, configured, bounds>>

(* A call fails before it is served, or its answer is lost. *)
Lose ==
  /\ errors < MaxErrors /\ errors' = errors + 1
  /\ \/ /\ bulk.stage \in {"sent", "answered"}
        /\ bulk' = [bulk EXCEPT !.stage = "failed"]
        /\ UNCHANGED <<net, load>>
     \/ /\ load.stage \in {"sent", "answered"}
        /\ load' = [load EXCEPT !.stage = "failed"]
        /\ UNCHANGED <<bulk, net>>
     \/ \E r \in net :
          /\ r.stage \in {"sent", "answered"}
          /\ net' = (net \ {r}) \cup {[r EXCEPT !.stage = "failed"]}
          /\ UNCHANGED <<bulk, load>>
  /\ UNCHANGED <<credits, users, selected, shown, drawer, granted, configured, clicks, others>>

-----------------------------------------------------------------------------
(* The continuations of the handlers *)

Page == <<users, selected, shown>>

(* Variant: the users are read from the selection as it is by then. *)
BulkLeft_Live == (bulk.todo \cap selected) \ {bulk.now}

BulkLeft == bulk.todo \ {bulk.now}

(* patchMany: the next user, or the end; the ticks are rendered before the  *)
(* selection is cleared.                                                    *)
DeliverBulk ==
  /\ bulk.stage = "answered"
  /\ LET us == Upsert(users, bulk.now, bulk.credits)
     IN IF BulkLeft # {}
        THEN /\ \E u \in BulkLeft :
                  bulk' = [bulk EXCEPT !.stage = "sent", !.todo = BulkLeft, !.now = u]
             /\ users' = us
             /\ UNCHANGED <<selected, shown>>
        ELSE /\ bulk' = Idle
             /\ users' = us
             /\ Render(us, selected \cap DOMAIN us)
             /\ selected' = {}
  /\ UNCHANGED <<credits, drawer, granted, net, load, configured, bounds>>

(* A toast: who was served so far stays so, and everybody stays selected. *)
BulkFails ==
  /\ bulk.stage = "failed"
  /\ bulk' = Idle
  /\ UNCHANGED <<credits, Page, drawer, granted, net, load, configured, bounds>>

DeliverCredit(r) ==
  /\ r.kind = "credit" /\ r.stage = "answered"
  /\ Rerender(Upsert(users, r.user, r.credits), selected)
  /\ drawer' = Closed
  /\ UNCHANGED load

DeliverWarning(r) ==
  /\ r.kind = "warn" /\ r.stage = "answered"
  /\ Rerender(Upsert(users, r.user, r.credits), selected)
  /\ OpenDrawer("detail", r.user)
  /\ UNCHANGED load

(* The table is rendered again only when the load has ended. *)
DeliverDelete(r) ==
  /\ r.kind = "delete" /\ r.stage = "answered"
  /\ users' = Without(users, {r.user})
  /\ selected' = selected \ {r.user}
  /\ LoadAll({"delete"})
  /\ UNCHANGED <<shown, drawer>>

(* The created user is read by a load, the one under way if there is one. *)
DeliverCreate(r) ==
  /\ r.kind = "create" /\ r.stage = "answered"
  /\ LoadAll({})
  /\ UNCHANGED <<Page, drawer>>

Deliver(r) ==
  /\ \/ DeliverCredit(r) \/ DeliverWarning(r) \/ DeliverDelete(r) \/ DeliverCreate(r)
     \/ r.stage = "failed" /\ UNCHANGED <<Page, drawer, load>>
  /\ net' = net \ {r}
  /\ UNCHANGED <<credits, bulk, granted, configured, bounds>>

(* pruneSelections, renderAll, and the end of the deletions that wait *)
LoadEnds(us) ==
  /\ load' = NoLoad
  /\ Rerender(us, selected)
  /\ drawer' = IF "delete" \in load.waiters THEN Closed ELSE drawer
  /\ UNCHANGED <<credits, bulk, granted, net, bounds>>

(* The list is assigned before, and pruned and rendered after, the          *)
(* configuration of the test page is awaited.                               *)
LoadArrives ==
  /\ load.stage = "answered"
  /\ IF configured THEN LoadEnds(load.answer) /\ UNCHANGED configured
     ELSE /\ users' = load.answer
          /\ load' = [load EXCEPT !.stage = "config"]
          /\ UNCHANGED <<credits, selected, shown, drawer, bulk, granted, net, configured, bounds>>

ConfigArrives ==
  /\ load.stage = "config"
  /\ configured' \in BOOLEAN
  /\ LoadEnds(users)

(* A deletion renders without its load: loadAll().catch(rerenderAfterMutation) *)
LoadFails ==
  /\ load.stage = "failed"
  /\ load' = NoLoad
  /\ IF "delete" \in load.waiters THEN Rerender(users, selected) /\ drawer' = Closed
     ELSE UNCHANGED <<Page, drawer>>
  /\ UNCHANGED <<credits, bulk, granted, net, configured, bounds>>

-----------------------------------------------------------------------------
(* The administrator *)

Click ==
  /\ clicks < MaxClicks /\ clicks' = clicks + 1
  /\ UNCHANGED <<credits, configured, others, errors>>

(* The checkbox of a row, as it is shown *)
Tick(u) ==
  /\ Click /\ u \in shown.rows
  /\ selected' = IF u \in shown.ticks THEN selected \ {u} ELSE selected \cup {u}
  /\ Render(users, selected')
  /\ UNCHANGED <<users, drawer, bulk, granted, net, load>>

(* setVisibleSelection of the rows that the search leaves *)
SelectAll(visible, checked) ==
  /\ Click /\ visible # {} /\ visible \subseteq DOMAIN users
  /\ selected' = IF checked THEN selected \cup visible ELSE selected \ visible
  /\ Render(users, selected')
  /\ UNCHANGED <<users, drawer, bulk, granted, net, load>>

ClearSelection ==
  /\ Click /\ selected # {}
  /\ selected' = {}
  /\ Render(users, {})
  /\ UNCHANGED <<users, drawer, bulk, granted, net, load>>

(* The button is busy until its handler is through. *)
BulkCredit ==
  /\ Click /\ bulk = Idle /\ selected # {}
  /\ \E u \in selected :
       bulk' = [Idle EXCEPT !.stage = "sent", !.asked = selected, !.todo = selected, !.now = u]
  /\ granted' = [u \in Users |-> 0]
  /\ UNCHANGED <<Page, drawer, net, load>>

Menu(u) ==
  /\ Click /\ u \in shown.rows \cap DOMAIN users
  /\ OpenDrawer("menu", u)
  /\ UNCHANGED <<Page, bulk, granted, net, load>>

DrawerAction(view) ==
  /\ Click /\ drawer.view \in {"menu", "detail"}
  /\ drawer.user \in DOMAIN users
  /\ OpenDrawer(view, drawer.user)
  /\ UNCHANGED <<Page, bulk, granted, net, load>>

CloseDrawer ==
  /\ Click /\ drawer # Closed
  /\ drawer' = Closed
  /\ UNCHANGED <<Page, bulk, granted, net, load>>

TypeEmail ==
  /\ Click /\ drawer.view = "delete"
  /\ drawer' = [drawer EXCEPT !.email = ~@]
  /\ UNCHANGED <<Page, bulk, granted, net, load>>

Ask(kind) ==
  /\ Click
  /\ net' = net \cup {[kind |-> kind, user |-> drawer.user, stage |-> "sent", credits |-> 0, id |-> clicks]}
  /\ UNCHANGED <<Page, drawer, bulk, granted, load>>

AdjustCredits == drawer.view = "detail" /\ Ask("credit")
WarnUser == drawer.view = "warning" /\ Ask("warn")
DeleteUser == drawer.view = "delete" /\ drawer.email /\ Ask("delete")

CreateUser ==
  /\ Click /\ Users \ DOMAIN credits # {}
  /\ net' = net \cup {[kind |-> "create", user |-> Nobody, stage |-> "sent", credits |-> 0, id |-> clicks]}
  /\ UNCHANGED <<Page, drawer, bulk, granted, load>>

(* The refresh button, or the interval *)
Refresh ==
  /\ Click
  /\ LoadAll({})
  /\ UNCHANGED <<Page, drawer, bulk, granted, net>>

-----------------------------------------------------------------------------

Next ==
  \/ Other \/ ServeBulk \/ ServeLoad \/ Lose
  \/ \E r \in net : Serve(r) \/ ServeCreate(r) \/ Deliver(r)
  \/ DeliverBulk \/ BulkFails
  \/ LoadArrives \/ ConfigArrives \/ LoadFails
  \/ \E u \in Users : Tick(u) \/ Menu(u)
  \/ \E visible \in SUBSET Users, checked \in BOOLEAN : SelectAll(visible, checked)
  \/ ClearSelection \/ BulkCredit \/ CloseDrawer \/ TypeEmail
  \/ \E view \in {"detail", "warning", "delete"} : DrawerAction(view)
  \/ AdjustCredits \/ WarnUser \/ DeleteUser \/ CreateUser \/ Refresh

Spec == Init /\ [][Next]_vars

-----------------------------------------------------------------------------
(* Properties *)

(* The page's lists and selection, the drawer and the bulk adjustment.      *)
TypeOK ==
  /\ DOMAIN credits \subseteq Users /\ DOMAIN users \subseteq Users
  /\ \A u \in DOMAIN users : users[u] \in Nat
  /\ selected \subseteq Users /\ shown.ticks \subseteq shown.rows
  /\ drawer.view \in Views /\ (drawer.view = "closed" <=> drawer = Closed)
  /\ bulk.todo \subseteq bulk.asked /\ (bulk # Idle => bulk.now \in bulk.todo)
  /\ configured \in BOOLEAN

(* "The credits are adjusted": when a bulk adjustment ends well, each user  *)
(* who was selected when it began was given the amount once and nobody else *)
(* was, whatever was ticked, deleted or refreshed meanwhile.                *)
GivesOnce ==
  DeliverBulk /\ bulk' = Idle => \A u \in Users : granted[u] = IF u \in bulk.asked THEN 1 ELSE 0

BulkIsExact == [][GivesOnce]_vars
=============================================================================
