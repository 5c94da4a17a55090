---------------------------- MODULE ConsoleProofs ----------------------------
(***************************************************************************)
(* The table of gateways of the administration page, for any gateways and  *)
(* any number of clicks, of changes by others and of failed calls.         *)
(***************************************************************************)
EXTENDS AdminConsole, TLAPS

-----------------------------------------------------------------------------
(* The table of gateways *)

RequestKinds ==
  {"me", "login", "logout", "save", "toggle", "check", "delete", "create", "checkall", "recheck", "revive"}
OfGateway == {"save", "toggle", "check", "delete", "create", "recheck", "revive"}
OfRow == {"save", "toggle", "check", "recheck", "revive"}

IsRows(t) == DOMAIN t \subseteq Gateways /\ \A g \in DOMAIN t : t[g] \in Row
IsPatch(p) == DOMAIN p \subseteq Fields /\ \A f \in DOMAIN p : p[f] \in Values

(* What a request says, and what its answer brings *)
IsRequest(r) ==
  /\ DOMAIN r = {"kind", "gateway", "patch", "stage", "row", "role", "rest", "id"}
  /\ r.kind \in RequestKinds /\ r.stage \in {"sent", "answered", "failed"}
  /\ r.kind \in OfGateway => r.gateway \in Gateways
  /\ IsPatch(r.patch) /\ r.role \in Roles /\ r.rest \subseteq Gateways
  /\ r.stage = "answered" /\ r.kind \in OfRow => r.row \in Row
  /\ r.stage = "answered" /\ r.kind = "checkall" => IsRows(r.row)

ServerTyped == IsRows(rows) /\ session \in Roles

(* The refresh is wanted, and nobody is signed in who is nobody. *)
RefreshInv ==
  /\ user \in Roles /\ open \in BOOLEAN /\ auto \in BOOLEAN /\ hidden \in BOOLEAN /\ timer \in BOOLEAN
  /\ TimerIsWanted

TableInv ==
  /\ IsRows(list)
  /\ DOMAIN drafts = Gateways /\ \A g \in Gateways : IsPatch(drafts[g])
  /\ load.stage # "config" => \A g \in Gateways : drafts[g] # NoDraft => g \in DOMAIN list

LoadInv ==
  /\ DOMAIN load = {"stage", "answer", "waiters"}
  /\ load.stage = "answered" => IsRows(load.answer)

BoundsTyped == clicks \in 0..MaxClicks /\ others \in 0..MaxOthers /\ errors \in 0..MaxErrors

NetInv == \A r \in net : IsRequest(r)

ConsoleInv == ServerTyped /\ RefreshInv /\ TableInv /\ LoadInv /\ NetInv /\ BoundsTyped

-----------------------------------------------------------------------------
(* Rows, drafts and requests *)

\* A row with edited values.
LEMMA PatchTyped ==
  ASSUME NEW row \in Row, NEW patch, IsPatch(patch)
  PROVE  [f \in Fields |-> IF f \in DOMAIN patch THEN patch[f] ELSE row[f]] \in Row
BY DEF Row, IsPatch

\* What is left of edits when some are dropped.
LEMMA RestrictPatch ==
  ASSUME NEW p, IsPatch(p), NEW S
  PROVE  IsPatch(Restrict(p, S \cap DOMAIN p))
BY DEF IsPatch, Restrict

\* No edits.
LEMMA EmptyPatch == IsPatch(NoDraft) /\ DOMAIN NoDraft = {}
BY DEF IsPatch, NoDraft

\* The edits that differ from the row they are of.
LEMMA DirtyPatch ==
  ASSUME NEW p, IsPatch(p), NEW row
  PROVE  IsPatch(Dirty(row, p))
BY DEF IsPatch, Dirty, Restrict

\* A row put into a list.
LEMMA UpsertRows ==
  ASSUME NEW t, IsRows(t), NEW g \in Gateways, NEW row \in Row
  PROVE  IsRows(Upsert(t, g, row))
BY DEF IsRows, Upsert

\* Some of the rows of a list.
LEMMA RestrictRows ==
  ASSUME NEW t, IsRows(t), NEW g
  PROVE  IsRows(Restrict(t, DOMAIN t \ {g}))
BY DEF IsRows, Restrict

\* No rows.
LEMMA EmptyRows == IsRows(<<>>)
BY DEF IsRows

\* The drafts of rows that are rendered, and none for those that are not.
LEMMA WithoutDrafts ==
  ASSUME NEW ds, DOMAIN ds = Gateways, \A g \in Gateways : IsPatch(ds[g]), NEW g, NEW fs
  PROVE  LET left == Without(ds, g, fs)
         IN  /\ DOMAIN left = Gateways /\ \A h \in Gateways : IsPatch(left[h])
             /\ \A h \in Gateways : h # g => left[h] = ds[h]
<1> DEFINE left == Without(ds, g, fs)
<1>1. left = [ds EXCEPT ![g] = Restrict(ds[g], DOMAIN ds[g] \ fs)]
  BY DEF Without
<1>2. DOMAIN left = Gateways /\ \A h \in Gateways : h # g => left[h] = ds[h]
  BY <1>1
<1>3. g \in Gateways => left[g] = Restrict(ds[g], DOMAIN ds[g] \ fs)
  BY <1>1
<1>4. g \in Gateways => IsPatch(left[g])
  BY <1>3 DEF IsPatch, Restrict
<1> HIDE DEF left
<1>5. \A h \in Gateways : IsPatch(left[h])
  BY <1>2, <1>4
<1> QED BY <1>2, <1>5 DEF left

\* A rendering keeps drafts of the rows that are listed only, and wants the interval.
LEMMA RerenderKeeps ==
  ASSUME RefreshInv, NEW rs, IsRows(rs), NEW ds, DOMAIN ds = Gateways, \A g \in Gateways : IsPatch(ds[g]),
         Rerender(rs, ds), UNCHANGED <<user, open>>
  PROVE  RefreshInv' /\ TableInv'
<1>1. list' = rs /\ drafts' = PruneDrafts(ds, rs)
  BY DEF Rerender
<1>2. DOMAIN drafts' = Gateways
  BY <1>1 DEF PruneDrafts
<1>3. \A g \in Gateways : drafts'[g] = IF g \in DOMAIN rs THEN Dirty(rs[g], ds[g]) ELSE NoDraft
  BY <1>1 DEF PruneDrafts
<1>4. \A g \in Gateways : IsPatch(drafts'[g]) /\ (drafts'[g] # NoDraft => g \in DOMAIN list')
  BY <1>1, <1>3, DirtyPatch, EmptyPatch
<1>5. TableInv'
  BY <1>1, <1>2, <1>4 DEF TableInv, IsRows
<1>6. timer' = (auto' /\ user # "none" /\ ~hidden') /\ auto' = auto /\ hidden' = hidden
  BY DEF Rerender, ApplyAutoRefresh, StartAutoRefresh
<1>7. RefreshInv'
  BY <1>6 DEF RefreshInv, TimerIsWanted
<1> QED BY <1>5, <1>7

\* Who signs out has no table and no timer.
LEMMA SignOutKeeps ==
  ASSUME RefreshInv, SignOut
  PROVE  RefreshInv' /\ TableInv'
<1>1. RefreshInv'
  BY DEF SignOut, RefreshInv, TimerIsWanted, Roles
<1>2. list' = <<>> /\ drafts' = [g \in Gateways |-> NoDraft]
  BY DEF SignOut
<1>3. TableInv'
  BY <1>2, EmptyPatch, EmptyRows DEF TableInv, IsRows
<1> QED BY <1>1, <1>3

\* A new request of the page.
LEMMA RequestTyped ==
  ASSUME NEW kind \in RequestKinds, NEW g, kind \in OfGateway => g \in Gateways, NEW patch, IsPatch(patch)
  PROVE  /\ IsRequest(Request(kind, g, patch))
         /\ \A id : IsRequest([Request(kind, g, patch) EXCEPT !.id = id])
         /\ \A rest \in SUBSET Gateways : \A id : IsRequest([Request(kind, g, patch) EXCEPT !.rest = rest, !.id = id])
<1>1. Request(kind, g, patch) = [kind |-> kind, gateway |-> g, patch |-> patch, stage |-> "sent", row |-> NoDraft,
                                 role |-> "none", rest |-> {}, id |-> clicks]
  BY DEF Request
<1>2. "none" \in Roles
  BY DEF Roles
<1> QED BY <1>1, <1>2 DEF IsRequest

\* A request that has failed.
LEMMA FailedTyped ==
  ASSUME NEW r, IsRequest(r)
  PROVE  IsRequest([r EXCEPT !.stage = "failed"])
BY DEF IsRequest

\* loadAll joins the load under way or starts one.
LEMMA LoadAllKeeps ==
  ASSUME LoadInv, TableInv, NEW waiters, load' = LoadAll(load, waiters), UNCHANGED <<list, drafts>>
  PROVE  LoadInv' /\ TableInv'
<1>1. CASE load = NoLoad
  <2>1. load.stage = "none"
    BY <1>1 DEF NoLoad
  <2>2. load' = [NoLoad EXCEPT !.stage = "sent", !.waiters = waiters]
    BY <1>1 DEF LoadAll
  <2>3. DOMAIN load' = {"stage", "answer", "waiters"} /\ load'.stage = "sent"
    BY <2>2 DEF NoLoad
  <2> QED BY <2>1, <2>3 DEF LoadInv, TableInv, IsRows
<1>2. CASE load # NoLoad
  <2>1. load' = [load EXCEPT !.waiters = load.waiters \cup waiters]
    BY <1>2 DEF LoadAll
  <2>2. DOMAIN load' = {"stage", "answer", "waiters"} /\ load'.stage = load.stage /\ load'.answer = load.answer
    BY <2>1 DEF LoadInv
  <2> QED BY <2>2 DEF LoadInv, TableInv, IsRows
<1> QED BY <1>1, <1>2

\* Steps that leave the table alone.
LEMMA TableStays ==
  ASSUME TableInv, UNCHANGED <<list, drafts, load>>
  PROVE  TableInv'
BY DEF TableInv, IsRows

\* Steps that leave the refresh alone.
LEMMA RefreshStays ==
  ASSUME RefreshInv, UNCHANGED <<user, open, refresh>>
  PROVE  RefreshInv'
BY DEF RefreshInv, TimerIsWanted, refresh

\* Steps that leave the load alone.
LEMMA LoadStays ==
  ASSUME LoadInv, UNCHANGED load
  PROVE  LoadInv'
BY DEF LoadInv, IsRows

\* Steps that leave the gateways of the service alone.
LEMMA ServerStays ==
  ASSUME ServerTyped, UNCHANGED server
  PROVE  ServerTyped'
BY DEF ServerTyped, IsRows, server

-----------------------------------------------------------------------------
(* The service *)

\* The page as it is opened.
LEMMA ConsoleStarts == AdminConsoleAssumption /\ Init => ConsoleInv
<1> SUFFICES ASSUME AdminConsoleAssumption, Init PROVE ConsoleInv
  OBVIOUS
<1>1. ServerTyped
  BY DEF Init, ServerTyped, IsRows, Row, Fields, Values, Roles
<1>2. RefreshInv
  BY DEF Init, RefreshInv, TimerIsWanted, Roles
<1>3. TableInv
  BY EmptyPatch, EmptyRows DEF Init, TableInv
<1>4. LoadInv
  BY DEF Init, LoadInv, NoLoad
<1>5. NetInv
  BY EmptyPatch DEF Init, NetInv, IsRequest, Roles, RequestKinds, OfGateway, OfRow
<1>6. BoundsTyped
  BY DEF AdminConsoleAssumption, Init, BoundsTyped
<1> QED BY <1>1, <1>2, <1>3, <1>4, <1>5, <1>6 DEF ConsoleInv

\* Whatever others do to the gateways.
LEMMA OtherKeepsConsole ==
  ASSUME AdminConsoleAssumption, ConsoleInv, Other
  PROVE  ConsoleInv'
<1> USE DEF ConsoleInv
<1>1. IsRows(rows')
  <2>1. CASE \E g \in DOMAIN rows, f \in Fields : rows' = [rows EXCEPT ![g][f] = 1 - @]
    <3>1. PICK g \in DOMAIN rows, f \in Fields : rows' = [rows EXCEPT ![g][f] = 1 - @]
      BY <2>1
    <3>2. rows[g] \in [Fields -> Values] /\ rows[g][f] \in Values
      BY DEF ServerTyped, IsRows, Row
    <3>3. rows' = [rows EXCEPT ![g] = [rows[g] EXCEPT ![f] = 1 - rows[g][f]]]
      BY <3>1
    <3>4. [rows[g] EXCEPT ![f] = 1 - rows[g][f]] \in [Fields -> Values]
      BY <3>2 DEF Values
    <3> QED BY <3>3, <3>4 DEF ServerTyped, IsRows, Row
  <2>2. CASE \E g \in DOMAIN rows : rows' = Restrict(rows, DOMAIN rows \ {g})
    BY <2>2, RestrictRows DEF ServerTyped
  <2> QED BY <2>1, <2>2 DEF Other
<1>2. ServerTyped' /\ BoundsTyped'
  BY <1>1 DEF Other, ServerTyped, BoundsTyped, AdminConsoleAssumption
<1>3. RefreshInv' /\ TableInv' /\ LoadInv'
  BY RefreshStays, TableStays, LoadStays DEF Other, table
<1>4. NetInv'
  BY DEF Other, NetInv
<1> QED BY <1>2, <1>3, <1>4

\* The gateways after a request that was allowed.
LEMMA AppliedTyped ==
  ASSUME IsRows(rows), NEW r, IsRequest(r), Allowed(r)
  PROVE  /\ IsRows(Applied(r))
         /\ r.kind \in OfRow => r.gateway \in DOMAIN Applied(r)
<1>1. r.kind \in OfRow \cup {"delete"} => r.gateway \in DOMAIN rows
  BY DEF Allowed, OfRow
<1>2. CASE r.kind \in {"save", "toggle", "revive"}
  <2> DEFINE row == [f \in Fields |-> IF f \in DOMAIN r.patch THEN r.patch[f] ELSE rows[r.gateway][f]]
  <2>1. r.gateway \in DOMAIN rows
    BY <1>1, <1>2 DEF OfRow
  <2>2. row \in Row
    BY <2>1, PatchTyped DEF IsRows, IsRequest
  <2>3. Applied(r) = [rows EXCEPT ![r.gateway] = row]
    BY <1>2 DEF Applied
  <2> HIDE DEF row
  <2> QED BY <2>1, <2>2, <2>3 DEF IsRows
<1>3. CASE r.kind = "delete"
  <2>1. Applied(r) = Restrict(rows, DOMAIN rows \ {r.gateway})
    BY <1>3 DEF Applied
  <2> QED BY <1>3, <2>1, RestrictRows DEF OfRow
<1>4. CASE r.kind = "create"
  <2>1. Applied(r) = Upsert(rows, r.gateway, [f \in Fields |-> 0])
    BY <1>4 DEF Applied
  <2>2. [f \in Fields |-> 0] \in Row
    BY DEF Row, Values
  <2>3. r.gateway \in Gateways
    BY <1>4 DEF IsRequest, OfGateway
  <2> QED BY <1>4, <2>1, <2>2, <2>3, UpsertRows DEF OfRow
<1>5. CASE r.kind \notin {"save", "toggle", "revive", "delete", "create"}
  <2>1. Applied(r) = rows
    BY <1>5 DEF Applied
  <2> QED BY <1>1, <2>1
<1> QED BY <1>2, <1>3, <1>4, <1>5

\* A request is served.
LEMMA ServeKeepsConsole ==
  ASSUME ConsoleInv, NEW r \in net, Serve(r)
  PROVE  ConsoleInv'
<1> USE DEF ConsoleInv
<1>1. RefreshInv' /\ TableInv' /\ LoadInv'
  BY RefreshStays, TableStays, LoadStays DEF Serve, table
<1>2. BoundsTyped'
  BY DEF Serve, BoundsTyped, bounds
<1>3. IsRequest(r)
  BY DEF NetInv
<1>4. CASE Allowed(r)
  <2> DEFINE row == IF r.kind = "checkall" THEN rows'
                    ELSE IF r.gateway \in DOMAIN rows' THEN rows'[r.gateway] ELSE NoDraft
             s == [r EXCEPT !.stage = "answered", !.row = row, !.role = session]
  <2>1. rows' = Applied(r)
    BY <1>4 DEF Serve
  <2>2. IsRows(rows') /\ (r.kind \in OfRow => r.gateway \in DOMAIN rows')
    BY <1>3, <1>4, <2>1, AppliedTyped DEF ServerTyped
  <2>3. session' \in Roles
    BY <1>4 DEF Serve, ServerTyped, Roles
  <2>4. (r.kind \in OfRow => row \in Row) /\ (r.kind = "checkall" => IsRows(row))
    BY <2>2 DEF IsRows, OfRow
  <2>5. net' = (net \ {r}) \cup {s}
    BY <1>4 DEF Serve, Replaced
  <2>6. session \in Roles
    BY DEF ServerTyped
  <2> HIDE DEF row
  <2>7. IsRequest(s)
    BY <1>3, <2>4, <2>6 DEF IsRequest
  <2> HIDE DEF s
  <2>8. NetInv'
    BY <2>5, <2>7 DEF NetInv
  <2>9. ServerTyped'
    BY <2>2, <2>3 DEF ServerTyped
  <2> QED BY <1>1, <1>2, <2>8, <2>9
<1>5. CASE ~Allowed(r)
  <2>1. net' = (net \ {r}) \cup {[r EXCEPT !.stage = "failed"]} /\ UNCHANGED server
    BY <1>5 DEF Serve, Replaced
  <2>2. NetInv'
    BY <1>3, <2>1, FailedTyped DEF NetInv
  <2> QED BY <1>1, <1>2, <2>1, <2>2, ServerStays
<1> QED BY <1>4, <1>5

\* The load is served.
LEMMA ServeLoadKeepsConsole ==
  ASSUME ConsoleInv, ServeLoad
  PROVE  ConsoleInv'
<1> USE DEF ConsoleInv
<1>1. RefreshInv' /\ ServerTyped'
  BY RefreshStays, ServerStays DEF ServeLoad
<1>2. BoundsTyped' /\ NetInv'
  BY DEF ServeLoad, BoundsTyped, bounds, NetInv
<1>3. IsRows(rows) /\ load.stage = "sent"
  BY DEF ServeLoad, ServerTyped
<1>4. LoadInv'
  BY <1>3 DEF ServeLoad, LoadInv
<1>5. TableInv'
  BY <1>3 DEF ServeLoad, table, TableInv, IsRows
<1> QED BY <1>1, <1>2, <1>4, <1>5

\* A request or a load fails.
LEMMA LoseKeepsConsole ==
  ASSUME AdminConsoleAssumption, ConsoleInv, LoseLoad \/ \E r \in net : Lose(r)
  PROVE  ConsoleInv'
<1> USE DEF ConsoleInv
<1>1. CASE LoseLoad
  <2>1. RefreshInv' /\ ServerTyped'
    BY <1>1, RefreshStays, ServerStays DEF LoseLoad
  <2>2. BoundsTyped' /\ NetInv'
    BY <1>1 DEF LoseLoad, BoundsTyped, NetInv, AdminConsoleAssumption
  <2>3. LoadInv' /\ TableInv'
    BY <1>1 DEF LoseLoad, LoadInv, table, TableInv, IsRows
  <2> QED BY <2>1, <2>2, <2>3
<1>2. CASE \E r \in net : Lose(r)
  <2>1. PICK r \in net : Lose(r)
    BY <1>2
  <2>2. RefreshInv' /\ ServerTyped' /\ TableInv' /\ LoadInv'
    BY <2>1, RefreshStays, ServerStays, TableStays, LoadStays DEF Lose, table
  <2>3. BoundsTyped'
    BY <2>1 DEF Lose, BoundsTyped, AdminConsoleAssumption
  <2>4. NetInv'
    BY <2>1, FailedTyped DEF Lose, Replaced, NetInv
  <2> QED BY <2>2, <2>3, <2>4
<1> QED BY <1>1, <1>2

-----------------------------------------------------------------------------
(* The continuations of the handlers *)

\* A request that has been answered goes, and nothing takes its place.
LEMMA NetShrinks ==
  ASSUME NetInv, NEW r, net' = net \ {r}
  PROVE  NetInv'
BY DEF NetInv

\* A row that was answered is put into the table, which is rendered.
LEMMA RowArrives ==
  ASSUME ConsoleInv, NEW r \in net, r.kind \in OfRow, r.stage = "answered", NEW fs,
         \/ Rerender(Upsert(list, r.gateway, r.row), Without(drafts, r.gateway, fs))
         \/ Rerender(Upsert(list, r.gateway, r.row), drafts),
         UNCHANGED <<user, open>>
  PROVE  RefreshInv' /\ TableInv'
<1>1. IsRequest(r)
  BY DEF ConsoleInv, NetInv
<1>2. r.gateway \in Gateways /\ r.row \in Row
  BY <1>1 DEF IsRequest, OfRow, OfGateway
<1>3. IsRows(Upsert(list, r.gateway, r.row))
  BY <1>2, UpsertRows DEF ConsoleInv, TableInv
<1>4. CASE Rerender(Upsert(list, r.gateway, r.row), Without(drafts, r.gateway, fs))
  <2>1. DOMAIN Without(drafts, r.gateway, fs) = Gateways /\ \A g \in Gateways : IsPatch(Without(drafts,
            r.gateway, fs)[g])
    BY WithoutDrafts DEF ConsoleInv, TableInv
  <2> QED BY <1>3, <1>4, <2>1, RerenderKeeps DEF ConsoleInv
<1>5. CASE Rerender(Upsert(list, r.gateway, r.row), drafts)
  BY <1>3, <1>5, RerenderKeeps DEF ConsoleInv, TableInv
<1> QED BY <1>4, <1>5

\* The session was asked for.
LEMMA DeliverMeKeeps ==
  ASSUME ConsoleInv, NEW r \in net, DeliverMe(r), UNCHANGED <<server, bounds>>
  PROVE  RefreshInv' /\ TableInv' /\ LoadInv' /\ NetInv'
<1> USE DEF ConsoleInv
<1>1. NetInv'
  BY NetShrinks DEF DeliverMe
<1>2. CASE r.stage = "failed" \/ r.role = "none"
  BY <1>1, <1>2, SignOutKeeps, LoadStays DEF DeliverMe
<1>3. CASE ~(r.stage = "failed" \/ r.role = "none")
  <2>1. user' = r.role /\ r.role \in Roles /\ r.role # "none" /\ open' = (r.role = "admin") /\
            UNCHANGED <<table, configured>>
    BY <1>3 DEF DeliverMe, NetInv, IsRequest
  <2>2. CASE r.role = "admin"
    <3>1. load' = LoadAll(load, {"admin"}) /\ UNCHANGED refresh
      BY <1>3, <2>2 DEF DeliverMe
    <3>2. RefreshInv'
      BY <2>1, <3>1 DEF refresh, RefreshInv, TimerIsWanted
    <3> QED BY <1>1, <2>1, <3>1, <3>2, LoadAllKeeps DEF table
  <2>3. CASE r.role # "admin"
    <3>1. load' = load /\ timer' = FALSE /\ UNCHANGED <<auto, hidden>>
      BY <1>3, <2>3 DEF DeliverMe
    <3>2. RefreshInv'
      BY <2>1, <3>1 DEF RefreshInv, TimerIsWanted
    <3> QED BY <1>1, <2>1, <3>1, <3>2, TableStays, LoadStays DEF table
  <2> QED BY <2>2, <2>3
<1> QED BY <1>2, <1>3

\* A sequence of checks goes on.
LEMMA DeliverRecheckKeeps ==
  ASSUME ConsoleInv, NEW r \in net, DeliverRecheck(r)
  PROVE  RefreshInv' /\ TableInv' /\ LoadInv' /\ NetInv'
<1> USE DEF ConsoleInv
<1> DEFINE rs == Upsert(list, r.gateway, r.row)
<1>1. IsRequest(r) /\ r.kind \in OfRow /\ r.stage = "answered"
  BY DEF DeliverRecheck, NetInv, OfRow
<1>2. r.gateway \in Gateways /\ r.row \in Row
  BY <1>1 DEF IsRequest, OfRow, OfGateway
<1>3. IsRows(rs) /\ DOMAIN list \subseteq DOMAIN rs
  BY <1>2, UpsertRows DEF TableInv, Upsert
<1>4. UNCHANGED <<user, open, configured, load>>
  BY DEF DeliverRecheck
<1>5. LoadInv'
  BY <1>4, LoadStays
<1>6. ASSUME list' = rs, UNCHANGED <<refresh, drafts>>
      PROVE  RefreshInv' /\ TableInv'
  <2>1. RefreshInv'
    BY <1>4, <1>6, RefreshStays
  <2>2. TableInv'
    <3> HIDE DEF rs
    <3> QED BY <1>3, <1>4, <1>6 DEF TableInv, IsRows
  <2> QED BY <2>1, <2>2
<1>7. CASE /\ r.kind = "recheck"
           /\ net' = (net \ {r}) \cup {[r EXCEPT !.kind = "revive", !.stage = "sent", !.row = NoDraft,
                                                  !.patch = [f \in {"enabled"} |-> 1]]}
           /\ list' = rs /\ UNCHANGED <<refresh, drafts>>
  <2> DEFINE patch == [f \in {"enabled"} |-> 1]
             s == [r EXCEPT !.kind = "revive", !.stage = "sent", !.row = NoDraft, !.patch = patch]
  <2>1. IsPatch(patch)
    BY DEF IsPatch, Fields, Values
  <2> HIDE DEF patch
  <2>2. IsRequest(s)
    BY <1>1, <1>2, <2>1 DEF IsRequest, RequestKinds
  <2>3. net' = (net \ {r}) \cup {s}
    BY <1>7 DEF patch
  <2> HIDE DEF s
  <2>4. NetInv'
    BY <2>2, <2>3 DEF NetInv
  <2> QED BY <1>5, <1>6, <1>7, <2>4
<1>8. CASE \E next \in Recheck(r.rest, r.id) :
             net' = (net \ {r}) \cup {next} /\ list' = rs /\ UNCHANGED <<refresh, drafts>>
  <2>1. PICK next \in Recheck(r.rest, r.id) :
               net' = (net \ {r}) \cup {next} /\ list' = rs /\ UNCHANGED <<refresh, drafts>>
    BY <1>8
  <2>2. PICK g \in r.rest : next = [Request("recheck", g, NoDraft) EXCEPT !.rest = r.rest \ {g}, !.id = r.id]
    BY <2>1 DEF Recheck
  <2>3. g \in Gateways /\ r.rest \ {g} \in SUBSET Gateways /\ "recheck" \in RequestKinds
    BY <1>1 DEF IsRequest, RequestKinds
  <2>4. IsRequest(next)
    BY <2>2, <2>3, EmptyPatch, RequestTyped
  <2>5. NetInv'
    BY <2>1, <2>4 DEF NetInv
  <2> QED BY <1>5, <1>6, <2>1, <2>5
<1>9. CASE r.rest = {} /\ net' = net \ {r} /\ Rerender(rs, drafts)
  <2>1. RefreshInv' /\ TableInv'
    BY <1>1, <1>4, <1>9, RowArrives
  <2> QED BY <1>5, <1>9, <2>1, NetShrinks
<1> QED BY <1>7, <1>8, <1>9 DEF DeliverRecheck

\* Whatever answer arrives.
LEMMA DeliverKeepsConsole ==
  ASSUME ConsoleInv, NEW r \in net, Deliver(r)
  PROVE  ConsoleInv'
<1> USE DEF ConsoleInv
<1>1. ServerTyped' /\ BoundsTyped'
  BY ServerStays DEF Deliver, bounds, BoundsTyped
<1> SUFFICES RefreshInv' /\ TableInv' /\ LoadInv' /\ NetInv'
  BY <1>1
<1>2. IsRequest(r)
  BY DEF NetInv
<1>3. CASE DeliverMe(r)
  BY <1>3, DeliverMeKeeps DEF Deliver
<1>4. CASE DeliverLogin(r)
  <2>1. RefreshInv' /\ TableInv' /\ LoadInv'
    BY <1>4, RefreshStays, TableStays, LoadStays DEF DeliverLogin, table
  <2>2. "me" \in RequestKinds /\ "me" \notin OfGateway
    BY DEF RequestKinds, OfGateway
  <2>3. IsRequest([Request("me", Nobody, NoDraft) EXCEPT !.id = r.id])
    BY <2>2, EmptyPatch, RequestTyped
  <2>4. NetInv'
    BY <1>4, <2>3 DEF DeliverLogin, NetInv
  <2> QED BY <2>1, <2>4
<1>5. CASE DeliverLogout(r)
  BY <1>5, SignOutKeeps, LoadStays, NetShrinks DEF DeliverLogout
<1>6. CASE DeliverSave(r) \/ DeliverToggle(r) \/ DeliverCheck(r)
  <2>1. r.kind \in OfRow /\ r.stage = "answered" /\ UNCHANGED <<user, open, configured, load>> /\ net' = net \ {r}
    BY <1>6 DEF DeliverSave, DeliverToggle, DeliverCheck, OfRow
  <2>2. RefreshInv' /\ TableInv'
    BY <1>6, <2>1, RowArrives DEF DeliverSave, DeliverToggle, DeliverCheck
  <2> QED BY <2>1, <2>2, LoadStays, NetShrinks
<1>7. CASE DeliverDelete(r)
  <2>1. IsRows(Restrict(list, DOMAIN list \ {r.gateway}))
    BY RestrictRows DEF TableInv
  <2>2. DOMAIN Without(drafts, r.gateway, Fields) = Gateways /\ \A g \in Gateways : IsPatch(Without(drafts,
            r.gateway, Fields)[g])
    BY WithoutDrafts DEF TableInv
  <2>3. RefreshInv' /\ TableInv'
    BY <1>7, <2>1, <2>2, RerenderKeeps DEF DeliverDelete
  <2> QED BY <1>7, <2>3, LoadStays, NetShrinks DEF DeliverDelete
<1>8. CASE DeliverCreate(r)
  BY <1>8, RefreshStays, LoadAllKeeps, NetShrinks DEF DeliverCreate, table
<1>9. CASE DeliverCheckAll(r)
  <2>1. IsRows(r.row)
    BY <1>2, <1>9 DEF DeliverCheckAll, IsRequest
  <2>2. RefreshInv' /\ TableInv'
    BY <1>9, <2>1, RerenderKeeps DEF DeliverCheckAll, TableInv
  <2> QED BY <1>9, <2>2, LoadStays, NetShrinks DEF DeliverCheckAll
<1>10. CASE DeliverRecheck(r)
  BY <1>10, DeliverRecheckKeeps
<1>11. CASE DeliverError(r)
  <2>1. RefreshInv' /\ NetInv' /\ UNCHANGED <<list, drafts>>
    BY <1>11, RefreshStays, NetShrinks DEF DeliverError, table
  <2>2. load' = LoadAll(load, {}) \/ load' = load
    BY <1>11 DEF DeliverError
  <2> QED BY <2>1, <2>2, LoadAllKeeps, TableStays, LoadStays
<1> QED BY <1>3, <1>4, <1>5, <1>6, <1>7, <1>8, <1>9, <1>10, <1>11 DEF Deliver

\* The load has ended, for all who wait for it.
LEMMA LoadEndsKeepsConsole ==
  ASSUME ConsoleInv, NEW rs, IsRows(rs), LoadEnds(rs)
  PROVE  ConsoleInv'
<1> USE DEF ConsoleInv
<1>1. ServerTyped' /\ BoundsTyped' /\ NetInv'
  BY ServerStays DEF LoadEnds, bounds, BoundsTyped, NetInv
<1>2. RefreshInv' /\ TableInv'
  BY RerenderKeeps DEF LoadEnds, TableInv
<1>3. LoadInv'
  BY DEF LoadEnds, NoLoad, LoadInv
<1> QED BY <1>1, <1>2, <1>3

\* The load arrives or fails.
LEMMA LoadKeepsConsole ==
  ASSUME ConsoleInv, LoadArrives \/ ConfigArrives \/ LoadFails \/ TimerFires
  PROVE  ConsoleInv'
<1> USE DEF ConsoleInv
<1>1. CASE LoadArrives
  <2>1. IsRows(load.answer)
    BY <1>1 DEF LoadArrives, LoadInv
  <2>2. CASE configured
    BY <1>1, <2>1, <2>2, LoadEndsKeepsConsole DEF LoadArrives
  <2>3. CASE ~configured
    <3>1. /\ list' = load.answer /\ load' = [load EXCEPT !.stage = "config"]
          /\ UNCHANGED <<server, user, open, refresh, drafts, configured, net, bounds>>
      BY <1>1, <2>3 DEF LoadArrives
    <3>2. DOMAIN load' = {"stage", "answer", "waiters"} /\ load'.stage = "config"
      BY <3>1 DEF LoadInv
    <3>3. TableInv' /\ LoadInv'
      BY <2>1, <3>1, <3>2 DEF TableInv, LoadInv, IsRows
    <3>4. BoundsTyped' /\ NetInv'
      BY <3>1 DEF bounds, BoundsTyped, NetInv
    <3> QED BY <3>1, <3>3, <3>4, ServerStays, RefreshStays
  <2> QED BY <2>2, <2>3
<1>2. CASE ConfigArrives
  BY <1>2, LoadEndsKeepsConsole DEF ConfigArrives, TableInv
<1>3. CASE LoadFails
  <2>1. ServerTyped' /\ BoundsTyped' /\ NetInv'
    BY <1>3, ServerStays DEF LoadFails, bounds, BoundsTyped, NetInv
  <2>2. load' = NoLoad /\ load.stage = "failed"
    BY <1>3 DEF LoadFails
  <2>3. LoadInv'
    BY <2>2 DEF NoLoad, LoadInv
  <2>4. CASE "admin" \in load.waiters
    BY <1>3, <2>1, <2>3, <2>4, SignOutKeeps DEF LoadFails
  <2>5. CASE "admin" \notin load.waiters
    <3>1. UNCHANGED <<user, open, refresh, table, configured>>
      BY <1>3, <2>5 DEF LoadFails
    <3>2. TableInv'
      BY <2>2, <3>1 DEF table, TableInv, IsRows
    <3> QED BY <2>1, <2>3, <3>1, <3>2, RefreshStays
  <2> QED BY <2>4, <2>5
<1>4. CASE TimerFires
  <2>1. ServerTyped' /\ RefreshInv' /\ BoundsTyped' /\ NetInv'
    BY <1>4, ServerStays, RefreshStays DEF TimerFires, bounds, BoundsTyped, NetInv
  <2> QED BY <1>4, <2>1, LoadAllKeeps DEF TimerFires, table
<1> QED BY <1>1, <1>2, <1>3, <1>4

-----------------------------------------------------------------------------
(* The administrator *)

\* What a click leaves alone.
LEMMA ClickKeeps ==
  ASSUME AdminConsoleAssumption, ConsoleInv, Click
  PROVE  ServerTyped' /\ BoundsTyped'
BY ServerStays DEF ConsoleInv, Click, BoundsTyped, AdminConsoleAssumption

\* A draft is edited or given up.
LEMMA EditKeepsConsole ==
  ASSUME AdminConsoleAssumption, ConsoleInv, Click, NEW g \in Gateways, NEW draft, IsPatch(draft),
         draft # NoDraft => g \in DOMAIN list,
         drafts' = [drafts EXCEPT ![g] = draft], ApplyAutoRefresh(user), UNCHANGED <<list, load, net>>
  PROVE  ConsoleInv'
<1> USE DEF ConsoleInv
<1>1. ServerTyped' /\ BoundsTyped'
  BY ClickKeeps
<1>2. user' = user /\ open' = open
  BY DEF Click
<1>3. timer' = (auto' /\ user # "none" /\ ~hidden') /\ auto' = auto /\ hidden' = hidden
  BY DEF ApplyAutoRefresh, StartAutoRefresh
<1>4. RefreshInv'
  BY <1>2, <1>3 DEF RefreshInv, TimerIsWanted
<1>5. TableInv'
  BY DEF TableInv, IsRows
<1> QED BY <1>1, <1>4, <1>5, LoadStays DEF NetInv

\* A field of a row is edited.
LEMMA SetDraftKeepsConsole ==
  ASSUME AdminConsoleAssumption, ConsoleInv, NEW g \in Gateways, NEW f \in Fields, NEW v \in Values, SetDraft(g, f, v)
  PROVE  ConsoleInv'
<1> DEFINE edited == [h \in DOMAIN drafts[g] \cup {f} |-> IF h = f THEN v ELSE drafts[g][h]]
<1>1. IsPatch(edited)
  BY DEF ConsoleInv, TableInv, IsPatch
<1>2. drafts' = [drafts EXCEPT ![g] = Dirty(list[g], edited)]
  BY DEF SetDraft
<1> HIDE DEF edited
<1>3. IsPatch(Dirty(list[g], edited))
  BY <1>1, DirtyPatch
<1> QED BY <1>2, <1>3, EditKeepsConsole DEF SetDraft

\* A request is sent.
LEMMA AskKeepsConsole ==
  ASSUME AdminConsoleAssumption, ConsoleInv, Click, NEW r, IsRequest(r), net' = net \cup {r},
         UNCHANGED <<refresh, table, load>>
  PROVE  ConsoleInv'
<1> USE DEF ConsoleInv
<1>1. ServerTyped' /\ BoundsTyped'
  BY ClickKeeps
<1>2. RefreshInv' /\ TableInv' /\ LoadInv'
  BY RefreshStays, TableStays, LoadStays DEF Click, table
<1>3. NetInv'
  BY DEF NetInv
<1> QED BY <1>1, <1>2, <1>3

\* What the inputs of a row hold.
LEMMA InputTyped ==
  ASSUME ConsoleInv, NEW g \in Gateways, g \in DOMAIN list, NEW f \in Fields
  PROVE  RowInput(g, f) \in Values /\ 1 - RowInput(g, f) \in Values
<1>1. IsPatch(drafts[g]) /\ list[g] \in [Fields -> Values]
  BY DEF ConsoleInv, TableInv, IsRows, Row
<1>2. RowInput(g, f) \in Values
  BY <1>1 DEF RowInput, IsPatch
<1> QED BY <1>2 DEF Values

\* The buttons and fields of a row.
LEMMA RowClicksKeepConsole ==
  ASSUME AdminConsoleAssumption, ConsoleInv, NEW g \in Gateways,
         \/ \E v \in Values : Type(g, v)
         \/ ToggleRow(g) \/ ResetGateway(g) \/ SaveGateway(g) \/ CheckGateway(g)
         \/ DeleteGateway(g) \/ CreateGateway(g) \/ ToggleInDrawer(g)
  PROVE  ConsoleInv'
<1>1. CASE \E v \in Values : Type(g, v)
  BY <1>1, SetDraftKeepsConsole DEF Type, Fields
<1>2. CASE ToggleRow(g)
  <2>1. "enabled" \in Fields
    BY DEF Fields
  <2>2. 1 - RowInput(g, "enabled") \in Values
    BY <1>2, <2>1, InputTyped DEF ToggleRow
  <2> QED BY <1>2, <2>1, <2>2, SetDraftKeepsConsole DEF ToggleRow
<1>3. CASE ResetGateway(g)
  BY <1>3, EmptyPatch, EditKeepsConsole DEF ResetGateway
<1>4. CASE SaveGateway(g) \/ CheckGateway(g) \/ DeleteGateway(g) \/ CreateGateway(g) \/ ToggleInDrawer(g)
  <2>0. PICK kind \in OfGateway : \E patch : IsPatch(patch) /\ Ask(kind, g, patch)
    <3>1. {"save", "check", "delete", "create", "toggle"} \subseteq OfGateway
      BY DEF OfGateway
    <3>2. CASE SaveGateway(g)
      <4>1. "text" \in Fields
        BY DEF Fields
      <4>2. RowInput(g, "text") \in Values
        BY <3>2, <4>1, InputTyped DEF SaveGateway
      <4>3. IsPatch(RowPatch(g))
        BY <4>1, <4>2 DEF IsPatch, RowPatch
      <4> QED BY <3>1, <3>2, <4>3 DEF SaveGateway
    <3>3. CASE CheckGateway(g) \/ DeleteGateway(g) \/ CreateGateway(g)
      BY <3>1, <3>3, EmptyPatch DEF CheckGateway, DeleteGateway, CreateGateway
    <3>4. CASE ToggleInDrawer(g)
      <4>1. list[g] \in [Fields -> Values] /\ "enabled" \in Fields
        BY <3>4 DEF ToggleInDrawer, ConsoleInv, TableInv, IsRows, Row, Fields
      <4>2. 1 - list[g].enabled \in Values
        BY <4>1 DEF Values
      <4>3. IsPatch([f \in {"enabled"} |-> 1 - list[g].enabled])
        BY <4>1, <4>2 DEF IsPatch
      <4> QED BY <3>1, <3>4, <4>3 DEF ToggleInDrawer
    <3> QED BY <1>4, <3>2, <3>3, <3>4
  <2>1. PICK patch : IsPatch(patch) /\ Ask(kind, g, patch)
    BY <2>0
  <2>2. kind \in RequestKinds
    BY DEF OfGateway, RequestKinds
  <2>3. IsRequest(Request(kind, g, patch))
    BY <2>1, <2>2, RequestTyped
  <2> QED BY <2>1, <2>3, AskKeepsConsole DEF Ask
<1> QED BY <1>1, <1>2, <1>3, <1>4

\* The buttons above the table, the session, and the visibility of the page.
LEMMA ClicksKeepConsole ==
  ASSUME AdminConsoleAssumption, ConsoleInv,
         \/ CheckAllGateways \/ EnableHealthyGateways \/ Logout \/ Login
         \/ RefreshButton \/ AutoRefreshButton \/ VisibilityChange
  PROVE  ConsoleInv'
<1>1. CASE CheckAllGateways \/ Logout \/ Login
  <2>1. PICK kind \in {"checkall", "logout", "login"} : Ask(kind, Nobody, NoDraft)
    BY <1>1 DEF CheckAllGateways, Logout, Login
  <2>2. kind \in RequestKinds /\ kind \notin OfGateway
    BY DEF RequestKinds, OfGateway
  <2>3. IsRequest(Request(kind, Nobody, NoDraft))
    BY <2>2, EmptyPatch, RequestTyped
  <2> QED BY <2>1, <2>3, AskKeepsConsole DEF Ask
<1>2. CASE EnableHealthyGateways
  <2>1. PICK G \in SUBSET {g \in DOMAIN list : list[g].enabled = 1} :
          \E first \in Recheck(G, clicks) : net' = net \cup {first}
    BY <1>2 DEF EnableHealthyGateways
  <2>2. PICK first \in Recheck(G, clicks) : net' = net \cup {first}
    BY <2>1
  <2>3. PICK g \in G : first = [Request("recheck", g, NoDraft) EXCEPT !.rest = G \ {g}, !.id = clicks]
    BY <2>2 DEF Recheck
  <2>4. g \in Gateways /\ G \ {g} \in SUBSET Gateways /\ "recheck" \in RequestKinds
    BY <2>1 DEF ConsoleInv, TableInv, IsRows, RequestKinds
  <2>5. IsRequest(first)
    BY <2>3, <2>4, EmptyPatch, RequestTyped
  <2> QED BY <1>2, <2>2, <2>5, AskKeepsConsole DEF EnableHealthyGateways
<1>3. CASE RefreshButton
  <2>1. ServerTyped' /\ BoundsTyped'
    BY <1>3, ClickKeeps DEF RefreshButton
  <2>2. RefreshInv' /\ NetInv'
    BY <1>3, RefreshStays DEF RefreshButton, Click, ConsoleInv, NetInv
  <2>3. TableInv' /\ LoadInv'
    BY <1>3, LoadAllKeeps DEF RefreshButton, ConsoleInv, table
  <2> QED BY <2>1, <2>2, <2>3 DEF ConsoleInv
<1>4. CASE AutoRefreshButton \/ VisibilityChange
  <2>1. Click /\ UNCHANGED <<table, load, net>>
    BY <1>4 DEF AutoRefreshButton, VisibilityChange
  <2>2. ServerTyped' /\ BoundsTyped'
    BY <2>1, ClickKeeps
  <2>3. TableInv' /\ LoadInv' /\ NetInv'
    BY <2>1, TableStays, LoadStays DEF ConsoleInv, table, NetInv
  <2>4. user' = user /\ open' = open
    BY <2>1 DEF Click
  <2>5. RefreshInv
    BY DEF ConsoleInv
  <2>6. CASE AutoRefreshButton
    <3>1. timer' = (auto' /\ user # "none" /\ ~hidden') /\ auto' = ~auto /\ hidden' = hidden
      BY <2>6 DEF AutoRefreshButton, StartAutoRefresh
    <3>2. RefreshInv'
      BY <2>4, <2>5, <3>1 DEF RefreshInv, TimerIsWanted
    <3> QED BY <2>2, <2>3, <3>2 DEF ConsoleInv
  <2>7. CASE VisibilityChange
    <3>1. auto' = auto /\ hidden' = ~hidden /\ (timer' = FALSE \/ timer' = (auto' /\ user # "none" /\ ~hidden'))
      BY <2>7 DEF VisibilityChange, StartAutoRefresh
    <3>2. RefreshInv'
      BY <2>4, <2>5, <3>1 DEF RefreshInv, TimerIsWanted
    <3> QED BY <2>2, <2>3, <3>2 DEF ConsoleInv
  <2> QED BY <1>4, <2>6, <2>7
<1> QED BY <1>1, <1>2, <1>3, <1>4

\* Every step keeps the invariant.
LEMMA ConsoleStep == AdminConsoleAssumption /\ ConsoleInv /\ [Next]_vars => ConsoleInv'
<1> SUFFICES ASSUME AdminConsoleAssumption, ConsoleInv, [Next]_vars PROVE ConsoleInv'
  OBVIOUS
<1>1. CASE UNCHANGED vars
  <2>1. BoundsTyped' /\ NetInv'
    BY <1>1 DEF vars, bounds, ConsoleInv, BoundsTyped, NetInv
  <2> QED BY <1>1, <2>1, ServerStays, RefreshStays, TableStays, LoadStays DEF ConsoleInv, vars, table
<1>2. CASE Other \/ Services \/ LoseLoad \/ \E r \in net : Lose(r)
  BY <1>2, OtherKeepsConsole, ServeKeepsConsole, ServeLoadKeepsConsole, LoseKeepsConsole DEF Services
<1>3. CASE Continuations \/ TimerFires
  BY <1>3, DeliverKeepsConsole, LoadKeepsConsole DEF Continuations
<1>4. CASE \E g \in Gateways :
             \/ \E v \in Values : Type(g, v)
             \/ ToggleRow(g) \/ ResetGateway(g) \/ SaveGateway(g) \/ CheckGateway(g)
             \/ DeleteGateway(g) \/ CreateGateway(g) \/ ToggleInDrawer(g)
  BY <1>4, RowClicksKeepConsole
<1>5. CASE \/ CheckAllGateways \/ EnableHealthyGateways \/ Logout \/ Login
           \/ RefreshButton \/ AutoRefreshButton \/ VisibilityChange
  BY <1>5, ClicksKeepConsole
<1> QED BY <1>1, <1>2, <1>3, <1>4, <1>5 DEF Next

-----------------------------------------------------------------------------
(* What becomes of the drafts *)

Survives(g, f) ==
  \/ f \in DOMAIN drafts'[g] /\ drafts'[g][f] = drafts[g][f]
  \/ user' = "none" \/ g \notin DOMAIN list' \/ list'[g][f] = drafts[g][f]

\* A rendering keeps every draft that it was given and that the row does not hold.
LEMMA RerenderSurvives ==
  ASSUME NEW rs, NEW ds, Rerender(rs, ds), NEW g \in Gateways, ds[g] = drafts[g], NEW f \in DOMAIN drafts[g]
  PROVE  Survives(g, f)
<1>1. list' = rs /\ drafts'[g] = IF g \in DOMAIN rs THEN Dirty(rs[g], drafts[g]) ELSE NoDraft
  BY DEF Rerender, PruneDrafts
<1>2. CASE g \in DOMAIN rs /\ drafts[g][f] # rs[g][f]
  <2>1. drafts'[g] = Dirty(rs[g], drafts[g])
    BY <1>1, <1>2
  <2>2. f \in DOMAIN Dirty(rs[g], drafts[g]) /\ Dirty(rs[g], drafts[g])[f] = drafts[g][f]
    BY <1>2 DEF Dirty, Restrict
  <2> QED BY <2>1, <2>2 DEF Survives
<1> QED BY <1>1, <1>2 DEF Survives

\* Whatever answer arrives, edits of other fields stay.
LEMMA DeliverSurvives ==
  ASSUME ConsoleInv, NEW r \in net, Deliver(r), NEW g \in Gateways, NEW f \in DOMAIN drafts[g]
  PROVE  Survives(g, f) \/ Stored(g)
<1>1. DOMAIN drafts = Gateways /\ \A h \in Gateways : IsPatch(drafts[h])
  BY DEF ConsoleInv, TableInv
<1>2. \A fs : g # r.gateway => Without(drafts, r.gateway, fs)[g] = drafts[g]
  BY <1>1, WithoutDrafts
<1>3. CASE UNCHANGED drafts \/ user' = "none"
  BY <1>3 DEF Survives
<1>4. CASE DeliverMe(r) \/ DeliverLogin(r) \/ DeliverLogout(r) \/ DeliverCreate(r) \/ DeliverError(r)
  BY <1>3, <1>4 DEF DeliverMe, DeliverLogin, DeliverLogout, DeliverCreate, DeliverError, SignOut, table
<1>5. CASE DeliverSave(r) \/ DeliverToggle(r)
  <2>1. CASE g = r.gateway
    <3>1. r \in net \ net' /\ r.kind \in {"save", "toggle"}
      BY <1>5 DEF DeliverSave, DeliverToggle
    <3> QED BY <2>1, <3>1 DEF Stored
  <2>2. CASE g # r.gateway
    BY <1>2, <1>5, <2>2, RerenderSurvives DEF DeliverSave, DeliverToggle
  <2> QED BY <2>1, <2>2
<1>6. CASE DeliverCheck(r) \/ DeliverCheckAll(r)
  BY <1>6, RerenderSurvives DEF DeliverCheck, DeliverCheckAll
<1>7. CASE DeliverDelete(r)
  <2>1. CASE g = r.gateway
    <3>1. list' = Restrict(list, DOMAIN list \ {r.gateway})
      BY <1>7 DEF DeliverDelete, Rerender
    <3>2. g \notin DOMAIN list'
      BY <2>1, <3>1 DEF Restrict
    <3> QED BY <3>2 DEF Survives
  <2>2. CASE g # r.gateway
    BY <1>2, <1>7, <2>2, RerenderSurvives DEF DeliverDelete
  <2> QED BY <2>1, <2>2
<1>8. CASE DeliverRecheck(r)
  <2>1. (UNCHANGED drafts) \/ \E rs : Rerender(rs, drafts)
    BY <1>8 DEF DeliverRecheck
  <2> QED BY <1>3, <2>1, RerenderSurvives
<1> QED BY <1>4, <1>5, <1>6, <1>7, <1>8 DEF Deliver

\* Whatever happens, a draft stays unless it is meant to go.
LEMMA DraftsStay ==
  ASSUME ConsoleInv, Next
  PROVE  KeepsDrafts
<1> SUFFICES ASSUME NEW g \in Gateways, NEW f \in DOMAIN drafts[g]
             PROVE  Survives(g, f) \/ GivenUp(g) \/ Stored(g)
  BY DEF KeepsDrafts, Survives
<1>1. CASE UNCHANGED drafts \/ user' = "none"
  BY <1>1 DEF Survives
<1>2. CASE Other \/ Services \/ LoseLoad \/ \E r \in net : Lose(r)
  BY <1>1, <1>2 DEF Other, Services, Serve, ServeLoad, LoseLoad, Lose, table
<1>3. CASE \E r \in net : Deliver(r)
  BY <1>3, DeliverSurvives
<1>4. CASE LoadArrives \/ ConfigArrives \/ LoadFails \/ TimerFires
  <2>1. (UNCHANGED drafts) \/ user' = "none" \/ \E rs : Rerender(rs, drafts)
    BY <1>4 DEF LoadArrives, ConfigArrives, LoadFails, LoadEnds, TimerFires, table, SignOut
  <2> QED BY <1>1, <2>1, RerenderSurvives
<1>5. ASSUME NEW h \in Gateways, (\E v \in Values : Type(h, v)) \/ ToggleRow(h) \/ ResetGateway(h)
      PROVE  Survives(g, f) \/ GivenUp(g)
  <2>1. CASE h = g
    BY <1>5, <2>1 DEF GivenUp
  <2>2. CASE h # g
    <3>1. drafts'[g] = drafts[g]
      BY <1>5, <2>2 DEF Type, ToggleRow, SetDraft, ResetGateway, ConsoleInv, TableInv
    <3> QED BY <3>1 DEF Survives
  <2> QED BY <2>1, <2>2
<1>6. CASE \E h \in Gateways :
             SaveGateway(h) \/ CheckGateway(h) \/ DeleteGateway(h) \/ CreateGateway(h) \/ ToggleInDrawer(h)
  BY <1>1, <1>6 DEF SaveGateway, CheckGateway, DeleteGateway, CreateGateway, ToggleInDrawer, Ask, table
<1>7. CASE \/ CheckAllGateways \/ EnableHealthyGateways \/ Logout \/ Login
           \/ RefreshButton \/ AutoRefreshButton \/ VisibilityChange
  BY <1>1, <1>7 DEF CheckAllGateways, EnableHealthyGateways, Logout, Login, RefreshButton, AutoRefreshButton,
                    VisibilityChange, Ask, table
<1> QED BY <1>2, <1>3, <1>4, <1>5, <1>6, <1>7 DEF Next, Continuations

-----------------------------------------------------------------------------

\* What the invariant says of the types and of the timer.
LEMMA ConsoleTyped == ConsoleInv => TypeOK /\ TimerIsWanted
<1> SUFFICES ASSUME ConsoleInv PROVE TypeOK /\ TimerIsWanted
  OBVIOUS
<1>1. \A g \in Gateways : DOMAIN drafts[g] \subseteq Fields
  BY DEF ConsoleInv, TableInv, IsPatch
<1> QED BY <1>1 DEF ConsoleInv, ServerTyped, RefreshInv, TableInv, BoundsTyped, IsRows, TypeOK

\* An edit of a field of the gateway table goes only when its row goes, when it is
\* saved, reset or undone, or when the page signs out, whatever is loaded, checked,
\* saved or refreshed in the meantime; and the interval runs only when it is wanted.
THEOREM DraftsAlwaysSurvive ==
  ASSUME AdminConsoleAssumption
  PROVE  Spec => DraftsSurvive /\ [](TypeOK /\ TimerIsWanted)
<1>1. ConsoleInv /\ [Next]_vars => [KeepsDrafts]_vars
  BY DraftsStay
<1> QED BY <1>1, ConsoleStarts, ConsoleStep, ConsoleTyped, PTL DEF Spec, DraftsSurvive
=============================================================================
