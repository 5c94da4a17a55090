----------------------------- MODULE PagesProofs -----------------------------
(***************************************************************************)
(* The pages of the browser beside the list of jobs and the gateways, each *)
(* with variables of its own.  Of the administration page: the accounts of *)
(* administrators, the users, the channel, the gallery and the rules; of   *)
(* the workspace page: the reference images, the options of the composer,  *)
(* the warnings of an account and the lists of credit entries.  For any    *)
(* users, files, rules, prices and sizes of a page, and any number of      *)
(* clicks, calls and failures.                                             *)
(***************************************************************************)
EXTENDS Integers, FiniteSetTheorems, SequenceTheorems, TLAPS

CONSTANTS
  Admins, Seeds, MaxRequests, MaxRestarts, Picks, Results, MaxReferences,
  Users, MaxClicks, MaxOthers, MaxErrors, MaxVisits, Sizes, MaxImages,
  Rules, EarlierRules, Texts, Models, NoGateway, Price, Offers, Typed,
  NeverSaved, MaxLists, WarningCount, EarlierWarnings, PageLimit,
  MaxRefreshes, MaxLost, PageSize, EarlierEntries, MaxEntries, MaxLoads,
  Patient

VARIABLES
  accounts, asking, raced, requests, restarts, files, refs, tray, urls,
  previews, sending, fetching, credits, users, selected, shown, drawer,
  bulk, granted, net, load, configured, clicks, others, errors, stored,
  form, keyConfigured, loaded, loads, saving, testing, upstream, result,
  total, gallery, visible, failed, unmade, list, rows, rendered, filter,
  replace, ticks, replaced, signedIn, ratio, quality, count, gateway,
  options, brief, draft, sent, acknowledged, open, active, timers, seen,
  refreshes, entries, view, cached

Staff == INSTANCE Administrators
Tray == INSTANCE References
People == INSTANCE AdminUsers
Channel == INSTANCE CallSquare WITH MaxClicks <- MaxVisits
Gallery == INSTANCE AdminGallery WITH MaxClicks <- MaxVisits
RulesTab == INSTANCE AdminRules WITH Earlier <- EarlierRules
Options == INSTANCE Composer WITH Gateways <- Models, MaxLoads <- MaxLists
Warning == INSTANCE AccountWarnings WITH Earlier <- EarlierWarnings, MaxErrors <- MaxLost
Credits == INSTANCE CreditsView WITH Earlier <- EarlierEntries

-----------------------------------------------------------------------------
(* The inductive invariant *)

(* What a request has found out is still so, unless a write has overtaken   *)
(* it: one that has counted is not the removal of the last administrator,   *)
(* and one that counted nobody removes nobody.                              *)
StillSo(r) ==
  ~r.overtaken =>
    /\ r.pc = "counted" => Staff!Active \ {r.user} # {}
    /\ r.pc = "writing" /\ r.kind # "enable" => r.user \notin Staff!Active

AdminInv == Staff!TypeOK /\ Staff!OnlyRacesLockOut /\ \A r \in asking : StillSo(r)

-----------------------------------------------------------------------------
(* The steps *)

\* More than one administrator: one of them is not the one that goes.
LEMMA AnotherIsLeft ==
  ASSUME NEW S, ~(Staff!Cardinality(S) <= 1), NEW u
  PROVE  S \ {u} # {}
<1> SUFFICES ASSUME S \ {u} = {} PROVE FALSE
  OBVIOUS
<1>1. CASE S = {}
  BY <1>1, FS_EmptySet DEF Staff!Cardinality, Cardinality
<1>2. CASE S = {u}
  <2>1. Staff!Cardinality({u}) = 1
    BY FS_Singleton DEF Staff!Cardinality, Cardinality
  <2> QED BY <1>2, <2>1
<1> QED BY <1>1, <1>2

\* A request enters the service, or reads the account that it is about.
LEMMA AskKeeps ==
  ASSUME Staff!AdministratorsAssumption, AdminInv, NEW by \in Admins, NEW who \in Admins,
      NEW kind \in Staff!Kinds, Staff!Ask(by, who, kind)
  PROVE  AdminInv'
<1> DEFINE new == [id |-> requests, by |-> by, user |-> who, kind |-> kind, pc |-> "asked", overtaken |-> FALSE]
<1>1. new \in [id : Nat, by : Admins, user : Admins, kind : Staff!Kinds,
               pc : {"asked", "counting", "counted", "writing"}, overtaken : BOOLEAN] /\ new.pc = "asked"
  BY DEF AdminInv, Staff!TypeOK, Staff!AdministratorsAssumption
<1>2. asking' = asking \cup {new}
  BY DEF Staff!Ask
<1> HIDE DEF new
<1>3. Staff!TypeOK' /\ Staff!Active' = Staff!Active
  BY <1>1, <1>2 DEF Staff!Ask, AdminInv, Staff!TypeOK, Staff!Active, Staff!AdministratorsAssumption
<1>4. \A r \in asking' : StillSo(r)'
  BY <1>1, <1>2, <1>3 DEF AdminInv, StillSo
<1> QED BY <1>3, <1>4 DEF AdminInv, Staff!OnlyRacesLockOut, Staff!Ask

\* A request reads the account that it is about.
LEMMA ReadKeeps ==
  ASSUME AdminInv, NEW r \in asking, Staff!ReadUser(r)
  PROVE  AdminInv'
<1> DEFINE pc == IF r.user \in Staff!Active /\ r.kind # "enable" THEN "counting" ELSE "writing"
           next == [r EXCEPT !.pc = pc]
<1>1. /\ next \in [id : Nat, by : Admins, user : Admins, kind : Staff!Kinds,
                   pc : {"asked", "counting", "counted", "writing"}, overtaken : BOOLEAN]
      /\ next.pc = pc /\ next.user = r.user /\ next.kind = r.kind
  BY DEF AdminInv, Staff!TypeOK
<1>2. asking' \subseteq asking \cup {next}
  BY DEF Staff!ReadUser, Staff!Goto, Staff!Move
<1>3. StillSo(next)
  BY <1>1 DEF StillSo
<1> HIDE DEF next
<1>4. Staff!TypeOK' /\ Staff!Active' = Staff!Active
  BY <1>1, <1>2 DEF Staff!ReadUser, AdminInv, Staff!TypeOK, Staff!Active
<1>5. \A q \in asking' : StillSo(q)'
  BY <1>2, <1>3, <1>4 DEF AdminInv, StillSo
<1> QED BY <1>4, <1>5 DEF AdminInv, Staff!OnlyRacesLockOut, Staff!ReadUser

\* The count: another administrator is there.
LEMMA CountKeeps ==
  ASSUME AdminInv, NEW r \in asking, Staff!CountAdmins(r)
  PROVE  AdminInv'
<1> DEFINE next == [r EXCEPT !.pc = "counted"]
<1>1. /\ next \in [id : Nat, by : Admins, user : Admins, kind : Staff!Kinds,
                   pc : {"asked", "counting", "counted", "writing"}, overtaken : BOOLEAN]
      /\ next.pc = "counted" /\ next.user = r.user
  BY DEF AdminInv, Staff!TypeOK
<1>2. asking' \subseteq asking \cup {next} /\ (Staff!LastAdmin \/ StillSo(next))
  <2>1. CASE Staff!LastAdmin
    BY <2>1 DEF Staff!CountAdmins, Staff!Move
  <2>2. CASE ~Staff!LastAdmin
    <3>1. Staff!Active \ {r.user} # {}
      BY <2>2, AnotherIsLeft DEF Staff!LastAdmin
    <3> QED BY <2>2, <3>1, <1>1 DEF Staff!CountAdmins, Staff!Goto, Staff!Move, StillSo
  <2> QED BY <2>1, <2>2
<1>3. \A q \in asking' : StillSo(q)
  <2>1. CASE Staff!LastAdmin
    BY <2>1 DEF Staff!CountAdmins, Staff!Move, AdminInv
  <2>2. CASE ~Staff!LastAdmin
    BY <2>2, <1>2 DEF AdminInv
  <2> QED BY <2>1, <2>2
<1> HIDE DEF next
<1>4. Staff!TypeOK' /\ Staff!Active' = Staff!Active
  BY <1>1, <1>2 DEF Staff!CountAdmins, AdminInv, Staff!TypeOK, Staff!Active
<1>5. \A q \in asking' : StillSo(q)'
  BY <1>3, <1>4 DEF StillSo
<1> QED BY <1>4, <1>5 DEF AdminInv, Staff!OnlyRacesLockOut, Staff!CountAdmins

\* What a write does to the active ones.
LEMMA WrittenActive ==
  ASSUME AdminInv, NEW r \in asking, Staff!Write(r)
  PROVE  /\ accounts' \in [Admins -> {"absent", "active", "disabled"}]
         /\ Staff!Removes(r) => Staff!Active' = Staff!Active \ {r.user}
         /\ ~Staff!Removes(r) => Staff!Active \subseteq Staff!Active' /\
                Staff!Active' \subseteq Staff!Active \cup {r.user}
         /\ ~Staff!Removes(r) /\ r.kind # "enable" => Staff!Active' = Staff!Active
<1>1. accounts \in [Admins -> {"absent", "active", "disabled"}] /\ r.user \in Admins
  BY DEF AdminInv, Staff!TypeOK
<1>2. accounts' = [accounts EXCEPT ![r.user] = Staff!Written(r)] /\ Staff!Written(r) \in {"absent", "active",
          "disabled"}
  BY DEF Staff!Write, Staff!Written
<1>3. \A a \in Admins : a # r.user => accounts'[a] = accounts[a]
  BY <1>1, <1>2
<1>4. accounts'[r.user] = Staff!Written(r)
  BY <1>1, <1>2
<1>5. r.user \in Staff!Active' <=> Staff!Written(r) = "active"
  BY <1>1, <1>4 DEF Staff!Active
<1>6. r.user \in Staff!Active <=> accounts[r.user] = "active"
  BY <1>1 DEF Staff!Active
<1>7. CASE Staff!Removes(r)
  BY <1>1, <1>2, <1>3, <1>5, <1>7 DEF Staff!Removes, Staff!Written, Staff!Active
<1>8. CASE ~Staff!Removes(r)
  <2>1. r.kind \in Staff!Kinds
    BY DEF AdminInv, Staff!TypeOK
  <2>2. r.user \in Staff!Active => r.kind = "enable"
    BY <1>8 DEF Staff!Removes
  <2>3. r.user \in Staff!Active => r.user \in Staff!Active'
    BY <1>5, <1>6, <2>2 DEF Staff!Written
  <2>4. r.user \in Staff!Active' => r.kind = "enable"
    BY <1>5 DEF Staff!Written
  <2> QED BY <1>1, <1>2, <1>3, <1>8, <2>2, <2>3, <2>4 DEF Staff!Active
<1> QED BY <1>7, <1>8

\* The write: the requests whose findings it makes untrue are overtaken.
LEMMA WriteKeeps ==
  ASSUME AdminInv, NEW r \in asking, Staff!Write(r)
  PROVE  AdminInv'
<1> DEFINE After(q) == [q EXCEPT !.overtaken = q.overtaken \/ Staff!Overtakes(r, q)]
<1>1. asking' = {After(q) : q \in asking \ {r}}
  BY DEF Staff!Write
<1>2. \A q \in asking :
        /\ After(q) \in [id : Nat, by : Admins, user : Admins, kind : Staff!Kinds,
                         pc : {"asked", "counting", "counted", "writing"}, overtaken : BOOLEAN]
        /\ After(q).pc = q.pc /\ After(q).user = q.user /\ After(q).kind = q.kind
        /\ After(q).overtaken <=> (q.overtaken \/ Staff!Overtakes(r, q))
  <2> SUFFICES ASSUME NEW q \in asking
               PROVE  /\ After(q) \in [id : Nat, by : Admins, user : Admins, kind : Staff!Kinds,
                                       pc : {"asked", "counting", "counted", "writing"}, overtaken : BOOLEAN]
                      /\ After(q).pc = q.pc /\ After(q).user = q.user /\ After(q).kind = q.kind
                      /\ After(q).overtaken <=> (q.overtaken \/ Staff!Overtakes(r, q))
    OBVIOUS
  <2>1. q \in [id : Nat, by : Admins, user : Admins, kind : Staff!Kinds,
               pc : {"asked", "counting", "counted", "writing"}, overtaken : BOOLEAN]
    BY DEF AdminInv, Staff!TypeOK
  <2> DEFINE o == q.overtaken \/ Staff!Overtakes(r, q)
  <2>2. o \in BOOLEAN
    OBVIOUS
  <2>3. After(q) = [q EXCEPT !.overtaken = o]
    OBVIOUS
  <2>4. o <=> (q.overtaken \/ Staff!Overtakes(r, q))
    OBVIOUS
  <2> HIDE DEF o, After
  <2> QED BY <2>1, <2>2, <2>3, <2>4
<1> HIDE DEF After
<1>3. Staff!TypeOK'
  <2>1. asking' \subseteq [id : Nat, by : Admins, user : Admins, kind : Staff!Kinds,
                           pc : {"asked", "counting", "counted", "writing"}, overtaken : BOOLEAN]
    BY <1>1, <1>2
  <2>2. accounts' \in [Admins -> {"absent", "active", "disabled"}]
    BY WrittenActive
  <2>3. r.overtaken \in BOOLEAN /\ raced \in BOOLEAN
    BY DEF AdminInv, Staff!TypeOK
  <2>4. raced' \in BOOLEAN
    BY <2>3 DEF Staff!Write
  <2> QED BY <2>1, <2>2, <2>4 DEF Staff!Write, AdminInv, Staff!TypeOK
<1>4. \A p \in asking' : StillSo(p)'
  <2> SUFFICES ASSUME NEW p \in asking' PROVE StillSo(p)'
    OBVIOUS
  <2>1. PICK q \in asking : p = After(q)
    BY <1>1
  <2>2. StillSo(q)
    BY DEF AdminInv
  <2>3. p.pc = q.pc /\ p.user = q.user /\ p.kind = q.kind /\ (p.overtaken <=> (q.overtaken \/ Staff!Overtakes(r, q)))
    BY <1>2, <2>1
  <2>4. CASE Staff!Removes(r)
    <3>1. Staff!Active' \subseteq Staff!Active
      BY <2>4, WrittenActive
    <3> QED BY <2>2, <2>3, <2>4, <3>1 DEF StillSo, Staff!Overtakes
  <2>5. CASE ~Staff!Removes(r)
    <3>1. Staff!Active \subseteq Staff!Active' /\ Staff!Active' \subseteq Staff!Active \cup {r.user}
      BY <2>5, WrittenActive
    <3> QED BY <2>2, <2>3, <2>5, <3>1 DEF StillSo, Staff!Overtakes
  <2> QED BY <2>4, <2>5
<1>5. Staff!OnlyRacesLockOut'
  <2>1. StillSo(r) /\ r.pc \in {"counted", "writing"} /\ r.overtaken \in BOOLEAN
    BY DEF AdminInv, Staff!TypeOK, Staff!Write
  <2>2. CASE Staff!Removes(r)
    <3>1. r.overtaken \/ Staff!Active \ {r.user} # {}
      BY <2>1, <2>2 DEF StillSo, Staff!Removes
    <3>2. raced' = r.overtaken
      BY <2>2 DEF Staff!Write
    <3>3. Staff!Active' = Staff!Active \ {r.user}
      BY <2>2, WrittenActive
    <3> QED BY <3>1, <3>2, <3>3 DEF Staff!OnlyRacesLockOut
  <2>3. CASE ~Staff!Removes(r)
    BY <2>3, WrittenActive DEF Staff!OnlyRacesLockOut, AdminInv, Staff!Write
  <2> QED BY <2>2, <2>3
<1> QED BY <1>3, <1>4, <1>5 DEF AdminInv

\* An instance starts again and forgets the requests.
LEMMA RestartKeeps ==
  ASSUME Staff!AdministratorsAssumption, AdminInv, NEW seed \in Seeds, Staff!Restart(seed)
  PROVE  AdminInv'
<1>1. accounts \in [Admins -> {"absent", "active", "disabled"}] /\ seed \in Admins
  BY DEF AdminInv, Staff!TypeOK, Staff!AdministratorsAssumption
<1>2. accounts' \in [Admins -> {"absent", "active", "disabled"}] /\ Staff!Active \subseteq Staff!Active'
  BY <1>1 DEF Staff!Restart, Staff!Active
<1>3. asking' = {} /\ raced' = raced /\ requests' = requests /\ restarts' \in 0..MaxRestarts
  BY DEF Staff!Restart, AdminInv, Staff!TypeOK, Staff!AdministratorsAssumption
<1> QED BY <1>2, <1>3 DEF AdminInv, Staff!TypeOK, Staff!OnlyRacesLockOut

\* The accounts as the service starts.
LEMMA InitKeeps == Staff!AdministratorsAssumption /\ Staff!Init => AdminInv
<1> SUFFICES ASSUME Staff!AdministratorsAssumption, Staff!Init PROVE AdminInv
  OBVIOUS
<1>1. accounts \in [Admins -> {"absent", "active", "disabled"}]
  BY DEF Staff!Init
<1>2. 0 \in 0..MaxRequests /\ 0 \in 0..MaxRestarts
  BY DEF Staff!AdministratorsAssumption
<1> QED BY <1>1, <1>2 DEF Staff!AdministratorsAssumption, Staff!Init, AdminInv, Staff!TypeOK,
            Staff!OnlyRacesLockOut, Staff!Active

\* Every step keeps the invariant.
LEMMA StepKeeps == Staff!AdministratorsAssumption /\ AdminInv /\ [Staff!Next]_(Staff!vars) => AdminInv'
<1> SUFFICES ASSUME Staff!AdministratorsAssumption, AdminInv, [Staff!Next]_(Staff!vars) PROVE AdminInv'
  OBVIOUS
<1>1. CASE UNCHANGED Staff!vars
  BY <1>1 DEF Staff!vars, AdminInv, Staff!TypeOK, Staff!OnlyRacesLockOut, Staff!Active, StillSo
<1>2. CASE \E by, who \in Admins, kind \in Staff!Kinds : Staff!Ask(by, who, kind)
  BY <1>2, AskKeeps
<1>3. CASE \E r \in asking : Staff!ReadUser(r) \/ Staff!CountAdmins(r) \/ Staff!Write(r)
  BY <1>3, ReadKeeps, CountKeeps, WriteKeeps
<1>4. CASE \E seed \in Seeds : Staff!Restart(seed)
  BY <1>4, RestartKeeps
<1> QED BY <1>1, <1>2, <1>3, <1>4 DEF Staff!Next

-----------------------------------------------------------------------------
(* The theorem *)

\* An administrator is left, unless the last one was removed by a request that had
\* counted before another removal, or read before an enabling, was written.
THEOREM LockoutsAreRaces ==
  ASSUME Staff!AdministratorsAssumption
  PROVE  Staff!Spec => []Staff!OnlyRacesLockOut /\ []Staff!TypeOK
<1>1. AdminInv => Staff!OnlyRacesLockOut /\ Staff!TypeOK
  BY DEF AdminInv
<1> QED BY <1>1, InitKeeps, StepKeeps, PTL DEF Staff!Spec

-----------------------------------------------------------------------------
(* The tray of references *)

(* What every handler leaves behind: the tray, the URLs and the count are   *)
(* those of the files, of which there are not too many.                     *)
TrayOf(batch) ==
  /\ batch \in Seq(Tray!Files) /\ Len(batch) <= MaxReferences
  /\ files = batch /\ refs = Len(batch)
  /\ tray = [i \in DOMAIN batch |-> [file |-> batch[i], index |-> i]]
  /\ previews = Tray!ToSet(batch) /\ urls = Tray!ToSet(batch)

(* A payload has been made of such files. *)
Made(s) == Len(s.payload.files) <= MaxReferences /\ s.payload.refs = Len(s.payload.files)

TrayInv ==
  /\ TrayOf(files)
  /\ \A s \in sending : Made(s)
  /\ \A f \in fetching : f.image \in Results
  /\ requests \in 0..MaxRequests

\* Images that are edited further become files.
LEMMA ResultsAreFiles == Results \subseteq Tray!Files
BY DEF Tray!Files

\* What a rendering of files leaves behind.
LEMMA RenderTray ==
  ASSUME TrayOf(files), NEW batch \in Seq(Tray!Files), Len(batch) <= MaxReferences, Tray!Keep(batch),
      Tray!Render(batch)
  PROVE  TrayOf(files)'
<1>1. Tray!Revoked = {}
  BY DEF TrayOf, Tray!Revoked
<1>2. urls' = Tray!ToSet(batch)
  BY <1>1 DEF Tray!Render
<1> QED BY <1>2 DEF TrayOf, Tray!Keep, Tray!Render, Tray!ToSet

\* And what is left after all previews were cleared.
LEMMA ClearTray ==
  ASSUME Tray!ReferencesAssumption, TrayOf(files), Tray!ClearThumbPreviews
  PROVE  TrayOf(files)'
<1>1. Tray!Revoked = {} /\ Tray!ToSet(<<>>) = {} /\ DOMAIN <<>> = {} /\ <<>> \in Seq(Tray!Files) /\ Len(<<>>) = 0
  BY DEF TrayOf, Tray!Revoked, Tray!ToSet
<1>2. [i \in DOMAIN <<>> |-> [file |-> (<<>>)[i], index |-> i]] = <<>>
  OBVIOUS
<1>3. 0 <= MaxReferences
  BY DEF Tray!ReferencesAssumption
<1> QED BY <1>1, <1>2, <1>3 DEF TrayOf, Tray!ClearThumbPreviews, Tray!Keep

\* The first of the files, up to the limit.
LEMMA UptoLimit ==
  ASSUME NEW batch \in Seq(Tray!Files), NEW n \in Nat
  PROVE  Tray!Upto(batch, n) \in Seq(Tray!Files) /\ Len(Tray!Upto(batch, n)) <= n
<1> DEFINE last == IF Len(batch) < n THEN Len(batch) ELSE n
<1>1. last \in Nat /\ last <= Len(batch) /\ last <= n
  OBVIOUS
<1>2. SubSeq(batch, 1, last) \in Seq(Tray!Files) /\ Len(SubSeq(batch, 1, last)) = last
  <2> HIDE DEF last
  <2> QED BY <1>1
<1> QED BY <1>1, <1>2 DEF Tray!Upto

\* The files without one of them.
LEMMA RemoveOne ==
  ASSUME NEW batch \in Seq(Tray!Files), NEW i \in 1..Len(batch)
  PROVE  Tray!RemoveAt(batch, i) \in Seq(Tray!Files) /\ Len(Tray!RemoveAt(batch, i)) = Len(batch) - 1
<1>1. SubSeq(batch, 1, i - 1) \in Seq(Tray!Files) /\ Len(SubSeq(batch, 1, i - 1)) = i - 1
  OBVIOUS
<1>2. SubSeq(batch, i + 1, Len(batch)) \in Seq(Tray!Files) /\ Len(SubSeq(batch, i + 1, Len(batch))) = Len(batch) - i
  OBVIOUS
<1> DEFINE before == SubSeq(batch, 1, i - 1)
           after == SubSeq(batch, i + 1, Len(batch))
<1>3. before \in Seq(Tray!Files) /\ Len(before) = i - 1 /\ after \in Seq(Tray!Files) /\ Len(after) = Len(batch) - i
  BY <1>1, <1>2
<1>4. Tray!RemoveAt(batch, i) = before \o after
  BY DEF Tray!RemoveAt
<1> HIDE DEF before, after
<1>5. before \o after \in Seq(Tray!Files) /\ Len(before \o after) = Len(before) + Len(after)
  BY <1>3
<1> QED BY <1>3, <1>4, <1>5

-----------------------------------------------------------------------------
(* The steps *)

\* No files at first.
LEMMA TrayStarts == Tray!ReferencesAssumption /\ Tray!Init => TrayInv
<1> SUFFICES ASSUME Tray!ReferencesAssumption, Tray!Init PROVE TrayInv
  OBVIOUS
<1>1. Tray!ToSet(<<>>) = {} /\ DOMAIN <<>> = {} /\ <<>> \in Seq(Tray!Files) /\ Len(<<>>) = 0
  BY DEF Tray!ToSet
<1>2. [i \in DOMAIN <<>> |-> [file |-> (<<>>)[i], index |-> i]] = <<>>
  OBVIOUS
<1>3. 0 <= MaxReferences /\ 0 \in 0..MaxRequests
  BY DEF Tray!ReferencesAssumption
<1> QED BY <1>1, <1>2, <1>3 DEF TrayInv, TrayOf, Tray!Init

\* Files that are appended are rendered.
LEMMA AppendKeepsTray ==
  ASSUME Tray!ReferencesAssumption, TrayInv, NEW pick \in Picks, Tray!AppendReferenceFiles(pick)
  PROVE  TrayInv'
<1> DEFINE merged == Tray!Upto(files \o pick, MaxReferences)
<1>1. pick \in Seq(Tray!Files) /\ files \in Seq(Tray!Files) /\ MaxReferences \in Nat
  BY DEF Tray!ReferencesAssumption, TrayInv, TrayOf
<1>2. files \o pick \in Seq(Tray!Files)
  BY <1>1
<1>3. merged \in Seq(Tray!Files) /\ Len(merged) <= MaxReferences
  BY <1>1, <1>2, UptoLimit
<1>4. Tray!Keep(merged) /\ Tray!Render(merged)
  BY DEF Tray!AppendReferenceFiles
<1> HIDE DEF merged
<1>5. TrayOf(files)'
  BY <1>3, <1>4, RenderTray DEF TrayInv
<1> QED BY <1>5 DEF TrayInv, Tray!AppendReferenceFiles, Made

\* A file that is deleted by its index.
LEMMA DeleteKeepsTray ==
  ASSUME Tray!ReferencesAssumption, TrayInv, NEW i \in 1..Len(tray), Tray!DeleteReference(i)
  PROVE  TrayInv'
<1> DEFINE left == IF tray[i].index \in DOMAIN files THEN Tray!RemoveAt(files, tray[i].index) ELSE files
<1>1. files \in Seq(Tray!Files) /\ Len(files) <= MaxReferences /\ MaxReferences \in Nat
  BY DEF Tray!ReferencesAssumption, TrayInv, TrayOf
<1>2. left \in Seq(Tray!Files) /\ Len(left) <= MaxReferences
  <2>1. CASE tray[i].index \in DOMAIN files
    <3>1. tray[i].index \in 1..Len(files)
      BY <1>1, <2>1
    <3> QED BY <1>1, <2>1, <3>1, RemoveOne
  <2>2. CASE tray[i].index \notin DOMAIN files
    BY <1>1, <2>2
  <2> QED BY <2>1, <2>2
<1>3. Tray!Keep(left) /\ Tray!Render(left)
  BY DEF Tray!DeleteReference
<1> HIDE DEF left
<1>4. TrayOf(files)'
  BY <1>2, <1>3, RenderTray DEF TrayInv
<1> QED BY <1>4 DEF TrayInv, Tray!DeleteReference, Made

\* Steps that leave the tray alone.
LEMMA TrayStays ==
  ASSUME TrayInv, UNCHANGED Tray!page
  PROVE  TrayOf(files)'
BY DEF TrayInv, TrayOf, Tray!page

\* Every step keeps the invariant.
LEMMA TrayStep == Tray!ReferencesAssumption /\ TrayInv /\ [Tray!Next]_(Tray!vars) => TrayInv'
<1> SUFFICES ASSUME Tray!ReferencesAssumption, TrayInv, [Tray!Next]_(Tray!vars) PROVE TrayInv'
  OBVIOUS
<1> USE DEF TrayInv
<1>1. CASE UNCHANGED Tray!vars
  BY <1>1, TrayStays DEF Tray!vars, Made
<1>2. CASE \E pick \in Picks : Tray!AppendReferenceFiles(pick)
  BY <1>2, AppendKeepsTray
<1>3. CASE \E i \in 1..Len(tray) : Tray!DeleteReference(i)
  BY <1>3, DeleteKeepsTray
<1>4. CASE Tray!ClearReferences
  BY <1>4, ClearTray DEF Tray!ClearReferences, Made
<1>5. CASE Tray!Submit
  <2>1. Made([id |-> requests, payload |-> Tray!Payload])
    BY DEF Made, Tray!Payload, TrayOf
  <2>2. requests' \in 0..MaxRequests
    BY <1>5 DEF Tray!Submit, Tray!ReferencesAssumption
  <2>3. sending' = sending \cup {[id |-> requests, payload |-> Tray!Payload]} /\ UNCHANGED <<Tray!page, fetching>>
    BY <1>5 DEF Tray!Submit
  <2>4. \A s \in sending' : Made(s)'
    BY <2>1, <2>3 DEF Made
  <2> QED BY <2>2, <2>3, <2>4, TrayStays
<1>6. CASE \E s \in sending : Tray!Submitted(s) \/ Tray!SubmissionFails(s)
  <2>1. PICK s \in sending : Tray!Submitted(s) \/ Tray!SubmissionFails(s)
    BY <1>6
  <2>2. CASE Tray!Submitted(s)
    BY <2>2, ClearTray DEF Tray!Submitted, Made
  <2>3. CASE Tray!SubmissionFails(s)
    BY <2>3, TrayStays DEF Tray!SubmissionFails, Made
  <2> QED BY <2>1, <2>2, <2>3
<1>7. CASE \E x \in Results : Tray!ContinueEditing(x)
  <2>1. PICK x \in Results : Tray!ContinueEditing(x)
    BY <1>7
  <2>2. requests' \in 0..MaxRequests
    BY <2>1 DEF Tray!ContinueEditing, Tray!ReferencesAssumption
  <2>3. fetching' = fetching \cup {[id |-> requests, image |-> x]} /\ UNCHANGED <<Tray!page, sending>>
    BY <2>1 DEF Tray!ContinueEditing
  <2> QED BY <2>2, <2>3, TrayStays DEF Made
<1>8. CASE \E f \in fetching : Tray!AddResultAsReference(f) \/ Tray!EditFails(f)
  <2>1. PICK f \in fetching : Tray!AddResultAsReference(f) \/ Tray!EditFails(f)
    BY <1>8
  <2>2. CASE Tray!AddResultAsReference(f)
    <3>1. f.image \in Tray!Files
      <4>1. f.image \in Results
        OBVIOUS
      <4> QED BY <4>1, ResultsAreFiles
    <3>2. <<f.image>> \in Seq(Tray!Files) /\ Len(<<f.image>>) <= MaxReferences
      BY <3>1 DEF Tray!ReferencesAssumption
    <3>3. TrayOf(files)'
      BY <2>2, <3>2, RenderTray DEF Tray!AddResultAsReference
    <3> QED BY <2>2, <3>3 DEF Tray!AddResultAsReference, Made
  <2>3. CASE Tray!EditFails(f)
    BY <2>3, TrayStays DEF Tray!EditFails, Made
  <2> QED BY <2>1, <2>2, <2>3
<1> QED BY <1>1, <1>2, <1>3, <1>4, <1>5, <1>6, <1>7, <1>8 DEF Tray!Next

-----------------------------------------------------------------------------

\* What the invariant says of the tray, the payloads and the URLs.
LEMMA TrayIsTrue == Tray!ReferencesAssumption /\ TrayInv => Tray!TypeOK /\ Tray!TrayShowsFiles /\
    Tray!PayloadCountsFiles /\ Tray!NoUrlLeaks
<1> SUFFICES ASSUME Tray!ReferencesAssumption, TrayInv PROVE Tray!TypeOK /\ Tray!TrayShowsFiles /\
        Tray!PayloadCountsFiles /\ Tray!NoUrlLeaks
  OBVIOUS
<1>1. files \in Seq(Tray!Files) /\ Len(files) <= MaxReferences /\ MaxReferences \in Nat
  BY DEF Tray!ReferencesAssumption, TrayInv, TrayOf
<1>2. tray = [i \in DOMAIN files |-> [file |-> files[i], index |-> i]]
  BY DEF TrayInv, TrayOf
<1>3. DOMAIN files = 1..Len(files) /\ Len(files) \in Nat
  BY <1>1
<1>4. \A i \in 1..Len(files) : tray[i] = [file |-> files[i], index |-> i] /\ tray[i] \in Tray!TrayEntry
  BY <1>1, <1>2, <1>3 DEF Tray!TrayEntry
<1>5. tray \in Seq(Tray!TrayEntry) /\ Len(tray) = Len(files)
  <2>1. tray = [i \in 1..Len(files) |-> tray[i]]
    BY <1>2, <1>3
  <2>2. \A i \in 1..Len(files) : tray[i] \in Tray!TrayEntry
    BY <1>4
  <2> QED BY <1>3, <2>1, <2>2
<1>6. Tray!ToSet(files) \subseteq Tray!Files
  BY <1>1, <1>3 DEF Tray!ToSet
<1>7. Tray!TypeOK
  BY <1>1, <1>5, <1>6 DEF Tray!TypeOK, TrayInv, TrayOf, Made
<1>8. Tray!TrayShowsFiles
  <2>1. DOMAIN tray = DOMAIN files
    BY <1>2
  <2>2. \A i \in DOMAIN tray : tray[i].index = i /\ tray[i].file = files[i]
    BY <1>3, <1>4, <2>1
  <2> QED BY <1>5, <2>1, <2>2 DEF Tray!TrayShowsFiles
<1> QED BY <1>7, <1>8 DEF Tray!PayloadCountsFiles, Tray!NoUrlLeaks, TrayInv, TrayOf, Made

\* However files are picked, deleted, fetched and submitted, the tray shows the files
\* kept and its buttons delete what they show, a payload counts the files it brings,
\* and no object URL is left without a preview.
THEOREM TrayAlwaysTrue ==
  ASSUME Tray!ReferencesAssumption
  PROVE  Tray!Spec => [](Tray!TypeOK /\ Tray!TrayShowsFiles /\ Tray!PayloadCountsFiles /\ Tray!NoUrlLeaks)
BY TrayStarts, TrayStep, TrayIsTrue, PTL DEF Tray!Spec

-----------------------------------------------------------------------------
(* The table of users *)

IsTable(t) == DOMAIN t \subseteq Users /\ \A u \in DOMAIN t : t[u] \in Nat

CallStages == {"sent", "answered", "failed"}
Calls == [kind : {"credit", "warn", "delete", "create"}, user : Users \cup {People!Nobody}, stage : CallStages,
          credits : Nat, id : Nat]
BulkSet == [stage : CallStages \cup {"idle"}, asked : SUBSET Users, todo : SUBSET Users,
            now : Users \cup {People!Nobody}, credits : Nat]

TablesTyped ==
  /\ IsTable(credits) /\ IsTable(users)
  /\ selected \subseteq Users /\ shown.ticks \subseteq shown.rows
  /\ DOMAIN load = {"stage", "answer", "waiters"}
  /\ load.stage = "answered" => IsTable(load.answer)
  /\ configured \in BOOLEAN /\ clicks \in Nat

DrawerTyped ==
  /\ drawer \in [view : People!Views, user : Users \cup {People!Nobody}, email : BOOLEAN]
  /\ IF drawer.view = "closed" THEN drawer = People!Closed ELSE drawer.user \in Users

CallsTyped == net \subseteq Calls /\ \A r \in net : r.kind # "create" => r.user \in Users

(* Who has been given the amount so far: who was asked for and is not to do *)
(* any more, and the user of the call that was answered.                    *)
Given(u) == u \in bulk.asked \ bulk.todo \/ (bulk.stage = "answered" /\ u = bulk.now)

BulkInv ==
  /\ bulk \in BulkSet /\ granted \in [Users -> Nat]
  /\ bulk.todo \subseteq bulk.asked
  /\ IF bulk.stage = "idle" THEN bulk = People!Idle ELSE bulk.now \in bulk.todo
  /\ bulk.stage \in {"sent", "answered"} => \A u \in Users : granted[u] = IF Given(u) THEN 1 ELSE 0

PeopleInv == TablesTyped /\ DrawerTyped /\ CallsTyped /\ BulkInv

\* A user put into a table.
LEMMA UpsertTable ==
  ASSUME NEW t, IsTable(t), NEW u \in Users, NEW c \in Nat
  PROVE  IsTable(People!Upsert(t, u, c))
BY DEF IsTable, People!Upsert

\* A table without some users.
LEMMA WithoutTable ==
  ASSUME NEW t, IsTable(t), NEW gone
  PROVE  IsTable(People!Without(t, gone))
BY DEF IsTable, People!Without, People!Restrict

\* loadAll joins the load under way or starts one.
LEMMA LoadAllTyped ==
  ASSUME TablesTyped, NEW waiters, People!LoadAll(waiters)
  PROVE  /\ DOMAIN load' = {"stage", "answer", "waiters"}
         /\ load'.stage = "answered" => IsTable(load'.answer)
<1>1. CASE load = People!NoLoad
  BY <1>1 DEF People!LoadAll, People!NoLoad
<1>2. CASE load # People!NoLoad
  <2>1. load' = [load EXCEPT !.waiters = load.waiters \cup waiters]
    BY <1>2 DEF People!LoadAll
  <2> QED BY <2>1 DEF TablesTyped
<1> QED BY <1>1, <1>2

\* Steps that leave the bulk adjustment alone.
LEMMA BulkStays ==
  ASSUME BulkInv, UNCHANGED <<bulk, granted>>
  PROVE  BulkInv'
BY DEF BulkInv, Given

\* A drawer about a user.
LEMMA DrawerOpens ==
  ASSUME NEW tab \in People!Views \ {"closed"}, NEW u \in Users, People!OpenDrawer(tab, u)
  PROVE  DrawerTyped'
BY DEF People!OpenDrawer, DrawerTyped, People!Views

\* No drawer.
LEMMA DrawerShuts ==
  ASSUME drawer' = People!Closed
  PROVE  DrawerTyped'
BY DEF DrawerTyped, People!Closed, People!Views

-----------------------------------------------------------------------------
(* The steps *)

\* The page as it is opened.
LEMMA PeopleStart == People!AdminUsersAssumption /\ People!Init => PeopleInv
<1> SUFFICES ASSUME People!Init PROVE PeopleInv
  OBVIOUS
<1>1. TablesTyped
  BY DEF People!Init, TablesTyped, IsTable, People!NoLoad
<1>2. DrawerTyped
  <2>1. CASE drawer = People!Closed
    BY <2>1 DEF DrawerTyped, People!Closed, People!Views
  <2>2. CASE drawer \in [view : {"menu"}, user : Users, email : {FALSE}] \cup [view : {"delete"}, user : Users,
            email : {TRUE}]
    BY <2>2 DEF DrawerTyped, People!Closed, People!Views
  <2> QED BY <2>1, <2>2 DEF People!Init
<1>3. CallsTyped
  BY DEF People!Init, CallsTyped
<1>4. BulkInv
  BY DEF People!Init, BulkInv, People!Idle, BulkSet, CallStages
<1> QED BY <1>1, <1>2, <1>3, <1>4 DEF PeopleInv

\* Whatever others do to the users.
LEMMA OtherKeepsPeople ==
  ASSUME PeopleInv, People!Other
  PROVE  PeopleInv'
<1> USE DEF PeopleInv
<1>1. IsTable(credits')
  <2>1. PICK u \in DOMAIN credits : credits' \in {People!Without(credits, {u}), [credits EXCEPT ![u] = @ + 1]}
    BY DEF People!Other
  <2>2. CASE credits' = People!Without(credits, {u})
    BY <2>2, WithoutTable DEF TablesTyped
  <2>3. CASE credits' = [credits EXCEPT ![u] = @ + 1]
    BY <2>1, <2>3 DEF TablesTyped, IsTable
  <2> QED BY <2>1, <2>2, <2>3
<1>2. TablesTyped'
  BY <1>1 DEF People!Other, TablesTyped, IsTable
<1>3. DrawerTyped' /\ CallsTyped'
  BY DEF People!Other, DrawerTyped, CallsTyped
<1> QED BY <1>2, <1>3, BulkStays DEF People!Other

\* The call of the bulk adjustment that is under way gives its user the amount.
LEMMA ServeBulkKeepsPeople ==
  ASSUME PeopleInv, People!ServeBulk
  PROVE  PeopleInv'
<1> USE DEF PeopleInv
<1>1. DrawerTyped' /\ CallsTyped'
  BY DEF People!ServeBulk, DrawerTyped, CallsTyped
<1>2. bulk \in BulkSet /\ bulk.stage = "sent" /\ bulk.now \in bulk.todo /\ bulk.todo \subseteq bulk.asked /\
          bulk.now \in Users
  BY DEF People!ServeBulk, BulkInv, BulkSet
<1>3. CASE bulk.now \in DOMAIN credits
  <2>1. /\ credits' = [credits EXCEPT ![bulk.now] = @ + 1]
        /\ granted' = [granted EXCEPT ![bulk.now] = @ + 1]
        /\ bulk' = [bulk EXCEPT !.stage = "answered", !.credits = credits'[bulk.now]]
    BY <1>3 DEF People!ServeBulk
  <2>2. IsTable(credits') /\ credits'[bulk.now] \in Nat
    BY <1>3, <2>1 DEF TablesTyped, IsTable
  <2>3. TablesTyped'
    BY <2>2 DEF People!ServeBulk, TablesTyped, IsTable, People!bounds
  <2>4. /\ bulk' \in BulkSet /\ bulk'.stage = "answered" /\ bulk'.now = bulk.now
        /\ bulk'.todo = bulk.todo /\ bulk'.asked = bulk.asked
    BY <1>2, <2>1, <2>2 DEF BulkSet, CallStages
  <2>5. \A u \in Users : granted'[u] = IF Given(u)' THEN 1 ELSE 0
    <3> SUFFICES ASSUME NEW u \in Users PROVE granted'[u] = IF Given(u)' THEN 1 ELSE 0
      OBVIOUS
    <3>1. granted \in [Users -> Nat] /\ granted[u] = IF Given(u) THEN 1 ELSE 0
      BY <1>2 DEF BulkInv
    <3>2. CASE u = bulk.now
      <4>1. ~Given(u) /\ Given(u)'
        BY <1>2, <2>4, <3>2 DEF Given
      <4> QED BY <2>1, <3>1, <3>2, <4>1
    <3>3. CASE u # bulk.now
      <4>1. Given(u)' <=> Given(u)
        BY <1>2, <2>4, <3>3 DEF Given
      <4> QED BY <1>2, <2>1, <3>1, <3>3, <4>1
    <3> QED BY <3>2, <3>3
  <2>6. granted' \in [Users -> Nat]
    BY <1>2, <2>1 DEF BulkInv
  <2>7. BulkInv'
    BY <1>2, <2>4, <2>5, <2>6 DEF BulkInv
  <2> QED BY <1>1, <2>3, <2>7
<1>4. CASE bulk.now \notin DOMAIN credits
  <2>1. bulk' = [bulk EXCEPT !.stage = "failed"] /\ UNCHANGED <<credits, granted>>
    BY <1>4 DEF People!ServeBulk
  <2>2. TablesTyped'
    BY <2>1 DEF People!ServeBulk, TablesTyped, IsTable, People!bounds
  <2>3. /\ bulk' \in BulkSet /\ bulk'.stage = "failed" /\ bulk'.now = bulk.now
        /\ bulk'.todo = bulk.todo /\ bulk'.asked = bulk.asked
    BY <1>2, <2>1 DEF BulkSet, CallStages
  <2>4. BulkInv'
    BY <1>2, <2>1, <2>3 DEF BulkInv
  <2> QED BY <1>1, <2>2, <2>4
<1> QED BY <1>3, <1>4

\* A call of the drawer is served.
LEMMA ServeKeepsPeople ==
  ASSUME PeopleInv, NEW r \in net, People!Serve(r)
  PROVE  PeopleInv'
<1> USE DEF PeopleInv
<1>1. r \in Calls /\ r.user \in Users /\ r.kind \in {"credit", "warn", "delete"}
  BY DEF People!Serve, CallsTyped, Calls
<1>2. DrawerTyped' /\ BulkInv'
  BY BulkStays DEF People!Serve, DrawerTyped
<1>3. CASE r.user \in DOMAIN credits
  <2> DEFINE c == IF r.kind = "delete" THEN 0 ELSE credits'[r.user]
  <2>1. credits' = CASE r.kind = "credit" -> [credits EXCEPT ![r.user] = @ + 1]
                     [] r.kind = "delete" -> People!Without(credits, {r.user})
                     [] OTHER -> credits
    BY <1>3 DEF People!Serve
  <2>2. net' = (net \ {r}) \cup {[r EXCEPT !.stage = "answered", !.credits = c]}
    BY <1>3 DEF People!Serve
  <2>3. IsTable(credits') /\ c \in Nat
    <3>1. CASE r.kind = "credit"
      <4>1. credits' = [credits EXCEPT ![r.user] = @ + 1]
        BY <2>1, <3>1
      <4> QED BY <1>3, <3>1, <4>1 DEF TablesTyped, IsTable
    <3>2. CASE r.kind = "delete"
      <4>1. credits' = People!Without(credits, {r.user})
        BY <2>1, <3>2
      <4> QED BY <3>2, <4>1, WithoutTable DEF TablesTyped
    <3>3. CASE r.kind = "warn"
      <4>1. credits' = credits
        BY <2>1, <3>3
      <4> QED BY <1>3, <3>3, <4>1 DEF TablesTyped, IsTable
    <3> QED BY <1>1, <3>1, <3>2, <3>3
  <2> HIDE DEF c
  <2>4. TablesTyped'
    BY <2>3 DEF People!Serve, TablesTyped, IsTable, People!bounds
  <2> DEFINE s == [r EXCEPT !.stage = "answered", !.credits = c]
  <2>5. s \in Calls /\ s.user \in Users
    BY <1>1, <2>3 DEF Calls, CallStages
  <2> HIDE DEF s
  <2>6. CallsTyped'
    BY <2>2, <2>5 DEF CallsTyped, s
  <2> QED BY <1>2, <2>4, <2>6
<1>4. CASE r.user \notin DOMAIN credits
  <2> DEFINE s == [r EXCEPT !.stage = "failed"]
  <2>1. net' = (net \ {r}) \cup {s} /\ credits' = credits
    BY <1>4 DEF People!Serve
  <2>2. s \in Calls /\ s.user \in Users
    BY <1>1 DEF Calls, CallStages
  <2> HIDE DEF s
  <2>3. CallsTyped'
    BY <2>1, <2>2 DEF CallsTyped
  <2>4. TablesTyped'
    BY <2>1 DEF People!Serve, TablesTyped, IsTable, People!bounds
  <2> QED BY <1>2, <2>3, <2>4
<1> QED BY <1>3, <1>4

\* A user is created.
LEMMA ServeCreateKeepsPeople ==
  ASSUME PeopleInv, NEW r \in net, People!ServeCreate(r)
  PROVE  PeopleInv'
<1> USE DEF PeopleInv
<1>1. DrawerTyped' /\ BulkInv'
  BY BulkStays DEF People!ServeCreate, DrawerTyped
<1>2. IsTable(credits')
  <2>1. PICK u \in Users \ DOMAIN credits : credits' = People!Upsert(credits, u, 0)
    BY DEF People!ServeCreate
  <2> QED BY <2>1, UpsertTable DEF TablesTyped
<1>3. TablesTyped'
  BY <1>2 DEF People!ServeCreate, TablesTyped, IsTable, People!bounds
<1> DEFINE s == [r EXCEPT !.stage = "answered"]
<1>4. s \in Calls /\ s.kind = r.kind /\ s.user = r.user
  BY DEF CallsTyped, Calls, CallStages
<1>5. net' = (net \ {r}) \cup {s}
  BY DEF People!ServeCreate
<1> HIDE DEF s
<1>6. CallsTyped'
  BY <1>4, <1>5 DEF CallsTyped
<1> QED BY <1>1, <1>3, <1>6

\* The load is served.
LEMMA ServeLoadKeepsPeople ==
  ASSUME PeopleInv, People!ServeLoad
  PROVE  PeopleInv'
<1> USE DEF PeopleInv
<1>1. DrawerTyped' /\ CallsTyped' /\ BulkInv'
  BY BulkStays DEF People!ServeLoad, DrawerTyped, CallsTyped
<1>2. DOMAIN load' = {"stage", "answer", "waiters"} /\ load'.answer = credits
  BY DEF People!ServeLoad, TablesTyped
<1>3. TablesTyped'
  BY <1>2 DEF People!ServeLoad, TablesTyped, IsTable, People!bounds
<1> QED BY <1>1, <1>3

\* A call or a load fails.
LEMMA LoseKeepsPeople ==
  ASSUME PeopleInv, People!Lose
  PROVE  PeopleInv'
<1> USE DEF PeopleInv
<1>1. DrawerTyped'
  BY DEF People!Lose, DrawerTyped
<1>2. CASE bulk.stage \in {"sent", "answered"} /\ bulk' = [bulk EXCEPT !.stage = "failed"] /\ UNCHANGED <<net, load>>
  <2>1. TablesTyped' /\ CallsTyped'
    BY <1>2 DEF People!Lose, TablesTyped, IsTable, CallsTyped
  <2>2. /\ bulk' \in BulkSet /\ bulk'.stage = "failed" /\ bulk'.now = bulk.now
        /\ bulk'.todo = bulk.todo /\ bulk'.asked = bulk.asked
    BY <1>2 DEF BulkInv, BulkSet, CallStages
  <2>3. bulk.now \in bulk.todo /\ granted' = granted
    BY <1>2 DEF BulkInv, People!Lose
  <2>4. BulkInv'
    BY <2>2, <2>3 DEF BulkInv
  <2> QED BY <1>1, <2>1, <2>4
<1>3. CASE load' = [load EXCEPT !.stage = "failed"] /\ UNCHANGED <<bulk, net>>
  <2>1. DOMAIN load' = {"stage", "answer", "waiters"} /\ load'.stage = "failed"
    BY <1>3 DEF TablesTyped
  <2>2. TablesTyped' /\ CallsTyped'
    BY <1>3, <2>1 DEF People!Lose, TablesTyped, IsTable, CallsTyped
  <2> QED BY <1>1, <1>3, <2>2, BulkStays DEF People!Lose
<1>4. CASE (\E r \in net : net' = (net \ {r}) \cup {[r EXCEPT !.stage = "failed"]}) /\ UNCHANGED <<bulk, load>>
  <2>1. PICK r \in net : net' = (net \ {r}) \cup {[r EXCEPT !.stage = "failed"]}
    BY <1>4
  <2> DEFINE s == [r EXCEPT !.stage = "failed"]
  <2>2. s \in Calls /\ s.kind = r.kind /\ s.user = r.user
    BY DEF CallsTyped, Calls, CallStages
  <2>3. net' = (net \ {r}) \cup {s}
    BY <2>1
  <2> HIDE DEF s
  <2>4. CallsTyped'
    BY <2>2, <2>3 DEF CallsTyped
  <2>5. TablesTyped'
    BY <1>4 DEF People!Lose, TablesTyped, IsTable
  <2> QED BY <1>1, <1>4, <2>4, <2>5, BulkStays DEF People!Lose
<1> QED BY <1>2, <1>3, <1>4 DEF People!Lose

\* The next user of the bulk adjustment, or its end.
LEMMA DeliverBulkKeepsPeople ==
  ASSUME PeopleInv, People!DeliverBulk
  PROVE  PeopleInv'
<1> USE DEF PeopleInv
<1>1. DrawerTyped' /\ CallsTyped'
  BY DEF People!DeliverBulk, DrawerTyped, CallsTyped
<1>2. /\ bulk \in BulkSet /\ bulk.stage = "answered" /\ bulk.now \in bulk.todo
      /\ bulk.todo \subseteq bulk.asked /\ bulk.now \in Users /\ bulk.credits \in Nat
  BY DEF People!DeliverBulk, BulkInv, BulkSet
<1> DEFINE us == People!Upsert(users, bulk.now, bulk.credits)
<1>3. IsTable(us) /\ users' = us
  BY <1>2, UpsertTable DEF TablesTyped, People!DeliverBulk
<1> HIDE DEF us
<1>4. CASE People!BulkLeft # {}
  <2>1. PICK u \in People!BulkLeft : bulk' = [bulk EXCEPT !.stage = "sent", !.todo = People!BulkLeft, !.now = u]
    BY <1>4 DEF People!DeliverBulk
  <2>2. UNCHANGED <<selected, shown>>
    BY <1>4 DEF People!DeliverBulk
  <2>3. TablesTyped'
    BY <1>3, <2>2 DEF People!DeliverBulk, TablesTyped, IsTable, People!bounds
  <2>4. People!BulkLeft \subseteq bulk.todo /\ People!BulkLeft \in SUBSET Users /\ u \in Users
    BY <1>2 DEF People!BulkLeft, BulkSet
  <2>5. /\ bulk' \in BulkSet /\ bulk'.stage = "sent" /\ bulk'.now = u
        /\ bulk'.todo = People!BulkLeft /\ bulk'.asked = bulk.asked
    BY <1>2, <2>1, <2>4 DEF BulkSet, CallStages
  <2>6. \A v \in Users : Given(v)' <=> Given(v)
    BY <1>2, <2>4, <2>5 DEF Given, People!BulkLeft
  <2>7. granted' = granted /\ granted \in [Users -> Nat] /\ \A v \in Users : granted[v] = IF Given(v) THEN 1 ELSE 0
    BY <1>2 DEF People!DeliverBulk, BulkInv
  <2>8. BulkInv'
    BY <1>2, <2>4, <2>5, <2>6, <2>7 DEF BulkInv
  <2> QED BY <1>1, <2>3, <2>8
<1>5. CASE People!BulkLeft = {}
  <2>1. bulk' = People!Idle /\ People!Render(us, selected \cap DOMAIN us) /\ selected' = {}
    BY <1>5 DEF People!DeliverBulk, us
  <2>2. shown'.ticks \subseteq shown'.rows
    BY <2>1 DEF People!Render
  <2>3. TablesTyped'
    BY <1>3, <2>1, <2>2 DEF People!DeliverBulk, TablesTyped, IsTable, People!bounds
  <2>4. BulkInv'
    BY <2>1 DEF People!DeliverBulk, BulkInv, People!Idle, BulkSet, CallStages
  <2> QED BY <1>1, <2>3, <2>4
<1> QED BY <1>4, <1>5

\* A call of the bulk adjustment fails, and the rest is not tried.
LEMMA BulkFailsKeepsPeople ==
  ASSUME PeopleInv, People!BulkFails
  PROVE  PeopleInv'
<1> USE DEF PeopleInv
<1>1. TablesTyped' /\ DrawerTyped' /\ CallsTyped'
  BY DEF People!BulkFails, People!Page, TablesTyped, IsTable, DrawerTyped, CallsTyped, People!bounds
<1>2. BulkInv'
  BY DEF People!BulkFails, BulkInv, People!Idle, BulkSet, CallStages
<1> QED BY <1>1, <1>2

\* What a rendering of a table leaves behind.
LEMMA RerenderTyped ==
  ASSUME NEW us, IsTable(us), NEW sel, sel \subseteq Users, People!Rerender(us, sel)
  PROVE  IsTable(users') /\ selected' \subseteq Users /\ shown'.ticks \subseteq shown'.rows
BY DEF People!Rerender, People!Render, IsTable

\* Whatever answer arrives.
LEMMA DeliverKeepsPeople ==
  ASSUME PeopleInv, NEW r \in net, People!Deliver(r)
  PROVE  PeopleInv'
<1> USE DEF PeopleInv
<1>1. CallsTyped' /\ BulkInv'
  BY BulkStays DEF People!Deliver, CallsTyped
<1>2. r \in Calls /\ (r.kind # "create" => r.user \in Users) /\ r.credits \in Nat
  BY DEF CallsTyped, Calls
<1>3. UNCHANGED <<credits, configured, clicks>>
  BY DEF People!Deliver, People!bounds
<1>4. CASE People!DeliverCredit(r)
  <2>1. IsTable(People!Upsert(users, r.user, r.credits))
    BY <1>2, <1>4, UpsertTable DEF People!DeliverCredit, TablesTyped
  <2>2. IsTable(users') /\ selected' \subseteq Users /\ shown'.ticks \subseteq shown'.rows
    BY <1>4, <2>1, RerenderTyped DEF People!DeliverCredit, TablesTyped
  <2>3. TablesTyped'
    BY <1>3, <1>4, <2>2 DEF People!DeliverCredit, TablesTyped, IsTable
  <2> QED BY <1>1, <1>4, <2>3, DrawerShuts DEF People!DeliverCredit
<1>5. CASE People!DeliverWarning(r)
  <2>1. IsTable(People!Upsert(users, r.user, r.credits)) /\ r.user \in Users
    BY <1>2, <1>5, UpsertTable DEF People!DeliverWarning, TablesTyped
  <2>2. IsTable(users') /\ selected' \subseteq Users /\ shown'.ticks \subseteq shown'.rows
    BY <1>5, <2>1, RerenderTyped DEF People!DeliverWarning, TablesTyped
  <2>3. TablesTyped'
    BY <1>3, <1>5, <2>2 DEF People!DeliverWarning, TablesTyped, IsTable
  <2>4. "detail" \in People!Views \ {"closed"}
    BY DEF People!Views
  <2>5. DrawerTyped'
    BY <1>5, <2>1, <2>4, DrawerOpens DEF People!DeliverWarning
  <2> QED BY <1>1, <2>3, <2>5
<1>6. CASE People!DeliverDelete(r)
  <2>1. IsTable(users')
    BY <1>6, WithoutTable DEF People!DeliverDelete, TablesTyped
  <2>2. /\ DOMAIN load' = {"stage", "answer", "waiters"}
        /\ load'.stage = "answered" => IsTable(load'.answer)
    BY <1>6, LoadAllTyped DEF People!DeliverDelete
  <2>3. TablesTyped'
    BY <1>3, <1>6, <2>1, <2>2 DEF People!DeliverDelete, TablesTyped, IsTable
  <2>4. DrawerTyped'
    BY <1>6 DEF People!DeliverDelete, DrawerTyped
  <2> QED BY <1>1, <2>3, <2>4
<1>7. CASE People!DeliverCreate(r)
  <2>1. /\ DOMAIN load' = {"stage", "answer", "waiters"}
        /\ load'.stage = "answered" => IsTable(load'.answer)
    BY <1>7, LoadAllTyped DEF People!DeliverCreate
  <2>2. TablesTyped'
    BY <1>3, <1>7, <2>1 DEF People!DeliverCreate, People!Page, TablesTyped, IsTable
  <2>3. DrawerTyped'
    BY <1>7 DEF People!DeliverCreate, DrawerTyped
  <2> QED BY <1>1, <2>2, <2>3
<1>8. CASE UNCHANGED <<People!Page, drawer, load>>
  BY <1>1, <1>3, <1>8 DEF People!Page, TablesTyped, IsTable, DrawerTyped
<1> QED BY <1>4, <1>5, <1>6, <1>7, <1>8 DEF People!Deliver

\* The load has ended, for all who wait for it.
LEMMA LoadEndsKeepsPeople ==
  ASSUME PeopleInv, NEW us, IsTable(us), People!LoadEnds(us), configured' \in BOOLEAN
  PROVE  PeopleInv'
<1> USE DEF PeopleInv
<1>1. CallsTyped' /\ BulkInv'
  BY BulkStays DEF People!LoadEnds, CallsTyped
<1>2. IsTable(users') /\ selected' \subseteq Users /\ shown'.ticks \subseteq shown'.rows
  BY RerenderTyped DEF People!LoadEnds, TablesTyped
<1>3. TablesTyped'
  BY <1>2 DEF People!LoadEnds, TablesTyped, IsTable, People!NoLoad, People!bounds
<1>4. DrawerTyped'
  BY DEF People!LoadEnds, DrawerTyped, People!Closed, People!Views
<1> QED BY <1>1, <1>3, <1>4

\* The load, or the configuration before it, arrives or fails.
LEMMA LoadKeepsPeople ==
  ASSUME PeopleInv, People!LoadArrives \/ People!ConfigArrives \/ People!LoadFails
  PROVE  PeopleInv'
<1> USE DEF PeopleInv
<1>1. CASE People!LoadArrives
  <2>1. IsTable(load.answer)
    BY <1>1 DEF People!LoadArrives, TablesTyped
  <2>2. CASE configured
    <3>1. People!LoadEnds(load.answer) /\ configured' \in BOOLEAN
      BY <1>1, <2>2 DEF People!LoadArrives, TablesTyped
    <3> QED BY <2>1, <3>1, LoadEndsKeepsPeople
  <2>3. CASE ~configured
    <3>1. /\ users' = load.answer /\ load' = [load EXCEPT !.stage = "config"]
          /\ UNCHANGED <<credits, selected, shown, drawer, bulk, granted, net, configured, People!bounds>>
      BY <1>1, <2>3 DEF People!LoadArrives
    <3>2. DOMAIN load' = {"stage", "answer", "waiters"} /\ load'.stage = "config"
      BY <3>1 DEF TablesTyped
    <3>3. TablesTyped' /\ DrawerTyped' /\ CallsTyped'
      BY <2>1, <3>1, <3>2 DEF TablesTyped, IsTable, DrawerTyped, CallsTyped, People!bounds
    <3> QED BY <3>1, <3>3, BulkStays
  <2> QED BY <2>2, <2>3
<1>2. CASE People!ConfigArrives
  <2>1. IsTable(users) /\ configured' \in BOOLEAN /\ People!LoadEnds(users)
    BY <1>2 DEF People!ConfigArrives, TablesTyped
  <2> QED BY <2>1, LoadEndsKeepsPeople
<1>3. CASE People!LoadFails
  <2>1. CallsTyped' /\ BulkInv'
    BY <1>3, BulkStays DEF People!LoadFails, CallsTyped
  <2>2. IsTable(users') /\ selected' \subseteq Users /\ shown'.ticks \subseteq shown'.rows /\ DrawerTyped'
    <3>1. CASE "delete" \in load.waiters
      <4>1. People!Rerender(users, selected) /\ drawer' = People!Closed
        BY <1>3, <3>1 DEF People!LoadFails
      <4> QED BY <4>1, RerenderTyped, DrawerShuts DEF TablesTyped
    <3>2. CASE "delete" \notin load.waiters
      BY <1>3, <3>2 DEF People!LoadFails, People!Page, TablesTyped, IsTable, DrawerTyped
    <3> QED BY <3>1, <3>2
  <2>3. TablesTyped'
    BY <1>3, <2>2 DEF People!LoadFails, TablesTyped, IsTable, People!NoLoad, People!bounds
  <2> QED BY <2>1, <2>2, <2>3
<1> QED BY <1>1, <1>2, <1>3

-----------------------------------------------------------------------------
(* The administrator *)

\* A tick is set.
LEMMA SelectionKeepsPeople ==
  ASSUME PeopleInv, NEW sel, sel \subseteq Users, NEW shows, People!Click,
         selected' = sel, People!Render(users, shows), UNCHANGED <<users, drawer, bulk, granted, net, load>>
  PROVE  PeopleInv'
<1> USE DEF PeopleInv
<1>1. TablesTyped' /\ DrawerTyped' /\ CallsTyped'
  BY DEF People!Click, People!Render, TablesTyped, IsTable, DrawerTyped, CallsTyped
<1> QED BY <1>1, BulkStays

\* The drawer is opened or closed.
LEMMA DrawerKeepsPeople ==
  ASSUME PeopleInv, People!Click, DrawerTyped', UNCHANGED <<People!Page, bulk, granted, net, load>>
  PROVE  PeopleInv'
<1> USE DEF PeopleInv
<1>1. TablesTyped' /\ CallsTyped'
  BY DEF People!Click, People!Page, TablesTyped, IsTable, CallsTyped
<1> QED BY <1>1, BulkStays

\* A call is sent from the drawer.
LEMMA NewCallKeepsPeople ==
  ASSUME PeopleInv, People!Click, NEW kind \in {"credit", "warn", "delete", "create"},
      NEW who \in Users \cup {People!Nobody},
         kind # "create" => who \in Users,
         net' = net \cup {[kind |-> kind, user |-> who, stage |-> "sent", credits |-> 0, id |-> clicks]},
         UNCHANGED <<People!Page, drawer, bulk, granted, load>>
  PROVE  PeopleInv'
<1> USE DEF PeopleInv
<1> DEFINE s == [kind |-> kind, user |-> who, stage |-> "sent", credits |-> 0, id |-> clicks]
<1>1. s \in Calls /\ s.kind = kind /\ s.user = who
  BY DEF Calls, CallStages, TablesTyped
<1>2. net' = net \cup {s}
  OBVIOUS
<1> HIDE DEF s
<1>3. CallsTyped'
  BY <1>1, <1>2 DEF CallsTyped
<1>4. TablesTyped' /\ DrawerTyped'
  BY DEF People!Click, People!Page, TablesTyped, IsTable, DrawerTyped
<1> QED BY <1>3, <1>4, BulkStays

\* A new bulk adjustment has given nobody anything.
LEMMA BulkCreditKeepsPeople ==
  ASSUME PeopleInv, People!BulkCredit
  PROVE  PeopleInv'
<1> USE DEF PeopleInv
<1>1. TablesTyped' /\ DrawerTyped' /\ CallsTyped'
  BY DEF People!BulkCredit, People!Click, People!Page, TablesTyped, IsTable, DrawerTyped, CallsTyped
<1>2. PICK u \in selected :
        bulk' = [People!Idle EXCEPT !.stage = "sent", !.asked = selected, !.todo = selected, !.now = u]
  BY DEF People!BulkCredit
<1>3. selected \in SUBSET Users
  BY DEF TablesTyped
<1>4. /\ bulk' \in BulkSet /\ bulk'.stage = "sent" /\ bulk'.now = u
      /\ bulk'.todo = selected /\ bulk'.asked = selected
  BY <1>2, <1>3 DEF People!Idle, BulkSet, CallStages
<1>5. granted' = [v \in Users |-> 0]
  BY DEF People!BulkCredit
<1>6. \A v \in Users : ~Given(v)'
  BY <1>4 DEF Given
<1>7. BulkInv'
  BY <1>4, <1>5, <1>6 DEF BulkInv
<1> QED BY <1>1, <1>7

\* Whatever the administrator does.
LEMMA ClicksKeepPeople ==
  ASSUME PeopleInv,
         \/ \E u \in Users : People!Tick(u) \/ People!Menu(u)
         \/ \E some \in SUBSET Users, checked \in BOOLEAN : People!SelectAll(some, checked)
         \/ People!ClearSelection \/ People!BulkCredit \/ People!CloseDrawer \/ People!TypeEmail
         \/ \E tab \in {"detail", "warning", "delete"} : People!DrawerAction(tab)
         \/ People!AdjustCredits \/ People!WarnUser \/ People!DeleteUser \/ People!CreateUser \/ People!Refresh
  PROVE  PeopleInv'
<1> USE DEF PeopleInv
<1>1. CASE \E u \in Users : People!Tick(u)
  <2>1. PICK u \in Users : People!Tick(u)
    BY <1>1
  <2>2. selected' \subseteq Users
    BY <2>1 DEF People!Tick, TablesTyped
  <2> QED BY <2>1, <2>2, SelectionKeepsPeople DEF People!Tick
<1>2. CASE \E u \in Users : People!Menu(u)
  <2>1. PICK u \in Users : People!Menu(u)
    BY <1>2
  <2>2. "menu" \in People!Views \ {"closed"}
    BY DEF People!Views
  <2>3. DrawerTyped'
    BY <2>1, <2>2, DrawerOpens DEF People!Menu
  <2> QED BY <2>1, <2>3, DrawerKeepsPeople DEF People!Menu
<1>3. CASE \E some \in SUBSET Users, checked \in BOOLEAN : People!SelectAll(some, checked)
  <2>1. PICK some \in SUBSET Users, checked \in BOOLEAN : People!SelectAll(some, checked)
    BY <1>3
  <2>2. selected' \subseteq Users
    BY <2>1 DEF People!SelectAll, TablesTyped
  <2> QED BY <2>1, <2>2, SelectionKeepsPeople DEF People!SelectAll
<1>4. CASE People!ClearSelection
  BY <1>4, SelectionKeepsPeople DEF People!ClearSelection
<1>5. CASE People!BulkCredit
  BY <1>5, BulkCreditKeepsPeople
<1>6. CASE People!CloseDrawer
  <2>1. DrawerTyped'
    BY <1>6, DrawerShuts DEF People!CloseDrawer
  <2> QED BY <1>6, <2>1, DrawerKeepsPeople DEF People!CloseDrawer
<1>7. CASE People!TypeEmail
  <2>1. drawer' = [drawer EXCEPT !.email = ~@] /\ drawer.view = "delete"
    BY <1>7 DEF People!TypeEmail
  <2>2. DrawerTyped'
    BY <2>1 DEF DrawerTyped, People!Views
  <2> QED BY <1>7, <2>2, DrawerKeepsPeople DEF People!TypeEmail
<1>8. CASE \E tab \in {"detail", "warning", "delete"} : People!DrawerAction(tab)
  <2>1. PICK tab \in {"detail", "warning", "delete"} : People!DrawerAction(tab)
    BY <1>8
  <2>2. tab \in People!Views \ {"closed"}
    BY DEF People!Views
  <2>3. drawer.user \in Users
    BY <2>1 DEF People!DrawerAction, TablesTyped, IsTable
  <2>4. DrawerTyped'
    BY <2>1, <2>2, <2>3, DrawerOpens DEF People!DrawerAction
  <2> QED BY <2>1, <2>4, DrawerKeepsPeople DEF People!DrawerAction
<1>9. CASE People!AdjustCredits \/ People!WarnUser \/ People!DeleteUser
  <2>1. drawer.user \in Users
    BY <1>9 DEF People!AdjustCredits, People!WarnUser, People!DeleteUser, DrawerTyped
  <2>2. \E kind \in {"credit", "warn", "delete"} : People!Ask(kind)
    BY <1>9 DEF People!AdjustCredits, People!WarnUser, People!DeleteUser
  <2> QED BY <2>1, <2>2, NewCallKeepsPeople DEF People!Ask
<1>10. CASE People!CreateUser
  BY <1>10, NewCallKeepsPeople DEF People!CreateUser
<1>11. CASE People!Refresh
  <2>1. /\ DOMAIN load' = {"stage", "answer", "waiters"}
        /\ load'.stage = "answered" => IsTable(load'.answer)
    BY <1>11, LoadAllTyped DEF People!Refresh
  <2>2. TablesTyped' /\ DrawerTyped' /\ CallsTyped'
    BY <1>11, <2>1 DEF People!Refresh, People!Click, People!Page, TablesTyped, IsTable, DrawerTyped, CallsTyped
  <2> QED BY <1>11, <2>2, BulkStays DEF People!Refresh
<1> QED BY <1>1, <1>2, <1>3, <1>4, <1>5, <1>6, <1>7, <1>8, <1>9, <1>10, <1>11

\* Every step keeps the invariant.
LEMMA PeopleStep == PeopleInv /\ [People!Next]_(People!vars) => PeopleInv'
<1> SUFFICES ASSUME PeopleInv, [People!Next]_(People!vars) PROVE PeopleInv'
  OBVIOUS
<1>1. CASE UNCHANGED People!vars
  <2>1. TablesTyped' /\ DrawerTyped' /\ CallsTyped'
    BY <1>1 DEF People!vars, People!bounds, PeopleInv, TablesTyped, IsTable, DrawerTyped, CallsTyped
  <2> QED BY <1>1, <2>1, BulkStays DEF PeopleInv, People!vars
<1>2. CASE People!Other \/ People!ServeBulk \/ People!ServeLoad \/ People!Lose
  BY <1>2, OtherKeepsPeople, ServeBulkKeepsPeople, ServeLoadKeepsPeople, LoseKeepsPeople
<1>3. CASE \E r \in net : People!Serve(r) \/ People!ServeCreate(r) \/ People!Deliver(r)
  BY <1>3, ServeKeepsPeople, ServeCreateKeepsPeople, DeliverKeepsPeople
<1>4. CASE People!DeliverBulk \/ People!BulkFails
  BY <1>4, DeliverBulkKeepsPeople, BulkFailsKeepsPeople
<1>5. CASE People!LoadArrives \/ People!ConfigArrives \/ People!LoadFails
  BY <1>5, LoadKeepsPeople
<1> QED BY <1>1, <1>2, <1>3, <1>4, <1>5, ClicksKeepPeople DEF People!Next

-----------------------------------------------------------------------------

\* What the invariant says of the types.
LEMMA PeopleTyped == PeopleInv => People!TypeOK
<1> SUFFICES ASSUME PeopleInv PROVE People!TypeOK
  OBVIOUS
<1>1. bulk.todo \subseteq bulk.asked /\ (bulk # People!Idle => bulk.now \in bulk.todo)
  BY DEF PeopleInv, BulkInv
<1>2. drawer.view \in People!Views /\ (drawer.view = "closed" <=> drawer = People!Closed)
  BY DEF PeopleInv, DrawerTyped, People!Closed
<1> QED BY <1>1, <1>2 DEF PeopleInv, TablesTyped, IsTable, People!TypeOK

\* The last answer of a bulk adjustment finds that everybody has been given the amount.
LEMMA BulkEnds ==
  ASSUME PeopleInv
  PROVE  People!GivesOnce
<1> SUFFICES ASSUME People!DeliverBulk, bulk' = People!Idle, NEW u \in Users
             PROVE  granted[u] = IF u \in bulk.asked THEN 1 ELSE 0
  BY DEF People!GivesOnce
<1>1. BulkInv /\ bulk.stage = "answered" /\ bulk \in BulkSet
  BY DEF PeopleInv, BulkInv, People!DeliverBulk
<1>2. People!BulkLeft = {}
  <2> SUFFICES ASSUME People!BulkLeft # {} PROVE FALSE
    OBVIOUS
  <2>1. PICK v \in People!BulkLeft : bulk' = [bulk EXCEPT !.stage = "sent", !.todo = People!BulkLeft, !.now = v]
    BY DEF People!DeliverBulk
  <2>2. bulk'.stage = "sent"
    BY <1>1, <2>1 DEF BulkSet
  <2> QED BY <2>2 DEF People!Idle
<1>3. Given(u) <=> u \in bulk.asked
  BY <1>1, <1>2 DEF BulkInv, Given, People!BulkLeft
<1> QED BY <1>1, <1>3 DEF BulkInv

\* A bulk adjustment that ends well has given each user that was selected as it began
\* its amount once, and nobody else, whatever is ticked, loaded or deleted meanwhile.
THEOREM BulkAlwaysExact ==
  ASSUME People!AdminUsersAssumption
  PROVE  People!Spec => People!BulkIsExact /\ []People!TypeOK
<1>1. PeopleInv /\ [People!Next]_(People!vars) => [People!GivesOnce]_(People!vars)
  BY BulkEnds
<1> QED BY <1>1, PeopleStart, PeopleStep, PeopleTyped, PTL DEF People!Spec, People!BulkIsExact

-----------------------------------------------------------------------------
(* The test page of a channel *)

Forms == [text : Channel!Texts, key : Channel!Keys]
KeyedForms == {f \in Forms : f.text # "broken"}
MaskedForms == {f \in Forms : f.text # "broken" /\ f.key # "real"}
Reads == [stage : {"sent", "answered"}, form : MaskedForms, ok : BOOLEAN]
Actions == [stage : {"idle", "sent", "answered", "failed"}, form : KeyedForms, edit : BOOLEAN, ok : BOOLEAN]

(* No mask is stored, and a channel was called with real keys only. *)
KeysInv == stored \in [text : Channel!Texts \ {"broken"}, key : {"blank", "real"}] /\ upstream \subseteq {"real"}

EditorInv ==
  /\ form \in Forms /\ loads \in Seq(Reads)
  /\ saving \in Actions /\ testing \in Actions

FilesInv == files \in Seq(Nat) /\ Len(files) <= MaxReferences /\ urls = Len(files) /\ clicks \in 0..MaxVisits

SquareInv == KeysInv /\ EditorInv /\ FilesInv

\* Two sequences, joined.
LEMMA JoinedFiles ==
  ASSUME NEW S, NEW a \in Seq(S), NEW b \in Seq(S)
  PROVE  a \o b \in Seq(S) /\ Len(a \o b) = Len(a) + Len(b)
OBVIOUS

\* A sequence without one of its items.
LEMMA RemoveFrom ==
  ASSUME NEW S, NEW batch \in Seq(S), NEW i \in DOMAIN batch
  PROVE  Channel!RemoveAt(batch, i) \in Seq(S) /\ Len(Channel!RemoveAt(batch, i)) = Len(batch) - 1
<1> DEFINE before == SubSeq(batch, 1, i - 1)
           after == SubSeq(batch, i + 1, Len(batch))
<1>1. i \in 1..Len(batch)
  OBVIOUS
<1>2. before \in Seq(S) /\ Len(before) = i - 1 /\ after \in Seq(S) /\ Len(after) = Len(batch) - i
  BY <1>1
<1>3. Channel!RemoveAt(batch, i) = before \o after
  BY DEF Channel!RemoveAt
<1> HIDE DEF before, after
<1>4. before \o after \in Seq(S) /\ Len(before \o after) = Len(before) + Len(after)
  BY <1>2, JoinedFiles
<1> QED BY <1>1, <1>2, <1>3, <1>4

\* The form that the service answers with.
LEMMA MaskedTyped ==
  ASSUME NEW s \in [text : Channel!Texts \ {"broken"}, key : {"blank", "real"}]
  PROVE  Channel!Masked(s) \in MaskedForms /\ Channel!Masked(s) \in KeyedForms
BY DEF Channel!Masked, MaskedForms, KeyedForms, Forms, Channel!Texts, Channel!Keys

\* The parameters before any were stored.
LEMMA DefaultTyped == Channel!Default \in MaskedForms /\ Channel!Default \in KeyedForms /\
    Channel!Default \in Forms /\ Channel!Idle \in Actions
BY DEF Channel!Default, Channel!Idle, MaskedForms, KeyedForms, Forms, Channel!Texts, Channel!Keys, Actions

\* What is stored keeps its key, or takes a real one.
LEMMA StoredKeys ==
  ASSUME KeysInv, NEW f \in KeyedForms, Channel!SaveConfig(f)
  PROVE  /\ stored' \in [text : Channel!Texts \ {"broken"}, key : {"blank", "real"}]
         /\ stored.key = "real" => stored'.key = "real"
BY DEF KeysInv, Channel!SaveConfig, KeyedForms, Forms, Channel!Texts

-----------------------------------------------------------------------------
(* The steps *)

\* The page as it is opened.
LEMMA SquareStarts == Channel!CallSquareAssumption /\ Channel!Init => SquareInv
<1> SUFFICES ASSUME Channel!CallSquareAssumption, Channel!Init PROVE SquareInv
  OBVIOUS
<1>1. KeysInv
  BY DEF Channel!Init, KeysInv, Channel!Texts
<1>2. EditorInv
  BY DefaultTyped DEF Channel!Init, EditorInv
<1>3. FilesInv
  BY DEF Channel!CallSquareAssumption, Channel!Init, FilesInv
<1> QED BY <1>1, <1>2, <1>3 DEF SquareInv

\* A step of the service, with what a key may become.
LEMMA ServiceKeepsSquare ==
  ASSUME SquareInv, Channel!OtherSaves \/ Channel!ServeSave \/ Channel!ServeSavePartly \/ Channel!ServeTest
  PROVE  SquareInv' /\ (stored.key = "real" => stored'.key = "real")
<1> USE DEF SquareInv
<1>1. FilesInv'
  BY DEF Channel!OtherSaves, Channel!ServeSave, Channel!ServeSavePartly, Channel!ServeTest, Channel!tray,
      Channel!bounds, FilesInv
<1>2. CASE Channel!OtherSaves
  <2>1. PICK f \in [text : Channel!Texts \ {"broken"}, key : Channel!Keys] : Channel!SaveConfig(f)
    BY <1>2 DEF Channel!OtherSaves
  <2>2. f \in KeyedForms
    BY DEF KeyedForms, Forms
  <2>3. KeysInv' /\ (stored.key = "real" => stored'.key = "real")
    BY <1>2, <2>1, <2>2, StoredKeys DEF Channel!OtherSaves, KeysInv
  <2>4. EditorInv'
    BY <1>2 DEF Channel!OtherSaves, Channel!editor, EditorInv
  <2> QED BY <1>1, <2>3, <2>4
<1>3. CASE Channel!ServeSave
  <2>1. saving \in Actions /\ saving.form \in KeyedForms
    BY DEF EditorInv, Actions
  <2>2. CASE Channel!SaveRefused(saving.form)
    <3>1. saving' \in Actions
      BY <1>3, <2>1, <2>2 DEF Channel!ServeSave, Actions
    <3>2. EditorInv'
      BY <1>3, <3>1 DEF Channel!ServeSave, Channel!editor, EditorInv
    <3> QED BY <1>1, <1>3, <2>2, <3>2 DEF Channel!ServeSave, KeysInv
  <2>3. CASE ~Channel!SaveRefused(saving.form)
    <3>1. /\ stored' \in [text : Channel!Texts \ {"broken"}, key : {"blank", "real"}]
          /\ stored.key = "real" => stored'.key = "real"
      BY <1>3, <2>1, <2>3, StoredKeys DEF Channel!ServeSave
    <3> DEFINE ok == stored'.key # "blank"
               masked == Channel!Masked(stored')
    <3>2. masked \in KeyedForms /\ ok \in BOOLEAN
      BY <3>1, MaskedTyped
    <3>3. saving' = [saving EXCEPT !.stage = "answered", !.form = masked, !.ok = ok]
      BY <1>3, <2>3 DEF Channel!ServeSave
    <3> HIDE DEF ok, masked
    <3>4. saving' \in Actions
      BY <2>1, <3>2, <3>3 DEF Actions
    <3>5. EditorInv'
      BY <1>3, <3>4 DEF Channel!ServeSave, Channel!editor, EditorInv
    <3>6. KeysInv'
      BY <1>3, <3>1 DEF Channel!ServeSave, KeysInv
    <3> QED BY <1>1, <3>1, <3>5, <3>6
  <2> QED BY <2>2, <2>3
<1>4. CASE Channel!ServeSavePartly
  <2>1. saving.form.text \in Channel!Texts \ {"broken"} /\ saving \in Actions
    BY DEF EditorInv, Actions, KeyedForms, Forms
  <2>2. KeysInv' /\ stored'.key = stored.key
    BY <1>4, <2>1 DEF Channel!ServeSavePartly, KeysInv
  <2>3. saving' \in Actions
    BY <1>4, <2>1 DEF Channel!ServeSavePartly, Actions
  <2>4. EditorInv'
    BY <1>4, <2>3 DEF Channel!ServeSavePartly, Channel!editor, EditorInv
  <2> QED BY <1>1, <2>2, <2>4
<1>5. CASE Channel!ServeTest
  <2>1. Channel!EffectiveKey(testing.form) \in {"blank", "real"}
    BY DEF Channel!EffectiveKey, KeysInv
  <2>2. KeysInv' /\ stored' = stored
    BY <1>5, <2>1 DEF Channel!ServeTest, KeysInv
  <2>3. testing' \in Actions
    <3>1. testing \in Actions
      BY DEF EditorInv
    <3>2. testing' = [testing EXCEPT !.stage = "failed"] \/
              \E ok \in BOOLEAN : testing' = [testing EXCEPT !.stage = "answered", !.ok = ok]
      BY <1>5 DEF Channel!ServeTest
    <3> QED BY <3>1, <3>2 DEF Actions
  <2>4. EditorInv'
    BY <1>5, <2>3 DEF Channel!ServeTest, Channel!editor, EditorInv
  <2> QED BY <1>1, <2>2, <2>4
<1> QED BY <1>2, <1>3, <1>4, <1>5

\* What was called and what it answers.
LEMMA CallsKeepSquare ==
  ASSUME SquareInv,
         \/ Channel!Lose \/ Channel!SaveEnds \/ Channel!TestEnds
         \/ \E i \in DOMAIN loads : Channel!ServeLoad(i) \/ Channel!LoadArrives(i)
  PROVE  SquareInv' /\ stored' = stored
<1> USE DEF SquareInv
<1>1. FilesInv' /\ KeysInv' /\ stored' = stored
  BY DEF Channel!Lose, Channel!SaveEnds, Channel!TestEnds, Channel!ServeLoad, Channel!LoadArrives,
      Channel!tray, Channel!bounds, FilesInv, KeysInv
<1>2. form \in Forms /\ loads \in Seq(Reads) /\ saving \in Actions /\ testing \in Actions
  BY DEF EditorInv
<1>3. CASE Channel!Lose
  <2>1. [saving EXCEPT !.stage = "failed"] \in Actions /\ [testing EXCEPT !.stage = "failed"] \in Actions
    BY <1>2 DEF Actions
  <2>2. \A i \in DOMAIN loads : Channel!RemoveAt(loads, i) \in Seq(Reads)
    BY <1>2, RemoveFrom
  <2>3. EditorInv'
    BY <1>2, <1>3, <2>1, <2>2 DEF Channel!Lose, Channel!editor, EditorInv
  <2> QED BY <1>1, <2>3
<1>4. CASE Channel!SaveEnds
  <2>1. saving.form \in Forms
    BY <1>2 DEF Actions, KeyedForms
  <2>2. EditorInv'
    BY <1>2, <1>4, <2>1, DefaultTyped DEF Channel!SaveEnds, Channel!ApplyCallSquareConfig, EditorInv
  <2> QED BY <1>1, <2>2
<1>5. CASE Channel!TestEnds
  <2>1. EditorInv'
    BY <1>2, <1>5, DefaultTyped DEF Channel!TestEnds, Channel!editor, EditorInv
  <2> QED BY <1>1, <2>1
<1>6. CASE \E i \in DOMAIN loads : Channel!ServeLoad(i)
  <2>1. PICK i \in DOMAIN loads : Channel!ServeLoad(i)
    BY <1>6
  <2> DEFINE read == [stage |-> "answered", form |-> Channel!Masked(stored), ok |-> stored.key # "blank"]
  <2>2. read \in Reads
    <3>1. Channel!Masked(stored) \in MaskedForms
      BY MaskedTyped DEF KeysInv
    <3> QED BY <3>1 DEF Reads
  <2>3. loads' = [loads EXCEPT ![i] = read]
    BY <2>1 DEF Channel!ServeLoad
  <2> HIDE DEF read
  <2>4. loads' \in Seq(Reads)
    BY <1>2, <2>2, <2>3
  <2>5. EditorInv'
    BY <1>2, <2>1, <2>4 DEF Channel!ServeLoad, Channel!editor, EditorInv
  <2> QED BY <1>1, <2>5
<1>7. CASE \E i \in DOMAIN loads : Channel!LoadArrives(i)
  <2>1. PICK i \in DOMAIN loads : Channel!LoadArrives(i)
    BY <1>7
  <2>2. loads[i] \in Reads
    BY <1>2
  <2>3. loads[i].form \in Forms
    BY <2>2 DEF Reads, MaskedForms
  <2>4. Channel!RemoveAt(loads, i) \in Seq(Reads)
    BY <1>2, RemoveFrom
  <2>5. EditorInv'
    BY <1>2, <2>1, <2>3, <2>4 DEF Channel!LoadArrives, Channel!ApplyCallSquareConfig, EditorInv
  <2> QED BY <1>1, <2>5
<1> QED BY <1>3, <1>4, <1>5, <1>6, <1>7

\* Whatever the administrator does.
LEMMA ClicksKeepSquare ==
  ASSUME Channel!CallSquareAssumption, SquareInv,
         \/ \E f \in [text : Channel!Texts, key : Channel!Keys] : Channel!Type(f)
         \/ Channel!LoadConfig \/ Channel!SaveButton \/ Channel!TestButton
         \/ \E n \in 1..2 : Channel!AddReferences(n)
         \/ \E i \in DOMAIN files : Channel!RemoveReference(i)
         \/ Channel!ClearReferences \/ Channel!ClearConfig \/ Channel!SignOut
  PROVE  SquareInv' /\ stored' = stored
<1> USE DEF SquareInv
<1>1. Channel!Click
  BY DEF Channel!Type, Channel!LoadConfig, Channel!SaveButton, Channel!TestButton, Channel!AddReferences,
      Channel!RemoveReference, Channel!ClearReferences, Channel!ClearConfig, Channel!SignOut
<1>2. KeysInv' /\ stored' = stored /\ clicks' \in 0..MaxVisits /\ clicks \in Nat
  BY <1>1 DEF Channel!Click, KeysInv, FilesInv, Channel!CallSquareAssumption
<1>3. form \in Forms /\ loads \in Seq(Reads) /\ saving \in Actions /\ testing \in Actions
  BY DEF EditorInv
<1>4. files \in Seq(Nat) /\ Len(files) <= MaxReferences /\ MaxReferences \in Nat
  BY DEF FilesInv, Channel!CallSquareAssumption
<1>5. ASSUME UNCHANGED Channel!tray PROVE FilesInv'
  BY <1>2, <1>5 DEF Channel!tray, FilesInv
<1>6. ASSUME UNCHANGED <<Channel!editor, loads, saving, testing>> PROVE EditorInv'
  BY <1>6 DEF Channel!editor, EditorInv
<1>7. ASSUME NEW fs \in Seq(Nat), Len(fs) <= MaxReferences, Channel!RenderReferences(fs)
      PROVE  FilesInv'
  BY <1>2, <1>7 DEF Channel!RenderReferences, FilesInv
<1>8. CASE \E f \in [text : Channel!Texts, key : Channel!Keys] : Channel!Type(f)
  <2>1. EditorInv'
    BY <1>3, <1>8 DEF Channel!Type, EditorInv, Forms
  <2> QED BY <1>2, <1>5, <1>8, <2>1 DEF Channel!Type
<1>9. CASE Channel!LoadConfig
  <2>1. [stage |-> "sent", form |-> Channel!Default, ok |-> FALSE] \in Reads
    BY DefaultTyped DEF Reads
  <2>2. EditorInv'
    BY <1>3, <1>9, <2>1 DEF Channel!LoadConfig, Channel!editor, EditorInv
  <2> QED BY <1>2, <1>5, <1>9, <2>2 DEF Channel!LoadConfig
<1>10. CASE Channel!SaveButton
  <2>1. form \in KeyedForms
    BY <1>3, <1>10 DEF Channel!SaveButton, KeyedForms
  <2>2. saving' \in Actions
    BY <1>10, <2>1, DefaultTyped DEF Channel!SaveButton, Actions
  <2>3. EditorInv'
    BY <1>3, <1>10, <2>2 DEF Channel!SaveButton, Channel!editor, EditorInv
  <2> QED BY <1>2, <1>5, <1>10, <2>3 DEF Channel!SaveButton
<1>11. CASE Channel!TestButton
  <2>1. testing' \in Actions
    <3>1. CASE Channel!TestRefused
      BY <1>3, <1>11, <3>1 DEF Channel!TestButton
    <3>2. CASE ~Channel!TestRefused
      <4>1. form \in KeyedForms
        BY <1>3, <3>2 DEF Channel!TestRefused, KeyedForms
      <4> DEFINE edit == files # <<>>
      <4>2. edit \in BOOLEAN /\ testing' = [Channel!Idle EXCEPT !.stage = "sent", !.form = form, !.edit = edit]
        BY <1>11, <3>2 DEF Channel!TestButton
      <4> HIDE DEF edit
      <4> QED BY <4>1, <4>2, DefaultTyped DEF Actions
    <3> QED BY <3>1, <3>2
  <2>2. EditorInv'
    BY <1>3, <1>11, <2>1 DEF Channel!TestButton, Channel!editor, EditorInv
  <2> QED BY <1>2, <1>5, <1>11, <2>2 DEF Channel!TestButton
<1>12. CASE \E n \in 1..2 : Channel!AddReferences(n)
  <2>1. PICK n \in 1..2 : Channel!AddReferences(n)
    BY <1>12
  <2> DEFINE all == files \o [i \in 1..n |-> clicks]
             last == IF Len(files) + n < MaxReferences THEN Len(files) + n ELSE MaxReferences
  <2>2. [i \in 1..n |-> clicks] \in Seq(Nat) /\ Len([i \in 1..n |-> clicks]) = n
    BY <1>2
  <2>3. all \in Seq(Nat) /\ Len(all) = Len(files) + n
    BY <1>4, <2>2
  <2>4. last \in 0..Len(all) /\ last <= MaxReferences
    BY <1>4, <2>3
  <2>5. Channel!RenderReferences(SubSeq(all, 1, last))
    BY <2>1 DEF Channel!AddReferences
  <2> HIDE DEF all, last
  <2>6. SubSeq(all, 1, last) \in Seq(Nat) /\ Len(SubSeq(all, 1, last)) = last
    BY <2>3, <2>4
  <2> QED BY <1>2, <1>6, <1>7, <2>1, <2>4, <2>5, <2>6 DEF Channel!AddReferences
<1>13. CASE \E i \in DOMAIN files : Channel!RemoveReference(i)
  <2>1. PICK i \in DOMAIN files : Channel!RemoveReference(i)
    BY <1>13
  <2>2. Channel!RemoveAt(files, i) \in Seq(Nat) /\ Len(Channel!RemoveAt(files, i)) = Len(files) - 1
    BY <1>4, RemoveFrom
  <2>3. Len(Channel!RemoveAt(files, i)) <= MaxReferences
    BY <1>4, <2>2
  <2> QED BY <1>2, <1>6, <1>7, <2>1, <2>2, <2>3 DEF Channel!RemoveReference
<1>14. CASE Channel!ClearReferences \/ Channel!ClearConfig \/ Channel!SignOut
  <2>1. <<>> \in Seq(Nat) /\ Len(<<>>) <= MaxReferences
    BY <1>4
  <2>2. FilesInv'
    BY <1>5, <1>7, <1>14, <2>1 DEF Channel!ClearReferences, Channel!ClearConfig, Channel!SignOut
  <2>3. EditorInv'
    BY <1>3, <1>14, DefaultTyped DEF Channel!ClearReferences, Channel!ClearConfig, Channel!SignOut,
        Channel!ApplyCallSquareConfig, Channel!editor, EditorInv
  <2> QED BY <1>2, <2>2, <2>3
<1> QED BY <1>8, <1>9, <1>10, <1>11, <1>12, <1>13, <1>14

\* Every step keeps the invariant, and uses real keys.
LEMMA SquareStep == Channel!CallSquareAssumption /\ SquareInv /\ [Channel!Next]_(Channel!vars) => SquareInv' /\
    [Channel!UsesRealKeys]_(Channel!vars)
<1> SUFFICES ASSUME Channel!CallSquareAssumption, SquareInv,
        [Channel!Next]_(Channel!vars) PROVE SquareInv' /\ [Channel!UsesRealKeys]_(Channel!vars)
  OBVIOUS
<1>1. SquareInv' /\ (stored.key = "real" => stored'.key = "real")
  <2>1. CASE UNCHANGED Channel!vars
    BY <2>1 DEF Channel!vars, Channel!editor, Channel!tray, Channel!bounds, SquareInv, KeysInv, EditorInv, FilesInv
  <2>2. CASE Channel!OtherSaves \/ Channel!ServeSave \/ Channel!ServeSavePartly \/ Channel!ServeTest
    BY <2>2, ServiceKeepsSquare
  <2>3. CASE \/ Channel!Lose \/ Channel!SaveEnds \/ Channel!TestEnds
             \/ \E i \in DOMAIN loads : Channel!ServeLoad(i) \/ Channel!LoadArrives(i)
    BY <2>3, CallsKeepSquare
  <2> QED BY <2>1, <2>2, <2>3, ClicksKeepSquare DEF Channel!Next
<1>2. stored'.key \in {"blank", "real"} /\ upstream' \subseteq {"real"}
  BY <1>1 DEF SquareInv, KeysInv
<1> QED BY <1>1, <1>2 DEF Channel!UsesRealKeys

\* What the invariant says of the types.
LEMMA SquareTyped == SquareInv => Channel!TypeOK
<1> SUFFICES ASSUME SquareInv PROVE Channel!TypeOK
  OBVIOUS
<1>1. \A i \in DOMAIN loads : loads[i] \in Reads
  BY DEF SquareInv, EditorInv
<1>2. \A i \in DOMAIN loads : loads[i].form.key # "real"
  BY <1>1 DEF Reads, MaskedForms
<1>3. saving.form.text # "broken" /\ testing.form.text # "broken"
  BY DEF SquareInv, EditorInv, Actions, KeyedForms
<1> QED BY <1>2, <1>3 DEF SquareInv, KeysInv, EditorInv, FilesInv, Forms, Channel!TypeOK

\* However reads, saves, tests and edits of the form overlap, the mask that stands for
\* the key in the form is neither stored as the key nor sent to the channel.
THEOREM KeysAlwaysReal ==
  ASSUME Channel!CallSquareAssumption
  PROVE  Channel!Spec => Channel!KeysAreReal /\ []Channel!TypeOK
BY SquareStarts, SquareStep, SquareTyped, PTL DEF Channel!Spec, Channel!KeysAreReal

-----------------------------------------------------------------------------
(* The pages of the gallery *)

IsPage(g) ==
  /\ DOMAIN g = {"images", "limit", "offset", "total", "page", "pageCount"}
  /\ g.images \subseteq 1..MaxImages /\ g.limit \in Sizes /\ g.offset \in Nat /\ g.total \in Nat
  /\ g.page \in Nat /\ g.pageCount \in Nat /\ g.page <= g.pageCount

(* Its images are those of the range, under the number that its pager shows. *)
FirstOf(g) == IF g.pageCount > 1 THEN g.offset ELSE 0

PageIsTrue(g) ==
  /\ g.images \subseteq (FirstOf(g) + 1)..(FirstOf(g) + g.limit)
  /\ g.images # {} => g.page = FirstOf(g) \div g.limit + 1
  /\ FirstOf(g) = 0 \/ FirstOf(g) < g.total

IsCall(r) ==
  /\ DOMAIN r = {"id", "limit", "offset", "stage", "answer"}
  /\ r.limit \in Sizes /\ r.offset \in Nat
  /\ r.stage = "answered" => IsPage(Gallery!Taken(r)) /\ PageIsTrue(Gallery!Taken(r))

GalleryInv ==
  /\ total \in 0..MaxImages /\ clicks \in 0..MaxVisits /\ errors \in 0..MaxErrors
  /\ IsPage(gallery) /\ failed \in BOOLEAN
  /\ \A r \in net : IsCall(r)
  /\ net = {} /\ ~failed => PageIsTrue(gallery)

\* Dividing by a size, and the pages there are.
LEMMA Quotients ==
  ASSUME NEW n \in Nat, NEW l \in Nat \ {0}
  PROVE  (n \div l) \in Nat /\ (n \div l) * l \in Nat /\ (n \div l) * l <= n /\ (n + l) \div l = n \div l + 1
OBVIOUS

\* How many pages are full.
LEMMA QuotientAtMost ==
  ASSUME NEW q \in Nat, NEW n \in Nat, NEW l \in Nat \ {0}, n <= q * l
  PROVE  n \div l <= q
OBVIOUS

\* What is no more than a page is one page.
LEMMA OnePage ==
  ASSUME NEW n \in Nat, NEW l \in Nat \ {0}, (n \div l) * l = 0
  PROVE  n \div l = 0
OBVIOUS

\* The service answers pages that are true, and 0 for a later offset only if there
\* is no later page.
LEMMA AnswerIsTrue ==
  ASSUME Gallery!AdminGalleryAssumption, total \in 0..MaxImages, NEW limit \in Sizes, NEW offset \in Nat
  PROVE  LET answer == Gallery!Answer(limit, offset)
             taken == [answer EXCEPT !.offset = IF @ = 0 THEN offset ELSE @] IN
         IsPage(taken) /\ PageIsTrue(taken)
<1> DEFINE at == Gallery!AtMost(offset, Gallery!MaxOffset(limit))
           page == IF total = 0 THEN 0 ELSE at \div limit + 1
           number == IF total = 0 THEN 0 ELSE (total + limit - 1) \div limit
           images == Gallery!Page(at, limit)
<1>1. limit \in Nat \ {0} /\ total \in Nat /\ MaxImages \in Nat
  BY DEF Gallery!AdminGalleryAssumption
<1>2. at \in Nat /\ (at = 0 \/ at < total) /\ (total = 0 => at = 0)
  <2>1. CASE total = 0
    BY <2>1 DEF Gallery!AtMost, Gallery!MaxOffset
  <2>2. CASE total # 0
    <3>1. total - 1 \in Nat
      BY <1>1, <2>2
    <3>2. ((total - 1) \div limit) * limit \in Nat /\ ((total - 1) \div limit) * limit <= total - 1
      BY <1>1, <3>1, Quotients
    <3>3. Gallery!MaxOffset(limit) \in Nat /\ Gallery!MaxOffset(limit) <= total - 1
      BY <2>2, <3>2 DEF Gallery!MaxOffset
    <3> QED BY <1>1, <2>2, <3>3 DEF Gallery!AtMost
  <2> QED BY <2>1, <2>2
<1>3. page \in Nat /\ number \in Nat /\ page <= number
  <2>1. CASE total = 0
    BY <2>1
  <2>2. CASE total # 0
    <3>1. total - 1 \in Nat
      BY <1>1, <2>2
    <3>2. ((total - 1) + limit) \div limit = (total - 1) \div limit + 1 /\ (total - 1) \div limit \in Nat /\
              at \div limit \in Nat
      BY <1>1, <1>2, <3>1, Quotients
    <3>3. (total - 1) + limit = total + limit - 1
      BY <1>1
    <3>4. at <= ((total - 1) \div limit) * limit
      <4>1. ((total - 1) \div limit) * limit \in Nat
        BY <1>1, <3>1, Quotients
      <4> QED BY <2>2, <4>1 DEF Gallery!AtMost, Gallery!MaxOffset
    <3>5. at \div limit <= (total - 1) \div limit
      BY <1>1, <1>2, <3>2, <3>4, QuotientAtMost
    <3> QED BY <2>2, <3>2, <3>3, <3>5
  <2> QED BY <2>1, <2>2
<1>4. images \subseteq (at + 1)..(at + limit) /\ images \subseteq 1..MaxImages
  BY <1>1, <1>2 DEF Gallery!Page, Gallery!AtMost
<1>5. images # {} => total # 0
  BY <1>1, <1>2 DEF Gallery!Page, Gallery!AtMost
<1>6. Gallery!Answer(limit, offset) = [images |-> images, limit |-> limit, offset |-> at, total |-> total,
          page |-> page, pageCount |-> number]
  BY DEF Gallery!Answer
<1>7. images # {} => page = at \div limit + 1
  BY <1>5
<1>10. at = 0 /\ offset # 0 => number <= 1
  <2>1. SUFFICES ASSUME at = 0, offset # 0, total # 0 PROVE number <= 1
    OBVIOUS
  <2>2. total - 1 \in Nat
    BY <1>1, <2>1
  <2>3. ((total - 1) \div limit) * limit = 0
    <3>1. Gallery!MaxOffset(limit) = ((total - 1) \div limit) * limit
      BY <2>1 DEF Gallery!MaxOffset
    <3>2. ((total - 1) \div limit) * limit \in Nat
      BY <1>1, <2>2, Quotients
    <3> QED BY <2>1, <3>1, <3>2 DEF Gallery!AtMost
  <2>4. (total - 1) \div limit = 0
    BY <1>1, <2>2, <2>3, OnePage
  <2>5. ((total - 1) + limit) \div limit = (total - 1) \div limit + 1
    BY <1>1, <2>2, Quotients
  <2>6. (total - 1) + limit = total + limit - 1
    BY <1>1
  <2> QED BY <2>1, <2>4, <2>5, <2>6
<1>11. number <= 1 => at = 0
  <2>1. SUFFICES ASSUME number <= 1, total # 0 PROVE at = 0
    BY <1>2
  <2>2. total - 1 \in Nat
    BY <1>1, <2>1
  <2>3. (total - 1) \div limit \in Nat /\ ((total - 1) + limit) \div limit = (total - 1) \div limit + 1
    BY <1>1, <2>2, Quotients
  <2>4. (total - 1) + limit = total + limit - 1
    BY <1>1
  <2>5. (total - 1) \div limit = 0
    BY <2>1, <2>3, <2>4
  <2>6. Gallery!MaxOffset(limit) = 0
    BY <1>1, <2>1, <2>5 DEF Gallery!MaxOffset
  <2> QED BY <1>2, <2>6 DEF Gallery!AtMost
<1> DEFINE kept == IF at = 0 THEN offset ELSE at
           taken == [Gallery!Answer(limit, offset) EXCEPT !.offset = IF @ = 0 THEN offset ELSE @]
<1> HIDE DEF at, page, number, images
<1>12. taken = [images |-> images, limit |-> limit, offset |-> kept, total |-> total,
          page |-> page, pageCount |-> number]
  BY <1>6
<1>13. kept \in Nat
  BY <1>2
<1>14. number > 1 => kept = at
  BY <1>3, <1>10 DEF kept
<1>15. number <= 1 => images \subseteq 1..limit
  BY <1>1, <1>4, <1>11
<1>16. number <= 1 /\ images # {} => page = 0 \div limit + 1
  BY <1>7, <1>11
<1> HIDE DEF kept, taken
<1>8. IsPage(taken)
  BY <1>1, <1>3, <1>4, <1>12, <1>13 DEF IsPage
<1>9. PageIsTrue(taken)
  BY <1>1, <1>2, <1>3, <1>4, <1>7, <1>12, <1>14, <1>15, <1>16 DEF PageIsTrue, FirstOf
<1> QED BY <1>8, <1>9 DEF taken

\* A page of nothing.
LEMMA EmptyIsTrue ==
  ASSUME Gallery!AdminGalleryAssumption
  PROVE  IsPage(Gallery!Empty) /\ PageIsTrue(Gallery!Empty)
<1> DEFINE size == CHOOSE s \in Sizes : \A t \in Sizes : t <= s
<1>1. size \in Sizes
  BY DEF Gallery!AdminGalleryAssumption
<1> HIDE DEF size
<1>2. Gallery!Empty = [Gallery!NoAnswer EXCEPT !.limit = size]
  BY DEF Gallery!Empty, size
<1> QED BY <1>1, <1>2 DEF Gallery!NoAnswer, IsPage, PageIsTrue, FirstOf

-----------------------------------------------------------------------------
(* The steps *)

\* The page as it is opened.
LEMMA GalleryStarts == Gallery!AdminGalleryAssumption /\ Gallery!Init => GalleryInv
<1> SUFFICES ASSUME Gallery!AdminGalleryAssumption, Gallery!Init PROVE GalleryInv
  OBVIOUS
<1>1. 0 \in 0..MaxVisits /\ 0 \in 0..MaxErrors
  BY DEF Gallery!AdminGalleryAssumption
<1> QED BY <1>1, EmptyIsTrue DEF Gallery!Init, GalleryInv

\* A gesture asks for a page, and the pager is not judged until it is answered.
LEMMA LoadKeepsGallery ==
  ASSUME Gallery!AdminGalleryAssumption, GalleryInv, Gallery!Look, NEW g, IsPage(g), Gallery!LoadGallery(g)
  PROVE  GalleryInv'
<1> DEFINE call == [id |-> clicks, limit |-> g.limit, offset |-> Gallery!AtLeast(g.offset, 0),
        stage |-> "sent", answer |-> Gallery!NoAnswer]
<1>1. IsCall(call)
  BY DEF IsCall, IsPage, Gallery!AtLeast
<1>2. net' = net \cup {call} /\ gallery' = g
  BY DEF Gallery!LoadGallery
<1> HIDE DEF call
<1>3. net' # {} /\ \A r \in net' : IsCall(r)
  BY <1>1, <1>2 DEF GalleryInv
<1>4. UNCHANGED <<total, failed, errors>> /\ clicks' \in 0..MaxVisits
  BY DEF Gallery!Look, Gallery!Click, GalleryInv, Gallery!AdminGalleryAssumption
<1> QED BY <1>2, <1>3, <1>4 DEF GalleryInv

\* The view is left or shown.
LEMMA ShownKeepsGallery ==
  ASSUME Gallery!AdminGalleryAssumption, GalleryInv, Gallery!Click, net' = net, IsPage(gallery'),
         total' \in 0..MaxImages,
         PageIsTrue(gallery) => PageIsTrue(gallery')
  PROVE  GalleryInv'
<1>1. UNCHANGED <<failed, errors>> /\ clicks' \in 0..MaxVisits
  BY DEF Gallery!Click, GalleryInv, Gallery!AdminGalleryAssumption
<1> QED BY <1>1 DEF GalleryInv

\* What was called and what it answers.
LEMMA CallsKeepGallery ==
  ASSUME Gallery!AdminGalleryAssumption, GalleryInv, NEW r \in net,
      Gallery!Serve(r) \/ Gallery!Deliver(r) \/ Gallery!Fail(r)
  PROVE  GalleryInv'
<1>1. IsCall(r)
  BY DEF GalleryInv
<1>2. CASE Gallery!Serve(r)
  <2> DEFINE answer == Gallery!Answer(r.limit, r.offset)
             taken == [answer EXCEPT !.offset = IF @ = 0 THEN r.offset ELSE @]
             s == [r EXCEPT !.stage = "answered", !.answer = answer]
  <2>1. IsPage(taken) /\ PageIsTrue(taken)
    BY <1>1, AnswerIsTrue DEF IsCall, GalleryInv
  <2> HIDE DEF answer
  <2>2. IsCall(s)
    <3>1. s.answer = answer /\ s.offset = r.offset
      BY <1>1 DEF IsCall
    <3>2. Gallery!Taken(s) = taken
      BY <3>1 DEF Gallery!Taken
    <3> HIDE DEF taken
    <3> QED BY <1>1, <2>1, <3>2 DEF IsCall
  <2>3. net' = (net \ {r}) \cup {s}
    BY <1>2 DEF Gallery!Serve, answer
  <2> HIDE DEF s
  <2> QED BY <1>2, <2>2, <2>3 DEF Gallery!Serve, GalleryInv
<1>3. CASE Gallery!Deliver(r)
  <2>1. IsPage(gallery') /\ PageIsTrue(gallery')
    BY <1>1, <1>3 DEF Gallery!Deliver, IsCall
  <2> QED BY <1>3, <2>1 DEF Gallery!Deliver, GalleryInv
<1>4. CASE Gallery!Fail(r)
  BY <1>4 DEF Gallery!Fail, GalleryInv, Gallery!AdminGalleryAssumption
<1> QED BY <1>2, <1>3, <1>4

\* Whatever the administrator does.
LEMMA ClicksKeepGallery ==
  ASSUME Gallery!AdminGalleryAssumption, GalleryInv,
         \/ Gallery!PrevPage \/ Gallery!NextPage \/ Gallery!ReloadGallery \/ Gallery!SwitchView \/
                Gallery!SignInAgain \/ Gallery!DeleteUser
         \/ \E limit \in Sizes : Gallery!PageSize(limit)
  PROVE  GalleryInv'
<1>1. IsPage(gallery) /\ gallery.limit \in Nat \ {0}
  BY DEF GalleryInv, IsPage, Gallery!AdminGalleryAssumption
<1>2. CASE Gallery!PrevPage
  <2> DEFINE g == [gallery EXCEPT !.offset = Gallery!AtLeast(0, @ - gallery.limit)]
  <2>1. Gallery!AtLeast(0, gallery.offset - gallery.limit) \in Nat
    BY <1>1 DEF IsPage, Gallery!AtLeast
  <2>2. IsPage(g)
    BY <1>1, <2>1 DEF IsPage
  <2>3. Gallery!Look /\ Gallery!LoadGallery(g)
    BY <1>2 DEF Gallery!PrevPage
  <2> HIDE DEF g
  <2> QED BY <2>2, <2>3, LoadKeepsGallery
<1>3. CASE Gallery!NextPage
  <2> DEFINE g == [gallery EXCEPT !.offset = @ + gallery.limit]
  <2>1. IsPage(g)
    BY <1>1 DEF IsPage
  <2>2. Gallery!Look /\ Gallery!LoadGallery(g)
    BY <1>3 DEF Gallery!NextPage
  <2> HIDE DEF g
  <2> QED BY <2>1, <2>2, LoadKeepsGallery
<1>4. CASE Gallery!ReloadGallery
  BY <1>1, <1>4, LoadKeepsGallery DEF Gallery!ReloadGallery
<1>5. CASE Gallery!SwitchView
  <2>1. CASE Gallery!LoadGallery(gallery)
    BY <1>1, <1>5, <2>1, LoadKeepsGallery DEF Gallery!SwitchView
  <2>2. CASE UNCHANGED <<gallery, net>>
    BY <1>1, <1>5, <2>2, ShownKeepsGallery DEF Gallery!SwitchView, Gallery!Look, GalleryInv
  <2> QED BY <1>5, <2>1, <2>2 DEF Gallery!SwitchView
<1>6. CASE Gallery!SignInAgain
  <2>1. CASE visible
    BY <1>6, <2>1, EmptyIsTrue, LoadKeepsGallery DEF Gallery!SignInAgain
  <2>2. CASE ~visible
    BY <1>6, <2>2, EmptyIsTrue, ShownKeepsGallery DEF Gallery!SignInAgain, Gallery!Look, GalleryInv
  <2> QED BY <2>1, <2>2
<1>7. CASE Gallery!DeleteUser
  <2>1. PICK gone \in SUBSET gallery.images : gallery' = [gallery EXCEPT !.images = @ \ gone]
    BY <1>7 DEF Gallery!DeleteUser
  <2>2. /\ IsPage(gallery') /\ gallery'.images \subseteq gallery.images /\ gallery'.page = gallery.page
        /\ gallery'.offset = gallery.offset /\ gallery'.limit = gallery.limit /\ gallery'.total = gallery.total
    BY <1>1, <2>1 DEF IsPage
  <2>3. PageIsTrue(gallery) => PageIsTrue(gallery')
    <3>1. gallery'.pageCount = gallery.pageCount
      BY <1>1, <2>1 DEF IsPage
    <3> QED BY <2>1, <2>2, <3>1 DEF PageIsTrue, FirstOf
  <2>4. total' \in 0..MaxImages
    BY <1>7 DEF Gallery!DeleteUser
  <2> QED BY <1>7, <2>2, <2>3, <2>4, ShownKeepsGallery DEF Gallery!DeleteUser
<1>8. CASE \E limit \in Sizes : Gallery!PageSize(limit)
  <2>1. PICK limit \in Sizes : Gallery!PageSize(limit)
    BY <1>8
  <2> DEFINE g == [gallery EXCEPT !.limit = limit, !.offset = 0]
  <2>2. IsPage(g)
    BY <1>1 DEF IsPage
  <2>3. Gallery!Look /\ Gallery!LoadGallery(g)
    BY <2>1 DEF Gallery!PageSize
  <2> HIDE DEF g
  <2> QED BY <2>2, <2>3, LoadKeepsGallery
<1> QED BY <1>2, <1>3, <1>4, <1>5, <1>6, <1>7, <1>8

\* Every step keeps the invariant.
LEMMA GalleryStep == Gallery!AdminGalleryAssumption /\ GalleryInv /\ [Gallery!Next]_(Gallery!vars) => GalleryInv'
<1> SUFFICES ASSUME Gallery!AdminGalleryAssumption, GalleryInv, [Gallery!Next]_(Gallery!vars) PROVE GalleryInv'
  OBVIOUS
<1>1. CASE UNCHANGED Gallery!vars
  BY <1>1 DEF Gallery!vars, GalleryInv
<1>2. CASE Gallery!NewImage
  BY <1>2 DEF Gallery!NewImage, GalleryInv, Gallery!AdminGalleryAssumption
<1>3. CASE \E r \in net : Gallery!Serve(r) \/ Gallery!Deliver(r) \/ Gallery!Fail(r)
  BY <1>3, CallsKeepGallery
<1>4. CASE Gallery!ImagesGo
  BY <1>4 DEF Gallery!ImagesGo, GalleryInv
<1> QED BY <1>1, <1>2, <1>3, <1>4, ClicksKeepGallery DEF Gallery!Next

\* What the invariant says of the types and of the pager.
LEMMA GalleryTyped == GalleryInv => Gallery!TypeOK /\ Gallery!PagerIsTrue
BY DEF GalleryInv, IsPage, IsCall, PageIsTrue, FirstOf, Gallery!TypeOK, Gallery!PagerIsTrue, Gallery!FirstOfPage

\* However clicks and answers overlap, once every call has ended and the last one has
\* not failed, the gallery shows the images of the page that its pager names.
THEOREM PagerAlwaysTrue ==
  ASSUME Gallery!AdminGalleryAssumption
  PROVE  Gallery!Spec => [](Gallery!TypeOK /\ Gallery!PagerIsTrue)
BY GalleryStarts, GalleryStep, GalleryTyped, PTL DEF Gallery!Spec

-----------------------------------------------------------------------------
(* The rules tab *)

RuleRow == [text : Texts, enabled : BOOLEAN]
RuleCalls == {"import", "save", "toggle", "delete"}

(* A call of the tab: what it asks for, and what it is answered. *)
IsRuleCall(c) ==
  /\ DOMAIN c = {"id", "kind", "rule", "text", "enabled", "replace", "stage", "answer"}
  /\ c.kind \in RuleCalls /\ c.stage \in {"sent", "answered", "refused"} /\ c.id \in Nat
  /\ c.kind \in {"import", "save"} => c.text \in Texts
  /\ c.kind # "import" => c.rule \in Rules
  /\ c.enabled \in BOOLEAN /\ c.replace \in BOOLEAN
  /\ c.stage = "answered" => CASE c.kind = "import" -> c.answer \in RulesTab!RuleTables
                               [] c.kind \in {"save", "toggle"} -> c.answer \in RuleRow
                               [] OTHER -> TRUE

RulesTyped ==
  /\ stored \in RulesTab!RuleTables /\ unmade \subseteq Rules /\ DOMAIN stored \cap unmade = {}
  /\ filter \in {"all", "enabled", "disabled"} /\ replace \in BOOLEAN

RuleCallsTyped ==
  /\ clicks \in Nat
  /\ \A c \in net : IsRuleCall(c) /\ c.id \in 1..clicks

RuleLoadTyped ==
  /\ DOMAIN load = {"stage", "answer"} /\ load.stage \in {"none", "sent", "answered", "config"}
  /\ load.stage = "answered" => load.answer \in RulesTab!RuleTables

RowsTrue ==
  /\ list \in RulesTab!RuleTables /\ rows \in RulesTab!RuleTables
  /\ RulesTab!ButtonsAreTrue

(* One import at a time, and the box and the import under way stand for at  *)
(* most one tick that has not been used up.                                 *)
BoxInv ==
  /\ ticks \in Nat /\ replaced \in Nat /\ replaced <= ticks
  /\ \A c, d \in net : c.kind = "import" /\ d.kind = "import" => c = d
  /\ replace \/ (\E c \in net : c.kind = "import" /\ c.replace) => replaced + 1 <= ticks

RulesInv == RulesTyped /\ RuleCallsTyped /\ RuleLoadTyped /\ RowsTrue /\ BoxInv

\* A table of rules.
LEMMA TableOfRules ==
  ASSUME NEW f
  PROVE  /\ f \in RulesTab!RuleTables => DOMAIN f \subseteq Rules /\ \A r \in DOMAIN f : f[r] \in RuleRow
         /\ (/\ f = [r \in DOMAIN f |-> f[r]] /\ DOMAIN f \subseteq Rules
             /\ \A r \in DOMAIN f : f[r] \in RuleRow)
            => f \in RulesTab!RuleTables
<1>1. f \in RulesTab!RuleTables <=> \E S \in SUBSET Rules : f \in [S -> RuleRow]
  BY DEF RulesTab!RuleTables, RuleRow
<1> QED BY <1>1

\* Some of the rules.
LEMMA FewerRules ==
  ASSUME NEW f \in RulesTab!RuleTables, NEW S
  PROVE  RulesTab!Restrict(f, DOMAIN f \ S) \in RulesTab!RuleTables
<1> DEFINE g == RulesTab!Restrict(f, DOMAIN f \ S)
<1>1. g = [r \in DOMAIN f \ S |-> f[r]]
  BY DEF RulesTab!Restrict
<1> HIDE DEF g
<1>2. DOMAIN g = DOMAIN f \ S /\ \A r \in DOMAIN g : g[r] = f[r]
  BY <1>1
<1> QED BY <1>1, <1>2, TableOfRules DEF g

\* A rule put into the list.
LEMMA PutRule ==
  ASSUME NEW f \in RulesTab!RuleTables, NEW r \in Rules, NEW row \in RuleRow
  PROVE  [s \in DOMAIN f \cup {r} |-> IF s = r THEN row ELSE f[s]] \in RulesTab!RuleTables
<1> DEFINE g == [s \in DOMAIN f \cup {r} |-> IF s = r THEN row ELSE f[s]]
<1>1. DOMAIN f \subseteq Rules /\ \A s \in DOMAIN f : f[s] \in RuleRow
  BY TableOfRules
<1>2. DOMAIN g \subseteq Rules /\ \A s \in DOMAIN g : g[s] \in RuleRow
  BY <1>1
<1>3. g = [s \in DOMAIN g |-> g[s]]
  OBVIOUS
<1> HIDE DEF g
<1>4. g \in RulesTab!RuleTables
  BY <1>2, <1>3, TableOfRules
<1> QED BY <1>4 DEF g

\* One rule changed.
LEMMA ChangedRule ==
  ASSUME NEW f \in RulesTab!RuleTables, NEW r \in DOMAIN f, NEW row \in RuleRow
  PROVE  [f EXCEPT ![r] = row] \in RulesTab!RuleTables
<1> DEFINE g == [f EXCEPT ![r] = row]
<1>1. DOMAIN f \subseteq Rules /\ \A s \in DOMAIN f : f[s] \in RuleRow
  BY TableOfRules
<1>2. DOMAIN g = DOMAIN f /\ \A s \in DOMAIN g : g[s] \in RuleRow
  BY <1>1
<1>3. g = [s \in DOMAIN g |-> g[s]]
  OBVIOUS
<1> HIDE DEF g
<1>4. g \in RulesTab!RuleTables
  BY <1>1, <1>2, <1>3, TableOfRules
<1> QED BY <1>4 DEF g

\* What a rendering shows of a list.
LEMMA RenderedTrue ==
  ASSUME NEW rules \in RulesTab!RuleTables, NEW status
  PROVE  LET some == RulesTab!Filtered(rules, status)
         IN  /\ some \in RulesTab!RuleTables
             /\ \A r \in DOMAIN some : r \in DOMAIN rules /\ some[r].enabled = rules[r].enabled
<1> DEFINE some == RulesTab!Filtered(rules, status)
           S == {r \in DOMAIN rules : status = "all" \/ rules[r].enabled = (status = "enabled")}
<1>1. some = [r \in S |-> rules[r]]
  BY DEF RulesTab!Filtered, RulesTab!RestrictValues, RulesTab!Restrict
<1>2. S \subseteq DOMAIN rules
  OBVIOUS
<1> HIDE DEF S, some
<1>3. DOMAIN some = S /\ \A r \in S : some[r] = rules[r]
  BY <1>1
<1>4. some \in RulesTab!RuleTables
  BY <1>1, <1>2, <1>3, TableOfRules
<1> QED BY <1>2, <1>3, <1>4 DEF some

\* The list is changed and rendered together.
LEMMA ShownTrue ==
  ASSUME NEW rules \in RulesTab!RuleTables, NEW status, list' = rules, RulesTab!Render(rules, status)
  PROVE  RowsTrue'
<1>1. rows' = RulesTab!Filtered(rules, status)
  BY DEF RulesTab!Render
<1> QED BY <1>1, RenderedTrue DEF RowsTrue, RulesTab!ButtonsAreTrue

\* Calls that end, or are moved on by the service.
LEMMA CallMoves ==
  ASSUME RuleCallsTyped, BoxInv, NEW c \in net, NEW next,
         next = {} \/ \E d : next = {d} /\ IsRuleCall(d) /\ d.id = c.id /\ d.kind = c.kind /\ d.replace = c.replace,
         RulesTab!Move(c, next), UNCHANGED <<clicks, ticks, replaced, replace>>
  PROVE  RuleCallsTyped' /\ BoxInv'
<1>1. net' = (net \ {c}) \cup next
  BY DEF RulesTab!Move
<1>2. RuleCallsTyped'
  BY <1>1 DEF RuleCallsTyped
<1>5. ASSUME \A e, f \in net' : e.kind = "import" /\ f.kind = "import" => e = f,
             (\E e \in net' : e.kind = "import" /\ e.replace) => \E e \in net : e.kind = "import" /\ e.replace
      PROVE  BoxInv'
  <2>1. ticks' = ticks /\ replaced' = replaced /\ replace' = replace
    OBVIOUS
  <2>2. replace' \/ (\E e \in net' : e.kind = "import" /\ e.replace) => replaced' + 1 <= ticks'
    BY <1>5, <2>1 DEF BoxInv
  <2> QED BY <1>5, <2>1, <2>2 DEF BoxInv
<1>3. CASE next = {}
  <2>1. \A e \in net' : e \in net
    BY <1>1, <1>3
  <2>2. \A e, f \in net' : e.kind = "import" /\ f.kind = "import" => e = f
    BY <2>1 DEF BoxInv
  <2>3. (\E e \in net' : e.kind = "import" /\ e.replace) => \E e \in net : e.kind = "import" /\ e.replace
    BY <2>1
  <2> QED BY <1>2, <2>2, <2>3, <1>5
<1>4. CASE \E d : next = {d} /\ IsRuleCall(d) /\ d.id = c.id /\ d.kind = c.kind /\ d.replace = c.replace
  <2>1. PICK d : next = {d} /\ IsRuleCall(d) /\ d.id = c.id /\ d.kind = c.kind /\ d.replace = c.replace
    BY <1>4
  <2>2. \A e \in net' : e = d \/ (e \in net /\ e # c)
    BY <1>1, <2>1
  <2>3. \A e, f \in net' : e.kind = "import" /\ f.kind = "import" => e = f
    BY <2>1, <2>2 DEF BoxInv
  <2>4. (\E e \in net' : e.kind = "import" /\ e.replace) => \E e \in net : e.kind = "import" /\ e.replace
    BY <2>1, <2>2
  <2> QED BY <1>2, <2>3, <2>4, <1>5
<1> QED BY <1>2, <1>3, <1>4

\* Steps that leave the page alone.
LEMMA RowsStay ==
  ASSUME RowsTrue, UNCHANGED <<list, rows>>, load'.stage = "config" <=> load.stage = "config"
  PROVE  RowsTrue'
BY DEF RowsTrue, RulesTab!ButtonsAreTrue

\* The rules there are, as the tab is opened.
LEMMA RulesStart == RulesTab!AdminRulesAssumption /\ RulesTab!Init => RulesInv
<1> SUFFICES ASSUME RulesTab!AdminRulesAssumption, RulesTab!Init PROVE RulesInv
  OBVIOUS
<1>1. stored \in RulesTab!RuleTables /\ DOMAIN stored = EarlierRules
  <2>1. stored \in [EarlierRules -> RuleRow]
    BY DEF RulesTab!Init, RuleRow
  <2>2. EarlierRules \in SUBSET Rules
    BY DEF RulesTab!AdminRulesAssumption
  <2> QED BY <2>1, <2>2 DEF RulesTab!RuleTables, RuleRow
<1>2. RulesTyped
  BY <1>1 DEF RulesTab!Init, RulesTyped
<1>3. RuleCallsTyped /\ RuleLoadTyped /\ BoxInv
  BY DEF RulesTab!Init, RuleCallsTyped, RuleLoadTyped, BoxInv, RulesTab!NoLoad
<1>4. RowsTrue
  BY <1>1 DEF RulesTab!Init, RowsTrue, RulesTab!ButtonsAreTrue
<1> QED BY <1>2, <1>3, <1>4 DEF RulesInv

\* The rules after an import.
LEMMA Configured ==
  ASSUME RulesTyped, NEW text \in Texts, NEW replaces \in BOOLEAN, RulesTab!Configure(text, replaces)
  PROVE  stored' \in RulesTab!RuleTables /\ unmade' \subseteq Rules /\ DOMAIN stored' \cap unmade' = {}
<1> DEFINE kept == [r \in DOMAIN stored |->
                      IF stored[r].text = text THEN RulesTab!Enabled(stored[r], TRUE)
                      ELSE RulesTab!Enabled(stored[r], stored[r].enabled /\ ~replaces)]
<1>1. DOMAIN stored \subseteq Rules /\ \A r \in DOMAIN stored : stored[r] \in RuleRow
  BY TableOfRules DEF RulesTyped
<1>2. ASSUME NEW r \in DOMAIN stored
      PROVE  kept[r] \in RuleRow
  <2> DEFINE b == stored[r].enabled /\ ~replaces
  <2>1. b \in BOOLEAN
    OBVIOUS
  <2> HIDE DEF b
  <2>2. RulesTab!Enabled(stored[r], TRUE) \in RuleRow /\ RulesTab!Enabled(stored[r], b) \in RuleRow
    BY <1>1, <2>1 DEF RulesTab!Enabled, RuleRow
  <2> QED BY <2>2 DEF b
<1>3. DOMAIN kept = DOMAIN stored /\ kept = [r \in DOMAIN kept |-> kept[r]]
  OBVIOUS
<1>4. RulesTab!TextTaken(text, {}) => stored' = kept /\ UNCHANGED unmade
  BY DEF RulesTab!Configure
<1>5. ~RulesTab!TextTaken(text, {}) =>
        \E r \in unmade :
          /\ stored' = [s \in DOMAIN kept \cup {r} |-> IF s = r THEN [text |-> text, enabled |-> TRUE] ELSE kept[s]]
          /\ unmade' = unmade \ {r}
  BY DEF RulesTab!Configure
<1> HIDE DEF kept
<1>6. kept \in RulesTab!RuleTables
  BY <1>1, <1>2, <1>3, TableOfRules
<1>7. CASE RulesTab!TextTaken(text, {})
  BY <1>3, <1>4, <1>6, <1>7 DEF RulesTyped
<1>8. CASE ~RulesTab!TextTaken(text, {})
  <2>1. PICK r \in unmade :
          /\ stored' = [s \in DOMAIN kept \cup {r} |-> IF s = r THEN [text |-> text, enabled |-> TRUE] ELSE kept[s]]
          /\ unmade' = unmade \ {r}
    BY <1>5, <1>8
  <2>2. r \in Rules /\ [text |-> text, enabled |-> TRUE] \in RuleRow
    BY DEF RulesTyped, RuleRow
  <2>3. stored' \in RulesTab!RuleTables
    BY <1>6, <2>1, <2>2, PutRule
  <2>4. DOMAIN stored' = DOMAIN stored \cup {r}
    BY <1>3, <2>1
  <2> QED BY <2>1, <2>3, <2>4 DEF RulesTyped
<1> QED BY <1>7, <1>8

\* A call is served.
LEMMA ServeKeepsRules ==
  ASSUME RulesInv, NEW c \in net, RulesTab!ServeImport(c) \/ RulesTab!Serve(c)
  PROVE  RulesInv'
<1> USE DEF RulesInv
<1>0. IsRuleCall(c) /\ c.id \in 1..clicks
  BY DEF RuleCallsTyped
<1>1. CASE RulesTab!ServeImport(c)
  <2>1. c.text \in Texts /\ c.replace \in BOOLEAN /\ c.kind = "import"
    BY <1>0, <1>1 DEF IsRuleCall, RulesTab!ServeImport
  <2>2. stored' \in RulesTab!RuleTables /\ unmade' \subseteq Rules /\ DOMAIN stored' \cap unmade' = {}
    BY <1>1, <2>1, Configured DEF RulesTab!ServeImport
  <2>3. RulesTyped'
    BY <1>1, <2>2 DEF RulesTab!ServeImport, RulesTyped, RulesTab!page
  <2> DEFINE d == [c EXCEPT !.stage = "answered", !.answer = stored']
  <2>4. IsRuleCall(d) /\ d.id = c.id /\ d.kind = c.kind /\ d.replace = c.replace
    BY <1>0, <2>1, <2>2 DEF IsRuleCall
  <2>5. RulesTab!Move(c, {d}) /\ UNCHANGED <<clicks, ticks, replaced, replace>>
    BY <1>1 DEF RulesTab!ServeImport, RulesTab!history, RulesTab!page
  <2> HIDE DEF d
  <2>6. RuleCallsTyped' /\ BoxInv'
    BY <2>4, <2>5, CallMoves
  <2>7. RuleLoadTyped' /\ RowsTrue'
    BY <1>1, RowsStay DEF RulesTab!ServeImport, RulesTab!loading, RulesTab!page, RuleLoadTyped
  <2> QED BY <2>3, <2>6, <2>7
<1>2. CASE RulesTab!Serve(c)
  <2>1. c.kind \in {"save", "toggle", "delete"} /\ c.rule \in Rules
    BY <1>0, <1>2 DEF IsRuleCall, RulesTab!Serve, RuleCalls
  <2>2. stored \in RulesTab!RuleTables
    BY DEF RulesTyped
  <2>3. /\ stored' \in RulesTab!RuleTables /\ DOMAIN stored' \subseteq DOMAIN stored
        /\ ~RulesTab!Refuses(c) /\ c.kind # "delete" => stored'[c.rule] \in RuleRow
    <3>1. CASE RulesTab!Refuses(c)
      BY <1>2, <2>2, <3>1 DEF RulesTab!Serve
    <3>2. CASE ~RulesTab!Refuses(c)
      <4>1. stored' = RulesTab!Patched(c) /\ c.rule \in DOMAIN stored
        BY <1>2, <3>2 DEF RulesTab!Serve, RulesTab!Refuses
      <4>2. stored[c.rule] \in RuleRow
        BY <2>2, <4>1, TableOfRules
      <4>3. CASE c.kind = "save"
        <5> DEFINE row == [stored[c.rule] EXCEPT !.text = c.text]
        <5>1. row \in RuleRow
          BY <1>0, <4>2, <4>3 DEF RuleRow, IsRuleCall
        <5>2. stored' = [stored EXCEPT ![c.rule] = row]
          BY <4>1, <4>3 DEF RulesTab!Patched
        <5> HIDE DEF row
        <5>3. stored' \in RulesTab!RuleTables
          BY <2>2, <4>1, <5>1, <5>2, ChangedRule
        <5> QED BY <4>1, <5>1, <5>2, <5>3
      <4>4. CASE c.kind = "toggle"
        <5> DEFINE row == [stored[c.rule] EXCEPT !.enabled = c.enabled]
        <5>1. row \in RuleRow
          BY <1>0, <4>2, <4>4 DEF RuleRow, IsRuleCall
        <5>2. stored' = [stored EXCEPT ![c.rule] = row]
          BY <4>1, <4>4 DEF RulesTab!Patched
        <5> HIDE DEF row
        <5>3. stored' \in RulesTab!RuleTables
          BY <2>2, <4>1, <5>1, <5>2, ChangedRule
        <5> QED BY <4>1, <5>1, <5>2, <5>3
      <4>5. CASE c.kind = "delete"
        <5>1. stored' = RulesTab!Restrict(stored, DOMAIN stored \ {c.rule})
          BY <4>1, <4>5 DEF RulesTab!Patched
        <5>2. stored' \in RulesTab!RuleTables
          BY <2>2, <5>1, FewerRules
        <5>3. DOMAIN stored' \subseteq DOMAIN stored
          BY <5>1 DEF RulesTab!Restrict
        <5> QED BY <4>5, <5>2, <5>3
      <4> QED BY <2>1, <4>3, <4>4, <4>5
    <3> QED BY <3>1, <3>2
  <2>4. RulesTyped'
    BY <1>2, <2>3 DEF RulesTab!Serve, RulesTyped, RulesTab!page
  <2> DEFINE d == [c EXCEPT !.stage = IF RulesTab!Refuses(c) THEN "refused" ELSE "answered",
                            !.answer = IF RulesTab!Refuses(c) \/ c.kind = "delete" THEN <<>> ELSE stored'[c.rule]]
  <2>5. IsRuleCall(d) /\ d.id = c.id /\ d.kind = c.kind /\ d.replace = c.replace
    <3>1. CASE RulesTab!Refuses(c)
      BY <1>0, <3>1 DEF IsRuleCall
    <3>2. CASE ~RulesTab!Refuses(c)
      BY <1>0, <2>1, <2>3, <3>2 DEF IsRuleCall
    <3> QED BY <3>1, <3>2
  <2>6. RulesTab!Move(c, {d}) /\ UNCHANGED <<clicks, ticks, replaced, replace>>
    BY <1>2 DEF RulesTab!Serve, RulesTab!history, RulesTab!page
  <2> HIDE DEF d
  <2>7. RuleCallsTyped' /\ BoxInv'
    BY <2>5, <2>6, CallMoves
  <2>8. RuleLoadTyped' /\ RowsTrue'
    BY <1>2, RowsStay DEF RulesTab!Serve, RulesTab!loading, RulesTab!page, RuleLoadTyped
  <2> QED BY <2>4, <2>7, <2>8
<1> QED BY <1>1, <1>2

\* The load is served, a call or a load fails, or others change a rule.
LEMMA ServiceKeepsRules ==
  ASSUME RulesInv, RulesTab!ServeLoad \/ RulesTab!Lose \/ RulesTab!Other
  PROVE  RulesInv'
<1> USE DEF RulesInv
<1>1. CASE RulesTab!ServeLoad
  <2>1. RuleLoadTyped' /\ load'.stage = "answered" /\ load.stage = "sent"
    BY <1>1 DEF RulesTab!ServeLoad, RuleLoadTyped, RulesTyped
  <2>2. RowsTrue'
    BY <1>1, <2>1, RowsStay DEF RulesTab!ServeLoad, RulesTab!page
  <2>3. RulesTyped' /\ RuleCallsTyped'
    BY <1>1 DEF RulesTab!ServeLoad, RulesTab!server, RulesTab!page, RulesTab!history, RulesTyped, RuleCallsTyped
  <2>4. BoxInv'
    BY <1>1 DEF RulesTab!ServeLoad, RulesTab!page, RulesTab!history, BoxInv
  <2> QED BY <2>1, <2>2, <2>3, <2>4
<1>2. CASE RulesTab!Lose
  <2>1. RulesTyped' /\ UNCHANGED <<clicks, ticks, replaced, replace, list, rows>>
    BY <1>2 DEF RulesTab!Lose, RulesTab!server, RulesTab!page, RulesTab!history, RulesTyped
  <2>2. CASE (\E c \in net : c.stage \in {"sent", "answered"} /\ RulesTab!Move(c,
            {[c EXCEPT !.stage = "refused"]})) /\ UNCHANGED load
    <3>1. PICK c \in net : RulesTab!Move(c, {[c EXCEPT !.stage = "refused"]})
      BY <2>2
    <3> DEFINE d == [c EXCEPT !.stage = "refused"]
    <3>2. IsRuleCall(d) /\ d.id = c.id /\ d.kind = c.kind /\ d.replace = c.replace
      BY DEF RuleCallsTyped, IsRuleCall
    <3>3. RulesTab!Move(c, {d})
      BY <3>1
    <3> HIDE DEF d
    <3>4. RuleCallsTyped' /\ BoxInv'
      BY <2>1, <3>2, <3>3, CallMoves
    <3>5. RuleLoadTyped' /\ RowsTrue'
      BY <2>1, <2>2, RowsStay DEF RuleLoadTyped
    <3> QED BY <2>1, <3>4, <3>5
  <2>3. CASE load.stage \in {"sent", "answered"} /\ load' = RulesTab!NoLoad /\ UNCHANGED net
    <3>1. RuleLoadTyped' /\ load'.stage = "none"
      BY <2>3 DEF RuleLoadTyped, RulesTab!NoLoad
    <3>2. RowsTrue'
      BY <2>1, <2>3, <3>1, RowsStay
    <3>3. RuleCallsTyped'
      BY <2>1, <2>3 DEF RuleCallsTyped
    <3>4. BoxInv'
      BY <2>1, <2>3 DEF BoxInv
    <3> QED BY <2>1, <3>1, <3>2, <3>3, <3>4
  <2> QED BY <1>2, <2>2, <2>3 DEF RulesTab!Lose
<1>3. CASE RulesTab!Other
  <2>1. PICK r \in DOMAIN stored :
          stored' \in {RulesTab!Restrict(stored, DOMAIN stored \ {r}), [stored EXCEPT ![r].enabled = ~@]}
    BY <1>3 DEF RulesTab!Other
  <2>2. stored \in RulesTab!RuleTables
    BY DEF RulesTyped
  <2>3. stored' \in RulesTab!RuleTables /\ DOMAIN stored' \subseteq DOMAIN stored
    <3>1. CASE stored' = RulesTab!Restrict(stored, DOMAIN stored \ {r})
      BY <2>2, <3>1, FewerRules DEF RulesTab!Restrict
    <3>2. CASE stored' = [stored EXCEPT ![r].enabled = ~@]
      <4> DEFINE row == [stored[r] EXCEPT !.enabled = ~stored[r].enabled]
      <4>1. row \in RuleRow
        BY <2>2, TableOfRules DEF RuleRow
      <4>2. stored' = [stored EXCEPT ![r] = row]
        BY <3>2
      <4> HIDE DEF row
      <4> QED BY <2>2, <4>1, <4>2, ChangedRule
    <3> QED BY <2>1, <3>1, <3>2
  <2>4. RulesTyped'
    BY <1>3, <2>3 DEF RulesTab!Other, RulesTab!page, RulesTyped
  <2>5. RowsTrue' /\ RuleCallsTyped' /\ RuleLoadTyped'
    BY <1>3, RowsStay DEF RulesTab!Other, RulesTab!page, RulesTab!loading, RuleCallsTyped, RuleLoadTyped
  <2>6. BoxInv'
    BY <1>3 DEF RulesTab!Other, RulesTab!page, RulesTab!history, BoxInv
  <2> QED BY <2>4, <2>5, <2>6
<1> QED BY <1>1, <1>2, <1>3

\* An answer arrives.
LEMMA AnswersKeepRules ==
  ASSUME RulesInv, NEW c \in net, RulesTab!Imported(c) \/ RulesTab!Changed(c) \/ RulesTab!Refused(c)
  PROVE  RulesInv'
<1> USE DEF RulesInv
<1>0. IsRuleCall(c)
  BY DEF RuleCallsTyped
<1>1. CASE RulesTab!Imported(c)
  <2>1. c.answer \in RulesTab!RuleTables /\ c.replace \in BOOLEAN
    BY <1>0, <1>1 DEF RulesTab!Imported, IsRuleCall
  <2>2. RowsTrue'
    BY <1>1, <2>1, ShownTrue DEF RulesTab!Imported, RulesTab!Show
  <2>3. RulesTyped' /\ RuleLoadTyped'
    BY <1>1 DEF RulesTab!Imported, RulesTab!server, RulesTab!loading, RulesTyped, RuleLoadTyped
  <2>4. net' = net \ {c}
    BY <1>1 DEF RulesTab!Imported, RulesTab!Move
  <2>5. RuleCallsTyped'
    BY <1>1, <2>4 DEF RulesTab!Imported, RuleCallsTyped
  <2>6. \A e \in net' : e.kind # "import"
    BY <1>1, <2>4 DEF BoxInv, RulesTab!Imported
  <2>7. replaced' \in Nat /\ replaced' <= ticks /\ ticks' = ticks
    <3>1. CASE c.replace
      <4>1. replaced + 1 <= ticks
        BY <1>1, <3>1 DEF BoxInv, RulesTab!Imported
      <4> QED BY <1>1, <3>1, <4>1 DEF RulesTab!Imported, BoxInv
    <3>2. CASE ~c.replace
      BY <1>1, <3>2 DEF RulesTab!Imported, BoxInv
    <3> QED BY <3>1, <3>2
  <2>8. replace' = FALSE /\ ticks \in Nat
    BY <1>1 DEF RulesTab!Imported, BoxInv
  <2>9. BoxInv'
    BY <2>6, <2>7, <2>8 DEF BoxInv
  <2> QED BY <2>2, <2>3, <2>5, <2>9
<1>2. CASE RulesTab!Changed(c)
  <2> DEFINE rules == IF c.kind = "delete" THEN RulesTab!Restrict(list, DOMAIN list \ {c.rule})
                      ELSE [r \in DOMAIN list \cup {c.rule} |-> IF r = c.rule THEN c.answer ELSE list[r]]
  <2>1. list \in RulesTab!RuleTables
    BY DEF RowsTrue
  <2>2. rules \in RulesTab!RuleTables
    <3>1. CASE c.kind = "delete"
      BY <2>1, <3>1, FewerRules
    <3>2. CASE c.kind # "delete"
      <4>1. c.rule \in Rules /\ c.answer \in RuleRow
        BY <1>0, <1>2, <3>2 DEF RulesTab!Changed, IsRuleCall, RuleCalls
      <4> QED BY <2>1, <3>2, <4>1, PutRule
    <3> QED BY <3>1, <3>2
  <2>3. RulesTab!Show(rules)
    BY <1>2 DEF RulesTab!Changed
  <2> HIDE DEF rules
  <2>4. RowsTrue'
    BY <2>2, <2>3, ShownTrue DEF RulesTab!Show
  <2>5. RulesTyped' /\ RuleLoadTyped'
    BY <1>2 DEF RulesTab!Changed, RulesTab!server, RulesTab!loading, RulesTyped, RuleLoadTyped
  <2>6. RuleCallsTyped' /\ BoxInv'
    BY <1>2, CallMoves DEF RulesTab!Changed, RulesTab!history
  <2> QED BY <2>4, <2>5, <2>6
<1>3. CASE RulesTab!Refused(c)
  <2>1. RulesTyped' /\ RuleLoadTyped' /\ RowsTrue'
    BY <1>3, RowsStay DEF RulesTab!Refused, RulesTab!server, RulesTab!page, RulesTab!loading, RulesTyped,
        RuleLoadTyped
  <2>2. RuleCallsTyped' /\ BoxInv'
    BY <1>3, CallMoves DEF RulesTab!Refused, RulesTab!history, RulesTab!page
  <2> QED BY <2>1, <2>2
<1> QED BY <1>1, <1>2, <1>3

\* The load arrives, and the settings of the call square after it.
LEMMA LoadKeepsRules ==
  ASSUME RulesInv, RulesTab!Loaded \/ RulesTab!LoadEnds
  PROVE  RulesInv'
<1> USE DEF RulesInv
<1>1. CASE RulesTab!Loaded
  <2>1. load.answer \in RulesTab!RuleTables /\ list' = load.answer
    BY <1>1 DEF RulesTab!Loaded, RuleLoadTyped
  <2>2. RulesTyped' /\ RuleCallsTyped'
    BY <1>1 DEF RulesTab!Loaded, RulesTab!server, RulesTyped, RuleCallsTyped
  <2>3. BoxInv'
    BY <1>1 DEF RulesTab!Loaded, RulesTab!history, BoxInv
  <2>4. CASE configured
    <3>1. load' = RulesTab!NoLoad /\ RulesTab!Render(list', filter)
      BY <1>1, <2>4 DEF RulesTab!Loaded
    <3>2. RowsTrue'
      BY <2>1, <3>1, ShownTrue
    <3>3. RuleLoadTyped'
      BY <3>1 DEF RuleLoadTyped, RulesTab!NoLoad
    <3> QED BY <2>2, <2>3, <3>2, <3>3
  <2>5. CASE ~configured
    <3>1. load' = [RulesTab!NoLoad EXCEPT !.stage = "config"] /\ UNCHANGED <<rows, rendered>>
      BY <1>1, <2>5 DEF RulesTab!Loaded
    <3>2. RuleLoadTyped' /\ load'.stage = "config"
      BY <3>1 DEF RuleLoadTyped, RulesTab!NoLoad
    <3>3. RowsTrue'
      BY <2>1, <3>1, <3>2 DEF RowsTrue, RulesTab!ButtonsAreTrue
    <3> QED BY <2>2, <2>3, <3>2, <3>3
  <2> QED BY <2>4, <2>5
<1>2. CASE RulesTab!LoadEnds
  <2>1. list \in RulesTab!RuleTables /\ list' = list /\ RulesTab!Render(list, filter) /\ load' = RulesTab!NoLoad
    BY <1>2 DEF RulesTab!LoadEnds, RowsTrue
  <2>2. RowsTrue'
    BY <2>1, ShownTrue
  <2>3. RuleLoadTyped'
    BY <2>1 DEF RuleLoadTyped, RulesTab!NoLoad
  <2>4. RulesTyped' /\ RuleCallsTyped'
    BY <1>2 DEF RulesTab!LoadEnds, RulesTab!server, RulesTyped, RuleCallsTyped
  <2>5. BoxInv'
    BY <1>2 DEF RulesTab!LoadEnds, RulesTab!history, BoxInv
  <2> QED BY <2>2, <2>3, <2>4, <2>5
<1> QED BY <1>1, <1>2

\* Clicks keep the calls there are.
LEMMA StillTyped ==
  ASSUME RuleCallsTyped, RulesTab!Click, net' = net
  PROVE  RuleCallsTyped'
<1>1. clicks \in Nat /\ clicks' = clicks + 1
  BY DEF RuleCallsTyped, RulesTab!Click
<1> QED BY <1>1 DEF RuleCallsTyped

\* And add a call.
LEMMA OneMoreTyped ==
  ASSUME RuleCallsTyped, RulesTab!Click, NEW c, net' = net \cup {c}, IsRuleCall(c), c.id = clicks'
  PROVE  RuleCallsTyped'
<1>1. clicks \in Nat /\ clicks' = clicks + 1
  BY DEF RuleCallsTyped, RulesTab!Click
<1>2. ASSUME NEW d \in net'
      PROVE  IsRuleCall(d) /\ d.id \in 1..clicks'
  BY <1>1, <1>2 DEF RuleCallsTyped
<1> QED BY <1>1, <1>2 DEF RuleCallsTyped

\* A call is sent by a button of a row or of the form.
LEMMA SendKeepsRules ==
  ASSUME RulesInv, RulesTab!Click, NEW call, RulesTab!Send(call), IsRuleCall(call),
         call.kind = "import" => ~RulesTab!Importing /\ (call.replace => replace),
         UNCHANGED <<RulesTab!page, RulesTab!loading, RulesTab!history>>
  PROVE  RulesInv'
<1> USE DEF RulesInv
<1> DEFINE c == [call EXCEPT !.id = clicks']
<1>1. clicks' \in Nat
  BY DEF RuleCallsTyped, RulesTab!Click
<1>2. IsRuleCall(c) /\ c.id = clicks' /\ c.kind = call.kind /\ c.replace = call.replace
  BY <1>1 DEF IsRuleCall
<1>3. net' = net \cup {c}
  BY DEF RulesTab!Send
<1> HIDE DEF c
<1>4. RuleCallsTyped'
  BY <1>2, <1>3, OneMoreTyped
<1>5. RulesTyped' /\ RuleLoadTyped' /\ RowsTrue'
  BY RowsStay DEF RulesTab!page, RulesTab!loading, RulesTyped, RuleLoadTyped, RulesTab!Click, RulesTab!server
<1>6. \A e, f \in net' : e.kind = "import" /\ f.kind = "import" => e = f
  BY <1>2, <1>3 DEF BoxInv, RulesTab!Importing
<1>7. replace' \/ (\E e \in net' : e.kind = "import" /\ e.replace)
      => replace \/ (\E e \in net : e.kind = "import" /\ e.replace)
  BY <1>2, <1>3 DEF RulesTab!page
<1>8. BoxInv'
  <2>1. ticks' = ticks /\ replaced' = replaced
    BY DEF RulesTab!history
  <2> QED BY <1>6, <1>7, <2>1 DEF BoxInv
<1> QED BY <1>4, <1>5, <1>8

\* The buttons of a row, and what is typed in it.
LEMMA RowClicksKeepRules ==
  ASSUME RulesInv, NEW r \in DOMAIN rows,
         RulesTab!Save(r) \/ RulesTab!Toggle(r) \/ RulesTab!Delete(r) \/ \E text \in Texts : RulesTab!Type(r, text)
  PROVE  RulesInv'
<1> USE DEF RulesInv
<1>1. r \in Rules /\ rows[r] \in RuleRow
  BY TableOfRules DEF RowsTrue
<1>2. CASE RulesTab!Save(r) \/ RulesTab!Toggle(r) \/ RulesTab!Delete(r)
  <2>1. PICK call : RulesTab!Press(r, call) /\ call \in
          {[RulesTab!NoCall EXCEPT !.kind = "save", !.text = rows[r].text],
           [RulesTab!NoCall EXCEPT !.kind = "toggle", !.enabled = ~list[r].enabled],
           [RulesTab!NoCall EXCEPT !.kind = "delete"]}
    BY <1>2 DEF RulesTab!Save, RulesTab!Toggle, RulesTab!Delete
  <2> DEFINE c == [call EXCEPT !.rule = r]
  <2>2. IsRuleCall(c) /\ c.kind # "import"
    <3>1. rows[r].text \in Texts
      BY <1>1 DEF RuleRow
    <3>2. (~list[r].enabled) \in BOOLEAN
      OBVIOUS
    <3> DEFINE b == ~list[r].enabled
               t == rows[r].text
    <3>3. b \in BOOLEAN /\ t \in Texts
      BY <3>1, <3>2
    <3>4. call \in {[RulesTab!NoCall EXCEPT !.kind = "save", !.text = t],
              [RulesTab!NoCall EXCEPT !.kind = "toggle", !.enabled = b],
                    [RulesTab!NoCall EXCEPT !.kind = "delete"]}
      BY <2>1
    <3> HIDE DEF b, t
    <3>5. CASE call = [RulesTab!NoCall EXCEPT !.kind = "save", !.text = t]
      BY <1>1, <3>3, <3>5 DEF IsRuleCall, RulesTab!NoCall, RuleCalls
    <3>6. CASE call = [RulesTab!NoCall EXCEPT !.kind = "toggle", !.enabled = b]
      BY <1>1, <3>3, <3>6 DEF IsRuleCall, RulesTab!NoCall, RuleCalls
    <3>7. CASE call = [RulesTab!NoCall EXCEPT !.kind = "delete"]
      BY <1>1, <3>7 DEF IsRuleCall, RulesTab!NoCall, RuleCalls
    <3> QED BY <3>4, <3>5, <3>6, <3>7
  <2>3. RulesTab!Click /\ RulesTab!Send(c) /\ UNCHANGED <<RulesTab!page, RulesTab!loading, RulesTab!history>>
    BY <2>1 DEF RulesTab!Press
  <2> HIDE DEF c
  <2> QED BY <2>2, <2>3, SendKeepsRules
<1>3. CASE \E text \in Texts : RulesTab!Type(r, text)
  <2>1. PICK text \in Texts : RulesTab!Type(r, text)
    BY <1>3
  <2> DEFINE row == [rows[r] EXCEPT !.text = text]
  <2>2. row \in RuleRow /\ row.enabled = rows[r].enabled
    BY <1>1 DEF RuleRow
  <2>3. rows' = [rows EXCEPT ![r] = row]
    BY <2>1 DEF RulesTab!Type
  <2> HIDE DEF row
  <2>4. rows' \in RulesTab!RuleTables
    BY <2>2, <2>3, ChangedRule DEF RowsTrue
  <2>5. DOMAIN rows' = DOMAIN rows /\ \A s \in DOMAIN rows : rows'[s].enabled = rows[s].enabled
    BY <2>2, <2>3
  <2>6. UNCHANGED <<list, load, filter, replace, net, ticks, replaced, stored, unmade>> /\ RulesTab!Click
    BY <2>1 DEF RulesTab!Type, RulesTab!loading, RulesTab!history, RulesTab!Click, RulesTab!server
  <2>7. RowsTrue'
    BY <2>4, <2>5, <2>6 DEF RowsTrue, RulesTab!ButtonsAreTrue
  <2>8. RulesTyped' /\ RuleLoadTyped'
    BY <2>6 DEF RulesTyped, RuleLoadTyped
  <2>9. BoxInv'
    BY <2>6 DEF BoxInv
  <2>10. RuleCallsTyped'
    BY <2>6, StillTyped
  <2> QED BY <2>7, <2>8, <2>9, <2>10
<1> QED BY <1>2, <1>3

\* What is rendered anew by a click.
LEMMA ShowClickKeepsRules ==
  ASSUME RulesInv, RulesTab!Click, NEW status \in {"all", "enabled", "disabled"}, filter' = status,
      RulesTab!Render(list, status),
         UNCHANGED <<list, replace, net, RulesTab!loading, RulesTab!history>>
  PROVE  RulesInv'
<1> USE DEF RulesInv
<1>1. RowsTrue'
  BY ShownTrue DEF RowsTrue
<1>2. RulesTyped' /\ RuleLoadTyped'
  BY DEF RulesTyped, RuleLoadTyped, RulesTab!Click, RulesTab!server, RulesTab!loading
<1>3. BoxInv'
  BY DEF BoxInv, RulesTab!history
<1>4. RuleCallsTyped'
  BY StillTyped
<1> QED BY <1>1, <1>2, <1>3, <1>4

\* The form, the filter and the buttons above the table.
LEMMA ClicksKeepRules ==
  ASSUME RulesInv,
         \/ RulesTab!Tick \/ RulesTab!Refresh \/ RulesTab!Elsewhere
         \/ \E text \in Texts : RulesTab!Import(text)
         \/ \E status \in {"all", "enabled", "disabled"} : RulesTab!Filter(status)
  PROVE  RulesInv'
<1> USE DEF RulesInv
<1>1. CASE RulesTab!Tick
  <2>1. RulesTyped' /\ RuleLoadTyped' /\ RowsTrue'
    BY <1>1, RowsStay DEF RulesTab!Tick, RulesTyped, RuleLoadTyped, RulesTab!Click, RulesTab!server, RulesTab!loading
  <2>2. BoxInv'
    <3>1. CASE replace
      <4>1. ticks' = ticks /\ replaced' = replaced /\ net' = net /\ replace' = FALSE
        <5>1. ticks' = ticks + 0 /\ replaced' = replaced /\ net' = net
          BY <1>1, <3>1 DEF RulesTab!Tick
        <5>2. replace = TRUE /\ ticks \in Nat
          BY <3>1 DEF RulesTyped, BoxInv
        <5>3. replace' = FALSE
          BY <1>1, <5>2 DEF RulesTab!Tick
        <5> QED BY <5>1, <5>2, <5>3
      <4> QED BY <3>1, <4>1 DEF BoxInv
    <3>2. CASE ~replace
      <4>1. ticks' = ticks + 1 /\ replaced' = replaced /\ net' = net
        BY <1>1, <3>2 DEF RulesTab!Tick
      <4> QED BY <4>1 DEF BoxInv
    <3> QED BY <3>1, <3>2
  <2>3. RuleCallsTyped'
    BY <1>1, StillTyped DEF RulesTab!Tick
  <2> QED BY <2>1, <2>2, <2>3
<1>2. CASE RulesTab!Refresh
  <2>1. load' = [RulesTab!NoLoad EXCEPT !.stage = "sent"] /\ load.stage = "none"
    BY <1>2 DEF RulesTab!Refresh, RulesTab!NoLoad
  <2>2. RuleLoadTyped' /\ load'.stage = "sent"
    BY <2>1 DEF RuleLoadTyped, RulesTab!NoLoad
  <2>3. RowsTrue'
    BY <1>2, <2>1, <2>2, RowsStay DEF RulesTab!Refresh, RulesTab!page
  <2>4. RulesTyped' /\ BoxInv'
    <3>1. UNCHANGED <<stored, unmade, filter, replace, net, ticks, replaced>>
      BY <1>2 DEF RulesTab!Refresh, RulesTab!Click, RulesTab!server, RulesTab!page, RulesTab!history
    <3> QED BY <3>1 DEF RulesTyped, BoxInv
  <2>5. RuleCallsTyped'
    BY <1>2, StillTyped DEF RulesTab!Refresh
  <2> QED BY <2>2, <2>3, <2>4, <2>5
<1>3. CASE RulesTab!Elsewhere
  BY <1>3, ShowClickKeepsRules DEF RulesTab!Elsewhere, RulesTyped
<1>4. CASE \E text \in Texts : RulesTab!Import(text)
  <2>1. PICK text \in Texts : RulesTab!Import(text)
    BY <1>4
  <2> DEFINE call == [RulesTab!NoCall EXCEPT !.text = text, !.replace = replace]
  <2>2. IsRuleCall(call) /\ call.kind = "import" /\ call.replace = replace
    BY DEF IsRuleCall, RulesTab!NoCall, RuleCalls, RulesTyped
  <2>3. RulesTab!Click /\ ~RulesTab!Importing /\ RulesTab!Send(call) /\ UNCHANGED <<RulesTab!page,
            RulesTab!loading, RulesTab!history>>
    BY <2>1 DEF RulesTab!Import
  <2> HIDE DEF call
  <2> QED BY <2>2, <2>3, SendKeepsRules
<1>5. CASE \E status \in {"all", "enabled", "disabled"} : RulesTab!Filter(status)
  BY <1>5, ShowClickKeepsRules DEF RulesTab!Filter
<1> QED BY <1>1, <1>2, <1>3, <1>4, <1>5

\* Every step keeps the invariant.
LEMMA RulesStep == RulesInv /\ [RulesTab!Next]_(RulesTab!vars) => RulesInv'
<1> SUFFICES ASSUME RulesInv, [RulesTab!Next]_(RulesTab!vars) PROVE RulesInv'
  OBVIOUS
<1>1. CASE UNCHANGED RulesTab!vars
  <2>1. RulesTyped' /\ RuleCallsTyped' /\ RuleLoadTyped' /\ RowsTrue'
    BY <1>1, RowsStay DEF RulesTab!vars, RulesTab!server, RulesTab!page, RulesTab!loading, RulesInv,
        RulesTyped, RuleCallsTyped, RuleLoadTyped
  <2>2. BoxInv'
    BY <1>1 DEF RulesTab!vars, RulesTab!page, RulesTab!history, RulesInv, BoxInv
  <2> QED BY <2>1, <2>2 DEF RulesInv
<1>2. CASE RulesTab!ServeLoad \/ RulesTab!Lose \/ RulesTab!Other
  BY <1>2, ServiceKeepsRules
<1>3. CASE RulesTab!Loaded \/ RulesTab!LoadEnds
  BY <1>3, LoadKeepsRules
<1>4. CASE \E c \in net : RulesTab!ServeImport(c) \/ RulesTab!Serve(c) \/ RulesTab!Imported(c) \/
          RulesTab!Changed(c) \/ RulesTab!Refused(c)
  BY <1>4, ServeKeepsRules, AnswersKeepRules
<1>5. CASE \E r \in DOMAIN rows : RulesTab!Save(r) \/ RulesTab!Toggle(r) \/ RulesTab!Delete(r) \/
          \E text \in Texts : RulesTab!Type(r, text)
  BY <1>5, RowClicksKeepRules
<1> QED BY <1>1, <1>2, <1>3, <1>4, <1>5, ClicksKeepRules DEF RulesTab!Next

\* What the invariant says of the types, the buttons and the box.
LEMMA RulesTrue == RulesInv => RulesTab!TypeOK /\ RulesTab!ButtonsAreTrue /\ RulesTab!ReplacedOncePerTick
<1> SUFFICES ASSUME RulesInv PROVE RulesTab!TypeOK /\ RulesTab!ButtonsAreTrue /\ RulesTab!ReplacedOncePerTick
  OBVIOUS
<1>1. RulesTab!TypeOK
  BY DEF RulesInv, RulesTab!TypeOK, RulesTyped, RuleCallsTyped, RuleLoadTyped, RowsTrue, IsRuleCall
<1>2. RulesTab!ReplacedOncePerTick
  BY DEF RulesInv, BoxInv, RulesTab!ReplacedOncePerTick
<1> QED BY <1>1, <1>2 DEF RulesInv, RowsTrue

-----------------------------------------------------------------------------

\* However the rules tab is loaded, edited, filtered and used for imports, a row says what
\* its button will do, and a tick of the box disables the other rules at most once.
THEOREM ButtonsAlwaysTrue ==
  ASSUME RulesTab!AdminRulesAssumption
  PROVE  RulesTab!Spec => [](RulesTab!TypeOK /\ RulesTab!ButtonsAreTrue /\ RulesTab!ReplacedOncePerTick)
BY RulesStart, RulesStep, RulesTrue, PTL DEF RulesTab!Spec

Agrees(r, q) == r \in Options!Ratios /\ q \in Options!Qualities /\ ~(q = "4k" /\ Options!Square(r))

OptionsTyped ==
  /\ signedIn \in BOOLEAN
  /\ Agrees(ratio, quality)
  /\ count \in 1..Options!MaxGenerationCount
  /\ gateway \in Models \cup {NoGateway}
  /\ options \in Seq(Models)
  /\ loads \in 0..MaxLists

DraftTyped == draft # NeverSaved => draft \in Options!Drafts /\ Agrees(draft.ratio, draft.quality)

BriefTold == brief = Options!Brief(ratio, quality, count)

ComposerInv == OptionsTyped /\ DraftTyped /\ BriefTold /\ Options!GatewayIsOffered

\* The number of images stays within what the page allows.
LEMMA CountNormal ==
  \A n \in Nat : Options!NormalizeCount(n) \in 1..Options!MaxGenerationCount
                 /\ (n \in 1..Options!MaxGenerationCount => Options!NormalizeCount(n) = n /\
                        Options!NormalizeImageCount(n) = n)
  BY DEF Options!NormalizeCount, Options!NormalizeImageCount, Options!AtMost, Options!AtLeast,
      Options!MaxGenerationCount

\* A quality that the page keeps is never 4k with a square.
LEMMA CompatibleAgrees ==
  \A r \in Options!Ratios, q \in Options!Qualities : Agrees(r, Options!Compatible(r, q))
  BY DEF Agrees, Options!Compatible, Options!Qualities

\* The two tables of prices agree.
LEMMA PricesAgree ==
  ASSUME NEW r, NEW q, Agrees(r, q), NEW g
  PROVE  Options!UnitCost(Options!NormalizeSize(r, q), g) = IF q = "4k" THEN 8 ELSE 6
<1>1. CASE q = "4k"
  <2>1. r \in {"9:16", "16:9"}
    BY <1>1 DEF Agrees, Options!Square, Options!Ratios
  <2>2. Options!NormalizeSize(r, q) \in {"3840x2160", "2160x3840"}
    BY <1>1, <2>1 DEF Options!NormalizeSize, Options!Square
  <2> QED BY <1>1, <2>2 DEF Options!UnitCost
<1>2. CASE q # "4k"
  <2>1. Options!NormalizeSize(r, q) \in {"2048x2048", "2048x1152", "1152x2048"}
    BY <1>2 DEF Options!NormalizeSize
  <2>2. Options!NormalizeSize(r, q) \notin {"3840x2160", "2160x3840"}
    BY <2>1
  <2> QED BY <1>2, <2>1, <2>2 DEF Options!UnitCost
<1> QED BY <1>1, <1>2

\* What may be selected of a list.
LEMMA SelectableOffered ==
  ASSUME NEW batch \in Seq(Models), NEW g \in Options!Selectable(batch, gateway)
  PROVE  /\ g \in Models \cup {NoGateway}
         /\ signedIn => g = NoGateway \/ Options!Contains(batch, g)
<1>1. CASE batch = <<>>
  BY <1>1 DEF Options!Selectable
<1>2. CASE batch # <<>>
  <2>1. Len(batch) \in Nat /\ Len(batch) >= 1 /\ DOMAIN batch = 1..Len(batch)
    BY <1>2
  <2>2. \A i \in 1..Len(batch) : batch[i] \in Models
    OBVIOUS
  <2>3. CASE Options!Contains(batch, gateway)
    <3>1. g = gateway
      BY <1>2, <2>3 DEF Options!Selectable
    <3>2. PICK i \in 1..Len(batch) : batch[i] = gateway
      BY <2>3 DEF Options!Contains
    <3> QED BY <2>2, <2>3, <3>1, <3>2
  <2>4. CASE ~Options!Contains(batch, gateway) /\ signedIn
    <3>1. g = batch[1]
      BY <1>2, <2>4 DEF Options!Selectable
    <3> QED BY <2>1, <2>2, <3>1 DEF Options!Contains
  <2>5. CASE ~Options!Contains(batch, gateway) /\ ~signedIn
    <3>1. g \in Options!ToSet(batch)
      BY <1>2, <2>5 DEF Options!Selectable
    <3> QED BY <2>1, <2>2, <2>5, <3>1 DEF Options!ToSet
  <2> QED BY <2>3, <2>4, <2>5
<1> QED BY <1>1, <1>2

\* A draft that is saved of options that agree.
LEMMA SavedTyped ==
  ASSUME NEW r, NEW q, Agrees(r, q), NEW n \in 1..Options!MaxGenerationCount, NEW g \in Models \cup {NoGateway}
  PROVE  /\ Options!Draft(r, q, n, g) \in Options!Drafts
         /\ Agrees(Options!Draft(r, q, n, g).ratio, Options!Draft(r, q, n, g).quality)
<1>1. Options!NormalizeCount(n) \in 1..Options!MaxGenerationCount
  BY CountNormal DEF Options!MaxGenerationCount
<1>2. r \in Options!Ratios /\ q \in Options!Qualities
  BY DEF Agrees
<1> QED BY <1>1, <1>2 DEF Options!Draft, Options!Drafts

\* The page as it is opened.
LEMMA ComposerStarts ==
  ASSUME Options!ComposerAssumption, Options!Init
  PROVE  ComposerInv
<1>0. <<>> \in Seq(Models)
  OBVIOUS
<1>1. OptionsTyped
  <2>1. signedIn \in BOOLEAN /\ loads \in 0..MaxLists /\ options \in Seq(Models)
    <3>1. signedIn \in BOOLEAN
      BY DEF Options!Init
    <3>2. loads = 0 /\ MaxLists \in Nat /\ options = <<>>
      BY DEF Options!Init, Options!ComposerAssumption
    <3>3. loads \in 0..MaxLists
      BY <3>2
    <3> QED BY <1>0, <3>1, <3>2, <3>3
  <2>2. Agrees(ratio, quality)
    BY DEF Options!Init, Agrees, Options!Square, Options!Ratios, Options!Qualities
  <2> QED BY <2>1, <2>2 DEF Options!Init, OptionsTyped, Options!MaxGenerationCount
<1>2. DraftTyped /\ BriefTold /\ Options!GatewayIsOffered
  BY DEF Options!Init, DraftTyped, BriefTold, Options!GatewayIsOffered
<1> QED BY <1>1, <1>2 DEF ComposerInv

\* A choice of the user.
LEMMA ChoiceKeeps ==
  ASSUME ComposerInv, NEW r, NEW q, NEW n \in 1..Options!MaxGenerationCount, NEW g \in Models \cup {NoGateway},
         Agrees(r, q), g # gateway => Options!Contains(options, g),
         ratio' = r, quality' = q, count' = n, gateway' = g,
         Options!Shown, Options!Saved, UNCHANGED <<signedIn, options, loads>>
  PROVE  ComposerInv'
<1>1. OptionsTyped'
  BY DEF ComposerInv, OptionsTyped
<1>2. DraftTyped'
  BY SavedTyped DEF DraftTyped, Options!Saved
<1>3. BriefTold'
  BY DEF BriefTold, Options!Shown
<1>4. Options!GatewayIsOffered'
  BY DEF ComposerInv, Options!GatewayIsOffered
<1> QED BY <1>1, <1>2, <1>3, <1>4 DEF ComposerInv

\* The buttons and the field of the options.
LEMMA ChoicesKeepComposer ==
  ASSUME Options!ComposerAssumption, ComposerInv,
         \/ \E r \in Options!Ratios : Options!ClickRatio(r)
         \/ \E q \in Options!Qualities : Options!ClickQuality(q)
         \/ \E n \in Options!CountButtons : Options!ClickCount(n)
         \/ \E v \in Typed : Options!TypeCount(v)
         \/ \E i \in 1..Len(options) : Options!ClickModel(i)
  PROVE  ComposerInv'
<1>0. /\ ratio \in Options!Ratios /\ quality \in Options!Qualities /\ Agrees(ratio, quality)
      /\ count \in 1..Options!MaxGenerationCount /\ gateway \in Models \cup {NoGateway}
      /\ options \in Seq(Models)
  BY DEF ComposerInv, OptionsTyped, Agrees
<1>1. ASSUME NEW r \in Options!Ratios, Options!ClickRatio(r) PROVE ComposerInv'
  <2>1. Agrees(r, Options!Compatible(r, quality))
    BY <1>0, CompatibleAgrees
  <2> QED BY <1>0, <1>1, <2>1, ChoiceKeeps DEF Options!ClickRatio
<1>2. ASSUME NEW q \in Options!Qualities, Options!ClickQuality(q) PROVE ComposerInv'
  <2>1. Agrees(ratio, Options!Compatible(ratio, q))
    BY <1>0, CompatibleAgrees
  <2> QED BY <1>0, <1>2, <2>1, ChoiceKeeps DEF Options!ClickQuality
<1>3. ASSUME NEW n \in Options!CountButtons, Options!ClickCount(n) PROVE ComposerInv'
  <2>1. n \in 1..Options!MaxGenerationCount
    BY DEF Options!CountButtons, Options!MaxGenerationCount
  <2> QED BY <1>0, <1>3, <2>1, ChoiceKeeps DEF Options!ClickCount
<1>4. ASSUME NEW v \in Typed, Options!TypeCount(v) PROVE ComposerInv'
  <2>1. Options!NormalizeCount(v) \in 1..Options!MaxGenerationCount
    BY CountNormal DEF Options!ComposerAssumption
  <2> QED BY <1>0, <1>4, <2>1, ChoiceKeeps DEF Options!TypeCount
<1>5. ASSUME NEW i \in 1..Len(options), Options!ClickModel(i) PROVE ComposerInv'
  <2>1. options[i] \in Models /\ Options!Contains(options, options[i])
    BY <1>0 DEF Options!Contains
  <2> QED BY <1>0, <1>5, <2>1, ChoiceKeeps DEF Options!ClickModel
<1> QED BY <1>1, <1>2, <1>3, <1>4, <1>5

\* A list is rendered.
LEMMA RenderKeeps ==
  ASSUME Options!ComposerAssumption, ComposerInv, NEW batch \in Seq(Models), Options!RenderModelOptions(batch),
         loads > 0, loads' = loads - 1, Options!Shown, UNCHANGED <<signedIn, ratio, quality, count, draft>>
  PROVE  ComposerInv'
<1>1. /\ gateway' \in Models \cup {NoGateway}
      /\ signedIn => gateway' = NoGateway \/ Options!Contains(batch, gateway')
  BY SelectableOffered DEF Options!RenderModelOptions
<1>2. OptionsTyped'
  <2>1. loads \in 0..MaxLists /\ MaxLists \in Nat
    BY DEF ComposerInv, OptionsTyped, Options!ComposerAssumption
  <2>2. loads' \in 0..MaxLists
    BY <2>1
  <2> QED BY <1>1, <2>2 DEF ComposerInv, OptionsTyped, Options!RenderModelOptions
<1>3. DraftTyped'
  BY DEF ComposerInv, DraftTyped
<1>4. BriefTold'
  BY DEF BriefTold, Options!Shown
<1>5. Options!GatewayIsOffered'
  BY <1>1 DEF Options!GatewayIsOffered, Options!RenderModelOptions
<1> QED BY <1>2, <1>3, <1>4, <1>5 DEF ComposerInv

\* The account is loaded, or left.
LEMMA SessionsKeepComposer ==
  ASSUME Options!ComposerAssumption, ComposerInv, Options!SignIn \/ Options!RefreshAccount \/ Options!SignOut
  PROVE  ComposerInv'
<1>1. ASSUME Options!SignIn \/ Options!RefreshAccount PROVE ComposerInv'
  <2>0. /\ loads \in 0..MaxLists /\ MaxLists \in Nat /\ loads < MaxLists
        /\ loads' = loads + 1
    BY <1>1 DEF Options!ComposerAssumption, ComposerInv, OptionsTyped, Options!SignIn, Options!RefreshAccount
  <2>5. loads' \in 0..MaxLists /\ loads' # 0
    BY <2>0
  <2>6. signedIn' \in BOOLEAN /\ UNCHANGED <<Options!choice, options, brief, draft>>
    BY <1>1 DEF ComposerInv, OptionsTyped, Options!SignIn, Options!RefreshAccount
  <2>1. OptionsTyped'
    BY <2>5, <2>6 DEF ComposerInv, OptionsTyped, Options!choice
  <2>2. DraftTyped' /\ BriefTold'
    BY <1>1 DEF ComposerInv, DraftTyped, BriefTold, Options!SignIn, Options!RefreshAccount, Options!choice
  <2>3. Options!GatewayIsOffered'
    BY <2>5 DEF Options!GatewayIsOffered
  <2> QED BY <2>1, <2>2, <2>3 DEF ComposerInv
<1>2. ASSUME Options!SignOut PROVE ComposerInv'
  <2>0. <<>> \in Seq(Models)
    OBVIOUS
  <2>1. OptionsTyped'
    BY <1>2, <2>0 DEF ComposerInv, OptionsTyped, Options!SignOut
  <2>2. DraftTyped' /\ BriefTold' /\ Options!GatewayIsOffered'
    BY <1>2 DEF ComposerInv, DraftTyped, BriefTold, Options!GatewayIsOffered, Options!SignOut, Options!Shown
  <2> QED BY <2>1, <2>2 DEF ComposerInv
<1> QED BY <1>1, <1>2

\* The page is loaded again, with the draft.
LEMMA ReloadKeepsComposer ==
  ASSUME Options!ComposerAssumption, ComposerInv, Options!Reload
  PROVE  ComposerInv'
<1>0. /\ signedIn' = FALSE /\ options' = <<>> /\ loads' = 0 /\ MaxLists \in Nat
      /\ BriefTold' /\ Options!GatewayIsOffered'
  BY DEF Options!ComposerAssumption, Options!Reload, BriefTold, Options!Shown, Options!GatewayIsOffered
<1>3. /\ signedIn' \in BOOLEAN /\ loads' \in 0..MaxLists
      /\ options' \in Seq(Models)
  <2>1. <<>> \in Seq(Models)
    OBVIOUS
  <2>2. signedIn' \in BOOLEAN
    BY <1>0
  <2>3. loads' \in 0..MaxLists
    BY <1>0
  <2>4. options' \in Seq(Models)
    BY <1>0, <2>1
  <2> QED BY <2>2, <2>3, <2>4
<1>1. CASE draft = NeverSaved
  <2>1. ratio' = "auto" /\ quality' = "2k" /\ count' = 1 /\ gateway' = NoGateway /\ draft' = draft
    BY <1>1 DEF Options!Reload
  <2>2. OptionsTyped'
    <3>1. Agrees("auto", "2k")
      BY DEF Agrees, Options!Square, Options!Ratios, Options!Qualities
    <3> QED BY <1>3, <2>1, <3>1 DEF OptionsTyped, Options!MaxGenerationCount
  <2>3. DraftTyped'
    BY <2>1 DEF ComposerInv, DraftTyped
  <2> QED BY <1>0, <2>2, <2>3 DEF ComposerInv
<1>2. CASE draft # NeverSaved
  <2>1. draft \in Options!Drafts /\ Agrees(draft.ratio, draft.quality)
    BY <1>2 DEF ComposerInv, DraftTyped
  <2>2. draft.count \in 1..Options!MaxGenerationCount /\ draft.gateway \in Models \cup {NoGateway}
    BY <2>1 DEF Options!Drafts
  <2>3. Options!NormalizeCount(draft.count) = draft.count
    BY <2>2, CountNormal DEF Options!MaxGenerationCount
  <2>4. /\ ratio' = draft.ratio /\ quality' = draft.quality
        /\ count' = draft.count /\ gateway' = draft.gateway /\ Options!Saved
    BY <1>2, <2>3 DEF Options!Reload
  <2>5. OptionsTyped'
    BY <1>3, <2>1, <2>2, <2>4 DEF OptionsTyped
  <2>6. DraftTyped'
    BY <2>1, <2>2, <2>4, SavedTyped DEF DraftTyped, Options!Saved
  <2> QED BY <1>0, <2>5, <2>6 DEF ComposerInv
<1> QED BY <1>1, <1>2

\* Every step keeps the invariant.
LEMMA ComposerStep ==
  ASSUME Options!ComposerAssumption, ComposerInv, [Options!Next]_(Options!vars)
  PROVE  ComposerInv'
<1>1. ASSUME UNCHANGED Options!vars PROVE ComposerInv'
  BY <1>1 DEF ComposerInv, OptionsTyped, DraftTyped, BriefTold, Options!GatewayIsOffered, Options!vars, Options!choice
<1>2. ASSUME Options!GatewaysArrive PROVE ComposerInv'
  <2>1. PICK batch \in Offers : Options!RenderModelOptions(batch)
    BY <1>2 DEF Options!GatewaysArrive
  <2>2. batch \in Seq(Models)
    BY <2>1 DEF Options!ComposerAssumption
  <2> QED BY <1>2, <2>1, <2>2, RenderKeeps DEF Options!GatewaysArrive
<1>3. ASSUME Options!GatewaysFail PROVE ComposerInv'
  <2>1. options \in Seq(Models)
    BY DEF ComposerInv, OptionsTyped
  <2> QED BY <1>3, <2>1, RenderKeeps DEF Options!GatewaysFail
<1> QED BY <1>1, <1>2, <1>3, ChoicesKeepComposer, SessionsKeepComposer, ReloadKeepsComposer DEF Options!Next

\* What the invariant says of the types and of the price.
LEMMA ComposerTyped ==
  ASSUME ComposerInv
  PROVE  Options!TypeOK /\ Options!ShownPriceIsCharged /\ Options!GatewayIsOffered
<1>1. Options!TypeOK
  BY DEF ComposerInv, OptionsTyped, DraftTyped, Agrees, Options!TypeOK
<1>2. /\ Agrees(ratio, quality) /\ count \in 1..Options!MaxGenerationCount
      /\ brief.cost = (IF quality = "4k" THEN 8 ELSE 6) * Options!NormalizeCount(count)
  BY DEF ComposerInv, OptionsTyped, BriefTold, Options!Brief, Options!EstimateCost
<1>3. Options!NormalizeCount(count) = count /\ Options!NormalizeImageCount(count) = count
  BY <1>2, CountNormal DEF Options!MaxGenerationCount
<1>4. /\ Options!Payload.ratio = ratio /\ Options!Payload.quality = quality
      /\ Options!Payload.count = count /\ Options!Payload.gateway = gateway
  BY <1>3 DEF Options!Payload
<1>5. Options!UnitCost(Options!NormalizeSize(ratio, quality), gateway) = IF quality = "4k" THEN 8 ELSE 6
  BY <1>2, PricesAgree
<1>6. Options!Charge(Options!Payload) = (IF quality = "4k" THEN 8 ELSE 6) * count
  BY <1>3, <1>4, <1>5 DEF Options!Charge
<1> QED BY <1>1, <1>2, <1>3, <1>6 DEF Options!ShownPriceIsCharged, ComposerInv

\* However options are chosen, lists of gateways arrive or fail and drafts are restored,
\* the price that is shown is what the service charges for the payload, and the gateway
\* is one of those offered once no list is under way.
THEOREM PriceAlwaysTrue ==
  ASSUME Options!ComposerAssumption
  PROVE  Options!Spec => [](Options!TypeOK /\ Options!ShownPriceIsCharged /\ Options!GatewayIsOffered)
<1>1. Options!Init => ComposerInv
  BY ComposerStarts
<1>2. ComposerInv /\ [Options!Next]_(Options!vars) => ComposerInv'
  BY ComposerStep
<1>3. ComposerInv => Options!TypeOK /\ Options!ShownPriceIsCharged /\ Options!GatewayIsOffered
  BY ComposerTyped
<1> QED BY <1>1, <1>2, <1>3, PTL DEF Options!Spec

WarningCallTyped(c) ==
  /\ c \in [kind : {"me", "ack"}, warning : Nat,
            stage : {"sent", "answered", "failed", "gateways"}, list : SUBSET (1..sent), id : Nat]
  /\ Warning!Cardinality(c.list) <= PageLimit
  /\ c.kind = "ack" => c.warning \in 1..sent /\ c.warning \in seen

WarnedTyped ==
  /\ sent \in 0..WarningCount /\ acknowledged \subseteq 1..sent
  /\ signedIn \in BOOLEAN /\ refreshes \in Nat

DialogTyped ==
  /\ open \in BOOLEAN
  /\ active \in 0..sent
  /\ active # Warning!None => active \in seen

WarningCallsTyped ==
  /\ \A c \in net : WarningCallTyped(c)
  /\ timers \subseteq SUBSET (1..sent)

WarningsInv ==
  /\ WarnedTyped /\ DialogTyped /\ WarningCallsTyped
  /\ Warning!AcknowledgedWasShown /\ Warning!DialogCanBeAnswered

\* The least-number principle.
LEMMA Smallest ==
  ASSUME NEW S, S \subseteq Nat, S # {}
  PROVE  \E m \in S : \A n \in S : m <= n
<1> DEFINE R == {ss \in Nat \X Nat : ss[1] < ss[2]}
<1>1. R = OpToRel(<, Nat)
  BY DEF OpToRel
<1>2. IsWellFoundedOn(R, Nat)
  BY <1>1, NatLessThanWellFounded
<1>3. \A m, n \in Nat : m < n => <<m, n>> \in R
  OBVIOUS
<1> HIDE DEF R
<1>4. PICK m \in S : \A n \in S : ~(<<n, m>> \in R)
  BY <1>2, WFMin
<1>5. \A n \in S : ~(n < m)
  BY <1>3, <1>4
<1> QED BY <1>5

\* The newest of some warnings is one of them.
LEMMA Newest ==
  ASSUME NEW k \in Nat, NEW S, S \subseteq 1..k, S # {}
  PROVE  Warning!Max(S) \in S
<1> DEFINE T == {k - n : n \in S}
<1>0. \A n \in S : n \in 1..k /\ k - n \in Nat
  OBVIOUS
<1>1. T \subseteq Nat /\ T # {}
  BY <1>0
<1>2. PICK t \in T : \A u \in T : t <= u
  BY <1>1, Smallest
<1>3. PICK m \in S : t = k - m
  BY <1>2
<1>4. ASSUME NEW n \in S PROVE m >= n
  <2>1. k - n \in T
    OBVIOUS
  <2>2. k - m <= k - n
    BY <1>2, <1>3, <2>1
  <2>3. m \in Nat /\ n \in Nat
    BY <1>0
  <2> QED BY <2>2, <2>3
<1> QED BY <1>4 DEF Warning!Max

\* Two names of the same operator.
LEMMA CountsAgree == \A S : Warning!Cardinality(S) = Cardinality(S)
  BY DEF Warning!Cardinality, Cardinality

\* Subsets of the warnings are finite.
LEMMA SomeWarnings ==
  ASSUME NEW k \in Nat, NEW S, S \subseteq 1..k
  PROVE  IsFiniteSet(S) /\ Warning!Cardinality(S) \in Nat
<1>1. IsFiniteSet(1..k)
  BY FS_Interval
<1>2. IsFiniteSet(S)
  BY <1>1, FS_Subset
<1> QED BY <1>2, FS_CardinalityType, CountsAgree

\* The service answers no more warnings than it reads.
LEMMA PageIsShort ==
  ASSUME Warning!AccountWarningsAssumption, WarnedTyped, NEW S, S \subseteq Warning!PendingWarnings
  PROVE  S \subseteq 1..sent /\ Warning!Cardinality(S) <= PageLimit
<1> DEFINE pending == (1..sent) \ acknowledged
<1> DEFINE newer(w) == {v \in pending : v > w}
<1>0. sent \in Nat /\ PageLimit \in Nat \ {0}
  BY DEF WarnedTyped, Warning!AccountWarningsAssumption
<1>1. \A w \in S : w \in pending /\ Warning!Cardinality(newer(w)) < PageLimit
  BY DEF Warning!PendingWarnings
<1>2. S \subseteq 1..sent /\ S \subseteq Nat
  <2>1. \A w \in S : w \in 1..sent
    BY <1>1
  <2>2. \A w \in 1..sent : w \in Nat
    BY <1>0
  <2> QED BY <2>1, <2>2
<1>3. IsFiniteSet(S) /\ Warning!Cardinality(S) \in Nat
  BY <1>0, <1>2, SomeWarnings
<1>4. CASE S = {}
  BY <1>0, <1>2, <1>4, FS_EmptySet, CountsAgree
<1>5. CASE S # {}
  <2>1. PICK m \in S : \A n \in S : m <= n
    BY <1>2, <1>5, Smallest
  <2>2. S \ {m} \subseteq newer(m)
    <3>1. ASSUME NEW n \in S, n # m PROVE n > m /\ n \in pending
      <4>1. m <= n /\ m \in Nat /\ n \in Nat
        BY <1>2, <2>1
      <4>2. n > m
        BY <3>1, <4>1
      <4>3. n \in pending
        BY <1>1
      <4> QED BY <4>2, <4>3
    <3> QED BY <3>1
  <2>3. newer(m) \subseteq 1..sent
    OBVIOUS
  <2>4. IsFiniteSet(newer(m)) /\ Warning!Cardinality(newer(m)) \in Nat
    BY <1>0, <2>3, SomeWarnings
  <2>5. Warning!Cardinality(S \ {m}) <= Warning!Cardinality(newer(m))
    BY <2>2, <2>4, FS_Subset, CountsAgree
  <2>6. Warning!Cardinality(S \ {m}) = Warning!Cardinality(S) - 1
    BY <1>3, <2>1, FS_RemoveElement, CountsAgree
  <2>7. Warning!Cardinality(newer(m)) < PageLimit
    BY <1>1, <2>1
  <2> HIDE DEF newer
  <2> QED BY <1>0, <1>2, <1>3, <2>4, <2>5, <2>6, <2>7
<1> QED BY <1>4, <1>5

\* The page as it is opened.
LEMMA WarningsStart ==
  ASSUME Warning!AccountWarningsAssumption, Warning!Init
  PROVE  WarningsInv
<1>1. sent \in 0..WarningCount
  BY DEF Warning!Init, Warning!AccountWarningsAssumption
<1>2. signedIn \in BOOLEAN /\ open \in BOOLEAN
  BY DEF Warning!Init
<1>3. WarnedTyped
  BY <1>1, <1>2 DEF Warning!Init, WarnedTyped
<1>4. DialogTyped
  BY <1>1, <1>2 DEF Warning!Init, DialogTyped, Warning!None, Warning!AccountWarningsAssumption
<1>5. WarningCallsTyped /\ Warning!AcknowledgedWasShown /\ Warning!DialogCanBeAnswered
  BY DEF Warning!Init, WarningCallsTyped, Warning!AcknowledgedWasShown, Warning!DialogCanBeAnswered
<1> QED BY <1>3, <1>4, <1>5 DEF WarningsInv

\* A call keeps its type while warnings are sent and shown.
LEMMA CallStays ==
  ASSUME NEW c, WarningCallTyped(c), sent \in Nat, sent' \in Nat, sent' >= sent, seen \subseteq seen'
  PROVE  WarningCallTyped(c)'
<1>1. 1..sent \subseteq 1..sent'
  OBVIOUS
<1>2. SUBSET (1..sent) \subseteq SUBSET (1..sent')
  BY <1>1
<1>3. c.list \in SUBSET (1..sent')
  BY <1>2 DEF WarningCallTyped
<1>4. c \in [kind : {"me", "ack"}, warning : Nat,
             stage : {"sent", "answered", "failed", "gateways"}, list : SUBSET (1..sent'), id : Nat]
  BY <1>2 DEF WarningCallTyped
<1> QED BY <1>1, <1>4 DEF WarningCallTyped

\* A call that goes on.
LEMMA CallGoesOn ==
  ASSUME NEW c \in net, WarningCallTyped(c), NEW s \in {"sent", "answered", "failed", "gateways"},
         NEW l \in SUBSET (1..sent), Warning!Cardinality(l) <= PageLimit
  PROVE  /\ WarningCallTyped([c EXCEPT !.stage = s, !.list = l])
         /\ [c EXCEPT !.stage = s, !.list = l].kind = c.kind
  BY DEF WarningCallTyped

\* The calls under way, when one goes on.
LEMMA OneGoesOn ==
  ASSUME WarningsInv, NEW c \in net, NEW d, WarningCallTyped(d), d.kind = c.kind,
         net' = (net \ {c}) \cup {d}, UNCHANGED <<sent, Warning!dialog, timers>>
  PROVE  WarningCallsTyped' /\ Warning!DialogCanBeAnswered'
<1>1. \A b \in net' : WarningCallTyped(b)
  BY DEF WarningsInv, WarningCallsTyped
<1>2. WarningCallsTyped'
  BY <1>1 DEF WarningsInv, WarningCallsTyped, WarningCallTyped, Warning!dialog
<1>3. Warning!DialogCanBeAnswered'
  BY DEF WarningsInv, Warning!DialogCanBeAnswered, Warning!dialog
<1> QED BY <1>2, <1>3

\* What the calls do at the service.
LEMMA ServiceKeepsWarnings ==
  ASSUME Warning!AccountWarningsAssumption, WarningsInv, NEW c \in net,
      Warning!ServeMe(c) \/ Warning!AcknowledgeWarning(c)
  PROVE  WarningsInv'
<1>0. WarningCallTyped(c) /\ WarnedTyped
  BY DEF WarningsInv, WarningCallsTyped
<1>1. CASE Warning!ServeMe(c)
  <2> DEFINE d == [c EXCEPT !.stage = "answered", !.list = Warning!PendingWarnings]
  <2>1. Warning!PendingWarnings \in SUBSET (1..sent) /\ Warning!Cardinality(Warning!PendingWarnings) <= PageLimit
    BY <1>0, PageIsShort
  <2>2. WarningCallTyped(d) /\ d.kind = c.kind
    BY <1>0, <2>1, CallGoesOn
  <2>3. net' = (net \ {c}) \cup {d} /\ UNCHANGED <<Warning!server, signedIn, Warning!dialog, timers, Warning!bounds>>
    BY <1>1 DEF Warning!ServeMe
  <2> HIDE DEF d
  <2>4. WarningCallsTyped' /\ Warning!DialogCanBeAnswered'
    BY <2>2, <2>3, OneGoesOn DEF Warning!server
  <2>5. WarnedTyped' /\ DialogTyped' /\ Warning!AcknowledgedWasShown'
    BY <2>3 DEF WarningsInv, WarnedTyped, DialogTyped, Warning!AcknowledgedWasShown, Warning!server,
        Warning!dialog, Warning!bounds
  <2> QED BY <2>4, <2>5 DEF WarningsInv
<1>2. CASE Warning!AcknowledgeWarning(c)
  <2> DEFINE d == [c EXCEPT !.stage = "answered", !.list = Warning!PendingWarnings \ {c.warning}]
  <2>1. /\ Warning!PendingWarnings \ {c.warning} \in SUBSET (1..sent)
        /\ Warning!Cardinality(Warning!PendingWarnings \ {c.warning}) <= PageLimit
    BY <1>0, PageIsShort
  <2>2. WarningCallTyped(d) /\ d.kind = c.kind
    BY <1>0, <2>1, CallGoesOn
  <2>3. /\ net' = (net \ {c}) \cup {d} /\ UNCHANGED <<sent, signedIn, Warning!dialog, timers, Warning!bounds>>
        /\ acknowledged' = acknowledged \cup {c.warning}
        /\ c.warning \in 1..sent /\ c.warning \in seen
    BY <1>0, <1>2 DEF Warning!AcknowledgeWarning, WarningCallTyped
  <2> HIDE DEF d
  <2>4. WarningCallsTyped' /\ Warning!DialogCanBeAnswered'
    BY <2>2, <2>3, OneGoesOn
  <2>5. WarnedTyped' /\ DialogTyped' /\ Warning!AcknowledgedWasShown'
    BY <2>3 DEF WarningsInv, WarnedTyped, DialogTyped, Warning!AcknowledgedWasShown, Warning!dialog, Warning!bounds
  <2> QED BY <2>4, <2>5 DEF WarningsInv
<1> QED BY <1>1, <1>2

\* An answer is lost.
LEMMA LoseKeepsWarnings ==
  ASSUME Warning!AccountWarningsAssumption, WarningsInv, NEW c \in net, Warning!Lose(c)
  PROVE  WarningsInv'
<1> DEFINE d == [c EXCEPT !.stage = "failed", !.list = {}]
<1>1. WarningCallTyped(c) /\ WarnedTyped
  BY DEF WarningsInv, WarningCallsTyped
<1>2. {} \in SUBSET (1..sent) /\ Warning!Cardinality({}) <= PageLimit
  BY FS_EmptySet, CountsAgree DEF Warning!AccountWarningsAssumption
<1>3. WarningCallTyped(d) /\ d.kind = c.kind
  BY <1>1, <1>2, CallGoesOn
<1>4. net' = (net \ {c}) \cup {d} /\ UNCHANGED <<Warning!server, signedIn, Warning!dialog, timers, refreshes>>
  BY DEF Warning!Lose
<1> HIDE DEF d
<1>5. WarningCallsTyped' /\ Warning!DialogCanBeAnswered'
  BY <1>3, <1>4, OneGoesOn DEF Warning!server
<1>6. WarnedTyped' /\ DialogTyped' /\ Warning!AcknowledgedWasShown'
  BY <1>4 DEF WarningsInv, WarnedTyped, DialogTyped, Warning!AcknowledgedWasShown, Warning!server, Warning!dialog
<1> QED BY <1>5, <1>6 DEF WarningsInv

\* A list of warnings is shown, when there are any.
LEMMA ShowKeeps ==
  ASSUME WarningsInv, NEW batch \in SUBSET (1..sent), Warning!ShowAccountWarningIfNeeded(batch),
         sent' = sent, UNCHANGED acknowledged,
         \A c \in net : c.kind = "ack" => c \in net'
  PROVE  DialogTyped' /\ Warning!DialogCanBeAnswered' /\ Warning!AcknowledgedWasShown' /\ seen \subseteq seen'
<1>1. CASE batch = {}
  <2>1. UNCHANGED Warning!dialog
    BY <1>1 DEF Warning!ShowAccountWarningIfNeeded
  <2> QED BY <2>1 DEF WarningsInv, DialogTyped, Warning!DialogCanBeAnswered, Warning!AcknowledgedWasShown,
              Warning!dialog
<1>2. CASE batch # {}
  <2>1. sent \in Nat
    BY DEF WarningsInv, WarnedTyped
  <2>2. Warning!Max(batch) \in 1..sent
    BY <1>2, <2>1, Newest
  <2>3. open' = TRUE /\ active' = Warning!Max(batch) /\ seen' = seen \cup {Warning!Max(batch)}
    BY <1>2 DEF Warning!ShowAccountWarningIfNeeded, Warning!FirstPendingWarning
  <2>4. open' \in BOOLEAN
    BY <2>3
  <2>5. active' # Warning!None
    BY <2>1, <2>2, <2>3 DEF Warning!None
  <2> QED BY <2>1, <2>2, <2>3, <2>4, <2>5
          DEF WarningsInv, DialogTyped, Warning!DialogCanBeAnswered, Warning!AcknowledgedWasShown
<1> QED BY <1>1, <1>2

\* Calls that were typed and have not changed still are.
LEMMA CallsStay ==
  ASSUME WarningsInv, sent' \in Nat, sent' >= sent, seen \subseteq seen',
         net' \subseteq net, timers' \subseteq timers
  PROVE  WarningCallsTyped'
<1>1. sent \in Nat
  BY DEF WarningsInv, WarnedTyped
<1>2. \A c \in net' : WarningCallTyped(c)'
  BY <1>1, CallStays DEF WarningsInv, WarningCallsTyped
<1>3. SUBSET (1..sent) \subseteq SUBSET (1..sent')
  BY <1>1
<1> QED BY <1>2, <1>3 DEF WarningsInv, WarningCallsTyped

\* A refresh of the account goes on or fails.
LEMMA RefreshesKeepWarnings ==
  ASSUME Warning!AccountWarningsAssumption, WarningsInv, NEW c \in net,
         Warning!AccountArrives(c) \/ Warning!WarningArrives(c) \/ Warning!RefreshFails(c)
  PROVE  WarningsInv'
<1>0. WarningCallTyped(c) /\ WarnedTyped /\ sent \in Nat
  BY DEF WarningsInv, WarningCallsTyped, WarnedTyped
<1>1. CASE Warning!AccountArrives(c)
  <2> DEFINE d == [c EXCEPT !.stage = "gateways"]
  <2>1. WarningCallTyped(d) /\ d.kind = c.kind
    BY <1>0 DEF WarningCallTyped
  <2>2. /\ net' = (net \ {c}) \cup {d} /\ UNCHANGED <<Warning!server, Warning!dialog, timers, Warning!bounds>>
        /\ signedIn' \in BOOLEAN
    BY <1>1 DEF Warning!AccountArrives
  <2> HIDE DEF d
  <2>3. WarningCallsTyped' /\ Warning!DialogCanBeAnswered'
    BY <2>1, <2>2, OneGoesOn DEF Warning!server
  <2>4. WarnedTyped' /\ DialogTyped' /\ Warning!AcknowledgedWasShown'
    BY <2>2 DEF WarningsInv, WarnedTyped, DialogTyped, Warning!AcknowledgedWasShown, Warning!server,
        Warning!dialog, Warning!bounds
  <2> QED BY <2>3, <2>4 DEF WarningsInv
<1>2. CASE Warning!WarningArrives(c)
  <2>1. /\ c.kind = "me" /\ Warning!ShowAccountWarningIfNeeded(c.list) /\ net' = net \ {c}
        /\ UNCHANGED <<Warning!server, signedIn, timers, Warning!bounds>>
    BY <1>2 DEF Warning!WarningArrives
  <2>2. c.list \in SUBSET (1..sent) /\ \A b \in net : b.kind = "ack" => b \in net'
    BY <1>0, <2>1 DEF WarningCallTyped
  <2>3. DialogTyped' /\ Warning!DialogCanBeAnswered' /\ Warning!AcknowledgedWasShown' /\ seen \subseteq seen'
    BY <2>1, <2>2, ShowKeeps DEF Warning!server
  <2>4. WarningCallsTyped'
    BY <1>0, <2>1, <2>3, CallsStay DEF Warning!server
  <2>5. WarnedTyped'
    BY <2>1 DEF WarningsInv, WarnedTyped, Warning!server, Warning!bounds
  <2> QED BY <2>3, <2>4, <2>5 DEF WarningsInv
<1>3. CASE Warning!RefreshFails(c)
  <2>1. /\ c.kind = "me" /\ net' = net \ {c} /\ signedIn' \in BOOLEAN
        /\ UNCHANGED <<Warning!server, Warning!dialog, timers, Warning!bounds>>
    BY <1>3 DEF Warning!RefreshFails
  <2>2. WarningCallsTyped'
    BY <1>0, <2>1, CallsStay DEF Warning!server, Warning!dialog
  <2>3. WarnedTyped' /\ DialogTyped' /\ Warning!AcknowledgedWasShown' /\ Warning!DialogCanBeAnswered'
    BY <2>1 DEF WarningsInv, WarnedTyped, DialogTyped, Warning!AcknowledgedWasShown, Warning!DialogCanBeAnswered,
                Warning!server, Warning!dialog, Warning!bounds
  <2> QED BY <2>2, <2>3 DEF WarningsInv
<1> QED BY <1>1, <1>2, <1>3

\* An acknowledgement has ended: the dialog closes.
LEMMA AcknowledgementsKeepWarnings ==
  ASSUME Warning!AccountWarningsAssumption, WarningsInv, NEW c \in net,
         Warning!Acknowledged(c) \/ Warning!AcknowledgementFails(c)
  PROVE  WarningsInv'
<1>0. WarningCallTyped(c) /\ WarnedTyped /\ sent \in Nat
  BY DEF WarningsInv, WarningCallsTyped, WarnedTyped
<1>1. /\ open' = FALSE /\ net' = net \ {c} /\ UNCHANGED <<Warning!server, active, seen, Warning!bounds>>
      /\ timers' \subseteq timers \cup {c.list} /\ signedIn' \in BOOLEAN
  BY <1>0 DEF Warning!Acknowledged, Warning!AcknowledgementFails, WarnedTyped
<1>2. timers' \subseteq SUBSET (1..sent)
  BY <1>0, <1>1 DEF WarningsInv, WarningCallsTyped, WarningCallTyped
<1>3. \A b \in net' : WarningCallTyped(b)'
  BY <1>0, <1>1, CallStays DEF WarningsInv, WarningCallsTyped, Warning!server
<1>4. WarningCallsTyped'
  BY <1>1, <1>2, <1>3 DEF WarningCallsTyped, Warning!server
<1>5. open' \in BOOLEAN
  BY <1>1
<1>6. WarnedTyped' /\ DialogTyped' /\ Warning!AcknowledgedWasShown' /\ Warning!DialogCanBeAnswered'
  BY <1>1, <1>5 DEF WarningsInv, WarnedTyped, DialogTyped, Warning!AcknowledgedWasShown, Warning!DialogCanBeAnswered,
                Warning!server, Warning!bounds
<1> QED BY <1>4, <1>6 DEF WarningsInv

\* The timeout shows what is left.
LEMMA TimerKeepsWarnings ==
  ASSUME WarningsInv, NEW batch \in timers, Warning!TimerFires(batch)
  PROVE  WarningsInv'
<1>1. /\ Warning!ShowAccountWarningIfNeeded(batch) /\ timers' = timers \ {batch}
      /\ UNCHANGED <<Warning!server, signedIn, net, Warning!bounds>>
  BY DEF Warning!TimerFires
<1>2. batch \in SUBSET (1..sent) /\ sent \in Nat
  BY DEF WarningsInv, WarningCallsTyped, WarnedTyped
<1>3. DialogTyped' /\ Warning!DialogCanBeAnswered' /\ Warning!AcknowledgedWasShown' /\ seen \subseteq seen'
  BY <1>1, <1>2, ShowKeeps DEF Warning!server
<1>4. WarningCallsTyped'
  BY <1>1, <1>2, <1>3, CallsStay DEF Warning!server
<1>5. WarnedTyped'
  BY <1>1 DEF WarningsInv, WarnedTyped, Warning!server, Warning!bounds
<1> QED BY <1>3, <1>4, <1>5 DEF WarningsInv

\* Whatever the user and the administrators do.
LEMMA ClicksKeepWarnings ==
  ASSUME Warning!AccountWarningsAssumption, WarningsInv,
      Warning!WarnUser \/ Warning!Refresh \/ Warning!Dismiss \/ Warning!Logout
  PROVE  WarningsInv'
<1>0. WarnedTyped /\ sent \in Nat /\ WarningCount \in Nat /\ PageLimit \in Nat
  BY DEF WarningsInv, WarnedTyped, Warning!AccountWarningsAssumption
<1>1. CASE Warning!WarnUser
  <2>1. /\ sent' = sent + 1 /\ sent' \in 0..WarningCount
        /\ UNCHANGED <<acknowledged, signedIn, Warning!dialog, net, timers, Warning!bounds>>
    BY <1>0, <1>1 DEF Warning!WarnUser, WarnedTyped
  <2>2. 1..sent \subseteq 1..sent' /\ 0..sent \subseteq 0..sent'
    BY <1>0, <2>1
  <2>3. WarningCallsTyped'
    BY <1>0, <2>1, CallsStay DEF Warning!dialog
  <2>4. WarnedTyped' /\ DialogTyped'
    BY <2>1, <2>2 DEF WarningsInv, WarnedTyped, DialogTyped, Warning!dialog, Warning!bounds
  <2>5. Warning!AcknowledgedWasShown' /\ Warning!DialogCanBeAnswered'
    BY <2>1 DEF WarningsInv, Warning!AcknowledgedWasShown, Warning!DialogCanBeAnswered, Warning!dialog
  <2> QED BY <2>3, <2>4, <2>5 DEF WarningsInv
<1>2. ASSUME NEW k \in {"me", "ack"}, NEW w \in Nat, k = "ack" => w \in 1..sent /\ w \in seen
      PROVE  WarningCallTyped(Warning!Call(k, w)) /\ Warning!Call(k, w).kind = k
  <2>1. Warning!Cardinality({}) <= PageLimit
    BY <1>0, FS_EmptySet, CountsAgree
  <2> QED BY <1>0, <1>2, <2>1 DEF Warning!Call, WarningCallTyped, WarnedTyped
<1>3. CASE Warning!Refresh
  <2>1. /\ net' = net \cup {Warning!Call("me", Warning!None)} /\ refreshes' = refreshes + 1
        /\ UNCHANGED <<Warning!server, signedIn, Warning!dialog, timers, errors>>
    BY <1>3 DEF Warning!Refresh
  <2>2. WarningCallTyped(Warning!Call("me", Warning!None))
    BY <1>2 DEF Warning!None
  <2>3. WarningCallsTyped'
    BY <2>1, <2>2 DEF WarningsInv, WarningCallsTyped, WarningCallTyped, Warning!server, Warning!dialog
  <2>4. WarnedTyped' /\ DialogTyped' /\ Warning!AcknowledgedWasShown' /\ Warning!DialogCanBeAnswered'
    BY <2>1 DEF WarningsInv, WarnedTyped, DialogTyped, Warning!AcknowledgedWasShown, Warning!DialogCanBeAnswered,
                Warning!server, Warning!dialog
  <2> QED BY <2>3, <2>4 DEF WarningsInv
<1>4. CASE Warning!Dismiss /\ active = Warning!None
  <2>1. open' = FALSE /\ UNCHANGED <<active, net, Warning!server, signedIn, seen, timers, Warning!bounds>>
    BY <1>4 DEF Warning!Dismiss
  <2>2. open' \in BOOLEAN
    BY <2>1
  <2>3. WarningCallsTyped'
    BY <1>0, <2>1, CallsStay DEF Warning!server
  <2>4. WarnedTyped' /\ DialogTyped' /\ Warning!AcknowledgedWasShown' /\ Warning!DialogCanBeAnswered'
    BY <2>1, <2>2 DEF WarningsInv, WarnedTyped, DialogTyped, Warning!AcknowledgedWasShown,
        Warning!DialogCanBeAnswered,
                Warning!server, Warning!bounds
  <2> QED BY <2>3, <2>4 DEF WarningsInv
<1>5. CASE Warning!Dismiss /\ active # Warning!None
  <2>1. /\ active' = Warning!None /\ net' = net \cup {Warning!Call("ack", active)}
        /\ UNCHANGED <<open, Warning!server, signedIn, seen, timers, Warning!bounds>>
    BY <1>5 DEF Warning!Dismiss
  <2>2. active \in 1..sent /\ active \in seen /\ active \in Nat
    BY <1>0, <1>5 DEF WarningsInv, DialogTyped, Warning!None
  <2>3. WarningCallTyped(Warning!Call("ack", active)) /\ Warning!Call("ack", active).kind = "ack"
    BY <1>2, <2>2
  <2>4. WarningCallsTyped'
    BY <2>1, <2>3 DEF WarningsInv, WarningCallsTyped, WarningCallTyped, Warning!server
  <2>5. WarnedTyped' /\ DialogTyped' /\ Warning!AcknowledgedWasShown'
    BY <1>0, <2>1 DEF WarningsInv, WarnedTyped, DialogTyped, Warning!AcknowledgedWasShown, Warning!server,
        Warning!bounds, Warning!None
  <2>6. Warning!DialogCanBeAnswered'
    BY <2>1, <2>3 DEF Warning!DialogCanBeAnswered
  <2> QED BY <2>4, <2>5, <2>6 DEF WarningsInv
<1>6. CASE Warning!Logout
  <2>1. signedIn' \in BOOLEAN /\ UNCHANGED <<Warning!server, Warning!dialog, net, timers, Warning!bounds>>
    BY <1>6 DEF Warning!Logout
  <2>2. WarningCallsTyped'
    BY <1>0, <2>1, CallsStay DEF Warning!server, Warning!dialog
  <2>3. WarnedTyped' /\ DialogTyped' /\ Warning!AcknowledgedWasShown' /\ Warning!DialogCanBeAnswered'
    BY <2>1 DEF WarningsInv, WarnedTyped, DialogTyped, Warning!AcknowledgedWasShown, Warning!DialogCanBeAnswered,
                Warning!server, Warning!dialog, Warning!bounds
  <2> QED BY <2>2, <2>3 DEF WarningsInv
<1> QED BY <1>1, <1>3, <1>4, <1>5, <1>6

\* Every step keeps the invariant.
LEMMA WarningsStep ==
  ASSUME Warning!AccountWarningsAssumption, WarningsInv, [Warning!Next]_(Warning!vars)
  PROVE  WarningsInv'
<1>1. CASE UNCHANGED Warning!vars
  BY <1>1 DEF WarningsInv, WarnedTyped, DialogTyped, WarningCallsTyped, WarningCallTyped,
      Warning!AcknowledgedWasShown,
              Warning!DialogCanBeAnswered, Warning!vars, Warning!server, Warning!dialog, Warning!bounds
<1>2. CASE Warning!Answers
  BY <1>2, ServiceKeepsWarnings, RefreshesKeepWarnings, AcknowledgementsKeepWarnings DEF Warning!Answers,
      Warning!Answer
<1>3. CASE Warning!Timers
  BY <1>3, TimerKeepsWarnings DEF Warning!Timers
<1> QED BY <1>1, <1>2, <1>3, LoseKeepsWarnings, ClicksKeepWarnings DEF Warning!Next

\* What the invariant says of the types.
LEMMA WarningsTyped ==
  ASSUME WarningsInv
  PROVE  Warning!TypeOK /\ Warning!AcknowledgedWasShown /\ Warning!DialogCanBeAnswered
  BY DEF WarningsInv, WarnedTyped, DialogTyped, WarningCallsTyped, WarningCallTyped, Warning!TypeOK

\* However refreshes, acknowledgements and timeouts overlap, a warning is acknowledged
\* only when it was shown, and the dialog can be closed whenever it is open.
THEOREM WarningsAlwaysRead ==
  ASSUME Warning!AccountWarningsAssumption
  PROVE  Warning!Spec => [](Warning!TypeOK /\ Warning!AcknowledgedWasShown /\ Warning!DialogCanBeAnswered)
<1>1. Warning!Init => WarningsInv
  BY WarningsStart
<1>2. WarningsInv /\ [Warning!Next]_(Warning!vars) => WarningsInv'
  BY WarningsStep
<1>3. WarningsInv => Warning!TypeOK /\ Warning!AcknowledgedWasShown /\ Warning!DialogCanBeAnswered
  BY WarningsTyped
<1> QED BY <1>1, <1>2, <1>3, PTL DEF Warning!Spec

(* A page of the history, from the entry "top" downwards *)
RunsFrom(p, top) ==
  /\ p \in Seq(Nat) /\ Len(p) <= PageSize /\ Len(p) <= top
  /\ \A i \in 1..Len(p) : p[i] = top + 1 - i

Shows(lines, e) == \E i \in 1..Len(lines) : lines[i] = e

(* Whatever is above "bottom" and not newer than the first row is shown. *)
ShownAbove(lines, bottom) ==
  lines # <<>> => \A e \in Nat : bottom < e /\ e <= lines[1] => Shows(lines, e)

NoGap(lines) ==
  \A i \in 1..Len(lines) : \A e \in Nat : lines[i] <= e /\ e <= lines[1] => Shows(lines, e)

(* A list, when there are n entries *)
ListTyped(v, n) ==
  /\ DOMAIN v = {"rows", "offset", "more"}
  /\ v.rows \in Seq(Nat) /\ v.offset \in 0..n /\ v.more \in BOOLEAN
  /\ \A i \in 1..Len(v.rows) : v.rows[i] \in 1..n

ListInv(v, n) ==
  /\ ListTyped(v, n)
  /\ NoGap(v.rows)
  /\ ShownAbove(v.rows, n - v.offset)

ArrivalTyped(l) ==
  /\ DOMAIN l = {"list", "append", "offset", "id", "answer"}
  /\ l.list \in {"view", "drawer"} /\ l.append \in BOOLEAN

(* What comes with a load goes on where its list ends. *)
ArrivalInv(v, l, n) ==
  /\ l.offset = v.offset
  /\ l.answer # Credits!NoPage =>
       \E top \in 0..(n - v.offset) : RunsFrom(l.answer, top) /\ ShownAbove(v.rows, top)

ArrivalsInv(v, name, loading, n) == \A l \in loading : l.list = name => ArrivalInv(v, l, n)

ArrivalsTyped ==
  /\ \A l \in net : ArrivalTyped(l)
  /\ \A l, m \in net : l.list = m.list => l = m

CachedInv == cached # Credits!NoPage => \E top \in 0..entries : RunsFrom(cached, top)

TabInv == ListInv(view, entries) /\ ArrivalsInv(view, "view", net, entries)
DrawerInv == ListInv(drawer, entries) /\ ArrivalsInv(drawer, "drawer", net, entries)

CreditsInv ==
  /\ entries \in 0..MaxEntries
  /\ ArrivalsTyped /\ CachedInv
  /\ TabInv /\ DrawerInv

\* What the service answers is a page.
LEMMA HistoryIsPage ==
  ASSUME Credits!CreditsViewAssumption, entries \in Nat, NEW offset \in 0..entries
  PROVE  RunsFrom(Credits!WalletHistory(offset), entries - offset)
<1> DEFINE newestFirst == [i \in 1..entries |-> entries + 1 - i]
           last == IF offset + PageSize < entries THEN offset + PageSize ELSE entries
<1>0. PageSize \in Nat \ {0}
  BY DEF Credits!CreditsViewAssumption
<1>1. last \in Nat /\ offset <= last /\ last <= entries /\ last <= offset + PageSize
  BY <1>0
<1>2. newestFirst \in Seq(Nat) /\ Len(newestFirst) = entries
  OBVIOUS
<1>3. Credits!WalletHistory(offset) = SubSeq(newestFirst, offset + 1, last)
  BY DEF Credits!WalletHistory
<1>4. \A i \in 1..entries : newestFirst[i] = entries + 1 - i
  OBVIOUS
<1> HIDE DEF newestFirst, last
<1>5. /\ SubSeq(newestFirst, offset + 1, last) \in Seq(Nat)
      /\ Len(SubSeq(newestFirst, offset + 1, last)) = last - offset
      /\ \A i \in 1..(last - offset) :
           SubSeq(newestFirst, offset + 1, last)[i] = newestFirst[offset + i]
  <2>1. offset + 1 \in Int /\ last \in Int /\ offset \in Nat
    BY <1>1
  <2>2. \A i \in (offset + 1)..last : newestFirst[i] \in Nat
    BY <1>1, <1>2
  <2>3. /\ SubSeq(newestFirst, offset + 1, last) \in Seq(Nat)
        /\ Len(SubSeq(newestFirst, offset + 1, last)) =
             (IF offset + 1 <= last THEN last - (offset + 1) + 1 ELSE 0)
        /\ \A i \in 1..(last - (offset + 1) + 1) :
             SubSeq(newestFirst, offset + 1, last)[i] = newestFirst[offset + 1 + i - 1]
    BY <2>1, <2>2, SubSeqProperties
  <2>4. Len(SubSeq(newestFirst, offset + 1, last)) = last - offset
    BY <1>1, <2>1, <2>3
  <2>5. \A i \in 1..(last - offset) : offset + 1 + i - 1 = offset + i
    BY <2>1
  <2>6. 1..(last - offset) = 1..(last - (offset + 1) + 1)
    BY <1>1, <2>1
  <2> QED BY <2>3, <2>4, <2>5, <2>6
<1>6. \A i \in 1..(last - offset) : offset + i \in 1..entries
  BY <1>1
<1> QED BY <1>0, <1>1, <1>3, <1>4, <1>5, <1>6 DEF RunsFrom

\* A page has no gap.
LEMMA PageHasNoGap ==
  ASSUME NEW top \in Nat, NEW p, RunsFrom(p, top)
  PROVE  /\ p \in Seq(Nat) /\ Len(p) \in Nat /\ Len(p) <= top
         /\ \A i \in 1..Len(p) : p[i] \in 1..top
         /\ \A e \in Nat : top - Len(p) < e /\ e <= top => Shows(p, e)
         /\ NoGap(p) /\ ShownAbove(p, top - Len(p))
<1>1. p \in Seq(Nat) /\ Len(p) \in Nat /\ Len(p) <= top /\ \A i \in 1..Len(p) : p[i] = top + 1 - i
  BY DEF RunsFrom
<1>2. ASSUME NEW e \in Nat, top - Len(p) < e, e <= top PROVE Shows(p, e)
  <2>1. top + 1 - e \in 1..Len(p)
    BY <1>1, <1>2
  <2>2. p[top + 1 - e] = e
    BY <1>1, <1>2, <2>1
  <2> QED BY <2>1, <2>2 DEF Shows
<1>3. p # <<>> => p[1] = top
  BY <1>1
<1>4. \A i \in 1..Len(p) : p[i] \in 1..top /\ p[i] > top - Len(p)
  BY <1>1
<1>5. ShownAbove(p, top - Len(p))
  BY <1>2, <1>3 DEF ShownAbove
<1>6. ASSUME NEW i \in 1..Len(p), NEW e \in Nat, p[i] <= e, e <= p[1] PROVE Shows(p, e)
  <2>1. p[1] = top
    BY <1>1, <1>3
  <2>2. top - Len(p) < e
    BY <1>1, <1>4, <1>6
  <2> QED BY <1>2, <1>6, <2>1, <2>2
<1>7. NoGap(p)
  BY <1>6 DEF NoGap
<1> QED BY <1>1, <1>2, <1>4, <1>5, <1>7

\* A page that is appended to a list that is shown down to it.
LEMMA AppendedHasNoGap ==
  ASSUME NEW lines \in Seq(Nat), NEW top \in Nat, NEW p, RunsFrom(p, top),
         NoGap(lines), ShownAbove(lines, top)
  PROVE  /\ lines \o p \in Seq(Nat)
         /\ \A i \in 1..Len(lines \o p) :
              \/ i \in 1..Len(lines) /\ (lines \o p)[i] = lines[i]
              \/ (lines \o p)[i] \in 1..top
         /\ NoGap(lines \o p) /\ ShownAbove(lines \o p, top - Len(p))
<1> DEFINE all == lines \o p
<1>0. /\ p \in Seq(Nat) /\ Len(p) \in Nat /\ Len(p) <= top
      /\ \A i \in 1..Len(p) : p[i] \in 1..top
      /\ \A e \in Nat : top - Len(p) < e /\ e <= top => Shows(p, e)
      /\ NoGap(p) /\ ShownAbove(p, top - Len(p))
  BY PageHasNoGap
<1>1. /\ all \in Seq(Nat) /\ Len(all) = Len(lines) + Len(p) /\ Len(lines) \in Nat
      /\ \A i \in 1..Len(lines) : all[i] = lines[i]
      /\ \A i \in 1..Len(p) : all[Len(lines) + i] = p[i]
  BY <1>0
<1>2. \A i \in 1..Len(all) : i \in 1..Len(lines) \/ (i - Len(lines) \in 1..Len(p) /\ all[i] = p[i - Len(lines)])
  BY <1>0, <1>1
<1>3. CASE lines = <<>>
  <2>1. all = p
    BY <1>0, <1>3
  <2> QED BY <1>0, <2>1
<1>4. CASE lines # <<>>
  <2> HIDE DEF all
  <2>1. all[1] = lines[1] /\ 1 \in 1..Len(lines)
    BY <1>1, <1>4
  <2>2. ASSUME NEW e \in Nat, Shows(lines, e) \/ Shows(p, e) PROVE Shows(all, e)
    <3>1. CASE Shows(lines, e)
      BY <1>0, <1>1, <3>1 DEF Shows
    <3>2. CASE Shows(p, e)
      <4>1. PICK i \in 1..Len(p) : p[i] = e
        BY <3>2 DEF Shows
      <4>2. all[Len(lines) + i] = e
        BY <1>1, <4>1
      <4>3. Len(all) = Len(lines) + Len(p) /\ Len(lines) \in Nat /\ Len(p) \in Nat
        BY <1>0, <1>1
      <4>4. Len(lines) + i \in 1..Len(all)
        BY <4>3
      <4> QED BY <4>2, <4>4 DEF Shows
    <3> QED BY <2>2, <3>1, <3>2
  <2>3. ASSUME NEW e \in Nat, top - Len(p) < e, e <= all[1] PROVE Shows(all, e)
    <3>1. CASE e <= top
      BY <1>0, <2>2, <2>3, <3>1
    <3>2. CASE e > top
      BY <1>4, <2>1, <2>2, <2>3, <3>2 DEF ShownAbove
    <3> QED BY <3>1, <3>2
  <2>4. ASSUME NEW i \in 1..Len(all), NEW e \in Nat, all[i] <= e, e <= all[1] PROVE Shows(all, e)
    <3>1. CASE i \in 1..Len(lines)
      BY <1>1, <2>1, <2>2, <2>4, <3>1 DEF NoGap
    <3>2. CASE i - Len(lines) \in 1..Len(p) /\ all[i] = p[i - Len(lines)]
      <4>1. p[i - Len(lines)] = top + 1 - (i - Len(lines))
        BY <3>2 DEF RunsFrom
      <4>2. top - Len(p) < e
        BY <1>0, <1>1, <2>4, <3>2, <4>1
      <4> QED BY <2>3, <2>4, <4>2
    <3> QED BY <1>2, <3>1, <3>2
  <2>5. NoGap(all) /\ ShownAbove(all, top - Len(p))
    BY <2>3, <2>4 DEF NoGap, ShownAbove
  <2>6. \A i \in 1..Len(all) : (i \in 1..Len(lines) /\ all[i] = lines[i]) \/ all[i] \in 1..top
    BY <1>0, <1>1, <1>2
  <2>7. all \in Seq(Nat)
    BY <1>1
  <2> QED BY <2>5, <2>6, <2>7 DEF all
<1> QED BY <1>3, <1>4

\* Entries are added.
LEMMA ListGrows ==
  ASSUME NEW n \in Nat, NEW m \in Nat, n <= m, NEW v, ListInv(v, n)
  PROVE  /\ ListInv(v, m)
         /\ \A l : ArrivalInv(v, l, n) => ArrivalInv(v, l, m)
<1>1. v.offset \in 0..n /\ v.offset \in 0..m /\ n - v.offset <= m - v.offset
  BY DEF ListInv, ListTyped
<1>2. ListTyped(v, m)
  BY <1>1 DEF ListInv, ListTyped
<1>3. ShownAbove(v.rows, m - v.offset)
  BY <1>1 DEF ListInv, ShownAbove
<1>4. 0..(n - v.offset) \subseteq 0..(m - v.offset)
  BY <1>1
<1>5. \A l : ArrivalInv(v, l, n) => ArrivalInv(v, l, m)
  BY <1>4 DEF ArrivalInv
<1> QED BY <1>2, <1>3, <1>5 DEF ListInv

\* An answer is rendered.
LEMMA RenderedKeeps ==
  ASSUME Credits!CreditsViewAssumption, NEW n \in Nat, NEW v, ListInv(v, n), NEW l, ArrivalTyped(l),
         ArrivalInv(v, l, n), l.answer # Credits!NoPage
  PROVE  ListInv(Credits!Rendered(v, l.append, l.answer), n)
<1> DEFINE p == l.answer
           lines == IF l.append THEN v.rows \o p ELSE p
           more == IF p = <<>> /\ ~l.append THEN v.more ELSE Len(p) >= PageSize
           r == [rows |-> lines, offset |-> v.offset + Len(p), more |-> more]
<1>0. v.offset \in 0..n /\ v.more \in BOOLEAN /\ l.append \in BOOLEAN
  BY DEF ListInv, ListTyped, ArrivalTyped
<1>1. PICK top \in 0..(n - v.offset) : RunsFrom(p, top) /\ ShownAbove(v.rows, top)
  BY DEF ArrivalInv
<1>2. top \in Nat /\ top <= n - v.offset /\ top <= n
  BY <1>0, <1>1
<1>3. /\ p \in Seq(Nat) /\ Len(p) \in Nat /\ Len(p) <= top
      /\ \A i \in 1..Len(p) : p[i] \in 1..top
      /\ NoGap(p) /\ ShownAbove(p, top - Len(p))
  BY <1>1, <1>2, PageHasNoGap
<1>4. more \in BOOLEAN
  <2>1. (Len(p) >= PageSize) \in BOOLEAN
    OBVIOUS
  <2>2. CASE p = <<>> /\ ~l.append
    BY <1>0, <2>2
  <2>3. CASE ~(p = <<>> /\ ~l.append)
    BY <2>1, <2>3
  <2> QED BY <2>2, <2>3
<1>5. Credits!Rendered(v, l.append, l.answer) = r
  BY DEF Credits!Rendered
<1>6. /\ lines \in Seq(Nat) /\ NoGap(lines) /\ ShownAbove(lines, top - Len(p))
      /\ \A i \in 1..Len(lines) : lines[i] \in 1..n
  <2>1. CASE l.append
    <3>1. v.rows \in Seq(Nat) /\ NoGap(v.rows) /\ \A i \in 1..Len(v.rows) : v.rows[i] \in 1..n
      BY DEF ListInv, ListTyped
    <3>2. lines = v.rows \o p
      BY <2>1
    <3> HIDE DEF p, lines
    <3>3. /\ lines \in Seq(Nat) /\ NoGap(lines) /\ ShownAbove(lines, top - Len(p))
          /\ \A i \in 1..Len(lines) :
               \/ i \in 1..Len(v.rows) /\ lines[i] = v.rows[i]
               \/ lines[i] \in 1..top
      BY <1>1, <1>2, <3>1, <3>2, AppendedHasNoGap
    <3>4. 1..top \subseteq 1..n
      BY <1>2
    <3> QED BY <3>1, <3>3, <3>4
  <2>2. CASE ~l.append
    <3>1. 1..top \subseteq 1..n
      BY <1>2
    <3> QED BY <1>3, <2>2, <3>1
  <2> QED BY <2>1, <2>2
<1> HIDE DEF p, lines, more
<1>7. v.offset + Len(p) \in 0..n /\ top - Len(p) <= n - (v.offset + Len(p))
  BY <1>0, <1>2, <1>3
<1>8. ShownAbove(lines, n - (v.offset + Len(p)))
  BY <1>2, <1>3, <1>6, <1>7 DEF ShownAbove
<1>9. /\ DOMAIN r = {"rows", "offset", "more"}
      /\ r.rows = lines /\ r.offset = v.offset + Len(p) /\ r.more = more
  OBVIOUS
<1> HIDE DEF r
<1> QED BY <1>4, <1>5, <1>6, <1>7, <1>8, <1>9 DEF ListInv, ListTyped

\* A list whose rows are taken away.
LEMMA ClearedKeeps ==
  ASSUME NEW n \in Nat, NEW v, ListInv(v, n)
  PROVE  /\ ListInv([v EXCEPT !.rows = <<>>], n)
         /\ ListInv([v EXCEPT !.rows = <<>>, !.offset = 0], n)
         /\ [v EXCEPT !.rows = <<>>, !.offset = 0].offset = 0
<1> DEFINE a == [v EXCEPT !.rows = <<>>]
           b == [v EXCEPT !.rows = <<>>, !.offset = 0]
<1>1. DOMAIN v = {"rows", "offset", "more"} /\ v.offset \in 0..n /\ v.more \in BOOLEAN
  BY DEF ListInv, ListTyped
<1>2. /\ DOMAIN a = {"rows", "offset", "more"} /\ a.rows = <<>>
      /\ a.offset = v.offset /\ a.more = v.more
  BY <1>1
<1>3. /\ DOMAIN b = {"rows", "offset", "more"} /\ b.rows = <<>>
      /\ b.offset = 0 /\ b.more = v.more
  BY <1>1
<1> HIDE DEF a, b
<1>4. <<>> \in Seq(Nat) /\ Len(<<>>) = 0 /\ 0 \in 0..n
  OBVIOUS
<1>5. NoGap(<<>>) /\ \A k : ShownAbove(<<>>, k)
  BY <1>4 DEF NoGap, ShownAbove
<1>6. ListInv(a, n)
  BY <1>1, <1>2, <1>4, <1>5 DEF ListInv, ListTyped
<1>7. ListInv(b, n)
  BY <1>1, <1>3, <1>4, <1>5 DEF ListInv, ListTyped
<1> QED BY <1>3, <1>6, <1>7 DEF a, b

\* The page of the last visit.
LEMMA CachedShown ==
  ASSUME NEW n \in Nat, NEW top \in 0..n, NEW p, RunsFrom(p, top), NEW b \in BOOLEAN
  PROVE  ListInv([rows |-> p, offset |-> 0, more |-> b], n)
<1> DEFINE r == [rows |-> p, offset |-> 0, more |-> b]
<1>1. top \in Nat /\ 1..top \subseteq 1..n
  OBVIOUS
<1>2. /\ p \in Seq(Nat) /\ Len(p) \in Nat /\ Len(p) <= top
      /\ \A i \in 1..Len(p) : p[i] \in 1..top
      /\ NoGap(p)
  BY <1>1, PageHasNoGap
<1>3. \A i \in 1..Len(p) : p[i] \in 1..n
  BY <1>1, <1>2
<1>4. ShownAbove(p, n - 0)
  <2>1. p # <<>> => p[1] \in 1..n
    BY <1>2, <1>3
  <2> QED BY <2>1 DEF ShownAbove
<1>5. DOMAIN r = {"rows", "offset", "more"} /\ r.rows = p /\ r.offset = 0 /\ r.more = b
  OBVIOUS
<1> HIDE DEF r
<1>6. ListInv(r, n)
  BY <1>2, <1>3, <1>4, <1>5 DEF ListInv, ListTyped
<1> QED BY <1>6 DEF r

\* A load is asked for, at the end of its list.
LEMMA AskKeepsLists ==
  ASSUME CreditsInv, Patient, NEW name \in {"view", "drawer"}, NEW append \in BOOLEAN, NEW v,
         Credits!Ask(name, append, v.offset)
  PROVE  /\ ArrivalsTyped' /\ ArrivalsInv(v, name, net', entries)
         /\ \A w, other : other # name /\ ArrivalsInv(w, other, net, entries) => ArrivalsInv(w, other, net', entries)
<1> DEFINE l == Credits!Load(name, append, v.offset)
<1>1. net' = net \cup {l} /\ \A m \in net : m.list # name
  BY DEF Credits!Ask, Credits!Waiting
<1>2. l.list = name /\ l.offset = v.offset /\ l.answer = Credits!NoPage /\ ArrivalTyped(l)
  BY DEF Credits!Load, ArrivalTyped
<1> HIDE DEF l
<1>3. ArrivalsTyped'
  BY <1>1, <1>2 DEF CreditsInv, ArrivalsTyped
<1>4. ArrivalInv(v, l, entries)
  BY <1>2 DEF ArrivalInv
<1>5. ArrivalsInv(v, name, net', entries)
  BY <1>1, <1>4 DEF ArrivalsInv
<1>6. ASSUME NEW w, NEW other, other # name, ArrivalsInv(w, other, net, entries)
      PROVE  ArrivalsInv(w, other, net', entries)
  BY <1>1, <1>2, <1>6 DEF ArrivalsInv
<1> QED BY <1>3, <1>5, <1>6

\* A load has ended.
LEMMA DropKeeps ==
  ASSUME CreditsInv, NEW l \in net, net' = net \ {l}
  PROVE  /\ ArrivalsTyped'
         /\ \A v : ArrivalsInv(v, l.list, net', entries)
         /\ \A w, other : ArrivalsInv(w, other, net, entries) => ArrivalsInv(w, other, net', entries)
  BY DEF CreditsInv, ArrivalsTyped, ArrivalsInv

\* The page as it is opened.
LEMMA CreditsStart ==
  ASSUME Credits!CreditsViewAssumption, Credits!Init
  PROVE  CreditsInv
<1>1. entries \in 0..MaxEntries /\ entries \in Nat
  BY DEF Credits!Init, Credits!CreditsViewAssumption
<1>2. RunsFrom(<<>>, 0)
  BY DEF RunsFrom, Credits!CreditsViewAssumption
<1>3. FALSE \in BOOLEAN
  OBVIOUS
<1>4. ListInv(Credits!Unloaded, entries)
  <2>1. 0 \in 0..entries
    BY <1>1
  <2>2. ListInv([rows |-> <<>>, offset |-> 0, more |-> FALSE], entries)
    BY <1>1, <1>2, <1>3, <2>1, CachedShown
  <2> QED BY <2>2 DEF Credits!Unloaded
<1> QED BY <1>1, <1>4 DEF Credits!Init, CreditsInv, ArrivalsTyped, CachedInv, TabInv, DrawerInv, ArrivalsInv

\* An entry is added.
LEMMA NewEntryKeeps ==
  ASSUME Credits!CreditsViewAssumption, CreditsInv, Credits!NewEntry
  PROVE  CreditsInv'
<1>1. /\ entries \in Nat /\ entries' \in Nat /\ entries <= entries' /\ entries' \in 0..MaxEntries
      /\ UNCHANGED <<view, cached, drawer, net, loads>>
  BY DEF Credits!NewEntry, CreditsInv, Credits!CreditsViewAssumption
<1>2. ArrivalsTyped'
  BY <1>1 DEF CreditsInv, ArrivalsTyped
<1>3. 0..entries \subseteq 0..entries'
  BY <1>1
<1>4. CachedInv'
  BY <1>1, <1>3 DEF CreditsInv, CachedInv
<1>5. ListInv(view, entries') /\ ListInv(drawer, entries')
  BY <1>1, ListGrows DEF CreditsInv, TabInv, DrawerInv
<1>6. ArrivalsInv(view, "view", net, entries') /\ ArrivalsInv(drawer, "drawer", net, entries')
  BY <1>1, ListGrows DEF CreditsInv, TabInv, DrawerInv, ArrivalsInv
<1>7. TabInv' /\ DrawerInv'
  BY <1>1, <1>5, <1>6 DEF TabInv, DrawerInv
<1> QED BY <1>1, <1>2, <1>4, <1>7 DEF CreditsInv

\* A load is served.
LEMMA ServeKeeps ==
  ASSUME Credits!CreditsViewAssumption, CreditsInv, NEW l \in net, Credits!Serve(l)
  PROVE  CreditsInv'
<1> DEFINE page == Credits!WalletHistory(l.offset)
           d == [l EXCEPT !.answer = page]
<1>0. entries \in Nat /\ ArrivalTyped(l)
  BY DEF CreditsInv, Credits!CreditsViewAssumption, ArrivalsTyped
<1>1. net' = (net \ {l}) \cup {d} /\ UNCHANGED <<entries, view, cached, drawer, loads>>
  BY DEF Credits!Serve
<1>2. /\ d.list = l.list /\ d.append = l.append /\ d.offset = l.offset /\ d.answer = page
      /\ DOMAIN d = DOMAIN l
  BY <1>0 DEF ArrivalTyped
<1> HIDE DEF d, page
<1>3. ArrivalTyped(d)
  BY <1>0, <1>2 DEF ArrivalTyped
<1>4. ArrivalsTyped'
  BY <1>1, <1>2, <1>3 DEF CreditsInv, ArrivalsTyped
<1>5. ASSUME NEW v, ListInv(v, entries), ArrivalInv(v, l, entries)
      PROVE  ArrivalInv(v, d, entries)
  <2>1. l.offset = v.offset /\ v.offset \in 0..entries
    BY <1>5 DEF ArrivalInv, ListInv, ListTyped
  <2>2. RunsFrom(page, entries - v.offset)
    BY <1>0, <2>1, HistoryIsPage DEF page
  <2>3. entries - v.offset \in 0..(entries - v.offset)
    BY <1>0, <2>1
  <2>4. ShownAbove(v.rows, entries - v.offset)
    BY <1>5 DEF ListInv
  <2> QED BY <1>2, <2>1, <2>2, <2>3, <2>4 DEF ArrivalInv
<1>6. ASSUME NEW v, NEW name, ListInv(v, entries), ArrivalsInv(v, name, net, entries)
      PROVE  ArrivalsInv(v, name, net', entries)
  BY <1>1, <1>2, <1>5, <1>6 DEF ArrivalsInv
<1>7. TabInv' /\ DrawerInv' /\ CachedInv'
  BY <1>1, <1>6 DEF CreditsInv, TabInv, DrawerInv, CachedInv
<1> QED BY <1>1, <1>4, <1>7 DEF CreditsInv

\* The tab is opened, or more is asked for.
LEMMA TabAsksKeeps ==
  ASSUME Credits!CreditsViewAssumption, Patient, CreditsInv, Credits!OpenTab \/ Credits!LoadMoreInTab
  PROVE  CreditsInv'
<1>0. entries \in Nat /\ ListInv(view, entries)
  BY DEF CreditsInv, Credits!CreditsViewAssumption, TabInv
<1>1. CASE Credits!OpenTab
  <2>1. ListInv(view', entries) /\ view'.offset = 0
    <3>1. CASE cached = Credits!NoPage
      BY <1>0, <1>1, <3>1, ClearedKeeps DEF Credits!OpenTab
    <3>2. CASE cached # Credits!NoPage
      <4>1. PICK top \in 0..entries : RunsFrom(cached, top)
        BY <3>2 DEF CreditsInv, CachedInv
      <4>2. (Len(cached) >= PageSize) \in BOOLEAN
        OBVIOUS
      <4>3. view' = [rows |-> cached, offset |-> 0, more |-> Len(cached) >= PageSize]
        BY <1>1, <3>2 DEF Credits!OpenTab
      <4>4. ListInv([rows |-> cached, offset |-> 0, more |-> Len(cached) >= PageSize], entries)
        BY <1>0, <4>1, <4>2, CachedShown
      <4> QED BY <4>3, <4>4
    <3> QED BY <3>1, <3>2
  <2>2. Credits!Ask("view", FALSE, view'.offset) /\ UNCHANGED <<entries, cached, drawer>>
    BY <1>1, <2>1 DEF Credits!OpenTab
  <2>3. ArrivalsTyped' /\ ArrivalsInv(view', "view", net', entries) /\ ArrivalsInv(drawer, "drawer", net', entries)
    BY <2>2, AskKeepsLists DEF CreditsInv, DrawerInv
  <2> QED BY <2>1, <2>2, <2>3 DEF CreditsInv, CachedInv, TabInv, DrawerInv
<1>2. CASE Credits!LoadMoreInTab
  <2>1. Credits!Ask("view", TRUE, view.offset) /\ UNCHANGED <<entries, view, cached, drawer>>
    BY <1>2 DEF Credits!LoadMoreInTab
  <2>2. ArrivalsTyped' /\ ArrivalsInv(view, "view", net', entries) /\ ArrivalsInv(drawer, "drawer", net', entries)
    BY <2>1, AskKeepsLists DEF CreditsInv, DrawerInv
  <2> QED BY <2>1, <2>2 DEF CreditsInv, CachedInv, TabInv, DrawerInv
<1> QED BY <1>1, <1>2

\* The same of the drawer.
LEMMA DrawerAsksKeeps ==
  ASSUME Credits!CreditsViewAssumption, Patient, CreditsInv, Credits!OpenDrawer \/ Credits!LoadMoreInDrawer
  PROVE  CreditsInv'
<1>0. entries \in Nat /\ ListInv(drawer, entries)
  BY DEF CreditsInv, Credits!CreditsViewAssumption, DrawerInv
<1>1. CASE Credits!OpenDrawer
  <2>1. ListInv(drawer', entries) /\ drawer'.offset = 0
    BY <1>0, <1>1, ClearedKeeps DEF Credits!OpenDrawer
  <2>2. Credits!Ask("drawer", FALSE, drawer'.offset) /\ UNCHANGED <<entries, view, cached>>
    BY <1>1, <2>1 DEF Credits!OpenDrawer
  <2>3. ArrivalsTyped' /\ ArrivalsInv(drawer', "drawer", net', entries) /\ ArrivalsInv(view, "view", net', entries)
    BY <2>2, AskKeepsLists DEF CreditsInv, TabInv
  <2> QED BY <2>1, <2>2, <2>3 DEF CreditsInv, CachedInv, TabInv, DrawerInv
<1>2. CASE Credits!LoadMoreInDrawer
  <2>1. Credits!Ask("drawer", TRUE, drawer.offset) /\ UNCHANGED <<entries, view, cached, drawer>>
    BY <1>2 DEF Credits!LoadMoreInDrawer
  <2>2. ArrivalsTyped' /\ ArrivalsInv(drawer, "drawer", net', entries) /\ ArrivalsInv(view, "view", net', entries)
    BY <2>1, AskKeepsLists DEF CreditsInv, TabInv
  <2> QED BY <2>1, <2>2 DEF CreditsInv, CachedInv, TabInv, DrawerInv
<1> QED BY <1>1, <1>2

\* A load of the tab has ended.
LEMMA TabLoadsKeep ==
  ASSUME Credits!CreditsViewAssumption, CreditsInv, NEW l \in net, Credits!TabLoaded(l) \/ Credits!TabFails(l)
  PROVE  CreditsInv'
<1>0. /\ entries \in Nat /\ ListInv(view, entries) /\ ArrivalTyped(l)
      /\ l.list = "view" /\ ArrivalInv(view, l, entries)
  BY DEF CreditsInv, Credits!CreditsViewAssumption, TabInv, ArrivalsTyped, ArrivalsInv, Credits!TabLoaded,
      Credits!TabFails
<1>1. net' = net \ {l} /\ UNCHANGED <<entries, drawer>>
  BY DEF Credits!TabLoaded, Credits!TabFails
<1>2. /\ ArrivalsTyped' /\ ArrivalsInv(view', "view", net', entries)
      /\ ArrivalsInv(drawer, "drawer", net', entries)
  BY <1>0, <1>1, DropKeeps DEF CreditsInv, DrawerInv
<1>3. ListInv(view', entries) /\ CachedInv'
  <2>1. CASE Credits!TabLoaded(l)
    <3>1. view' = Credits!Rendered(view, l.append, l.answer) /\ l.answer # Credits!NoPage
      BY <2>1 DEF Credits!TabLoaded
    <3>2. ListInv(view', entries)
      BY <1>0, <3>1, RenderedKeeps
    <3>3. PICK top \in 0..(entries - view.offset) : RunsFrom(l.answer, top)
      BY <1>0, <3>1 DEF ArrivalInv
    <3>4. top \in 0..entries
      BY <1>0, <3>3 DEF ListInv, ListTyped
    <3>5. CachedInv'
      BY <1>1, <2>1, <3>3, <3>4 DEF CreditsInv, CachedInv, Credits!TabLoaded
    <3> QED BY <3>2, <3>5
  <2>2. CASE Credits!TabFails(l)
    <3>1. view' \in {view, [view EXCEPT !.rows = <<>>]} /\ UNCHANGED cached
      BY <2>2 DEF Credits!TabFails
    <3> QED BY <1>0, <1>1, <3>1, ClearedKeeps DEF CreditsInv, CachedInv
  <2> QED BY <2>1, <2>2
<1> QED BY <1>1, <1>2, <1>3 DEF CreditsInv, TabInv, DrawerInv

\* A load of the drawer has ended.
LEMMA DrawerLoadsKeep ==
  ASSUME Credits!CreditsViewAssumption, CreditsInv, NEW l \in net, Credits!DrawerLoaded(l) \/ Credits!DrawerFails(l)
  PROVE  CreditsInv'
<1>0. /\ entries \in Nat /\ ListInv(drawer, entries) /\ ArrivalTyped(l)
      /\ l.list = "drawer" /\ ArrivalInv(drawer, l, entries)
  BY DEF CreditsInv, Credits!CreditsViewAssumption, DrawerInv, ArrivalsTyped, ArrivalsInv,
      Credits!DrawerLoaded, Credits!DrawerFails
<1>1. net' = net \ {l} /\ UNCHANGED <<entries, view, cached>>
  BY DEF Credits!DrawerLoaded, Credits!DrawerFails
<1>2. /\ ArrivalsTyped' /\ ArrivalsInv(drawer', "drawer", net', entries)
      /\ ArrivalsInv(view, "view", net', entries)
  BY <1>0, <1>1, DropKeeps DEF CreditsInv, TabInv
<1>3. ListInv(drawer', entries)
  <2>1. CASE Credits!DrawerLoaded(l)
    BY <1>0, <2>1, RenderedKeeps DEF Credits!DrawerLoaded
  <2>2. CASE Credits!DrawerFails(l)
    BY <1>0, <2>2, ClearedKeeps DEF Credits!DrawerFails
  <2> QED BY <2>1, <2>2
<1> QED BY <1>1, <1>2, <1>3 DEF CreditsInv, CachedInv, TabInv, DrawerInv

\* Every step keeps the invariant, when the user waits for the answers.
LEMMA CreditsStep ==
  ASSUME Credits!CreditsViewAssumption, Patient, CreditsInv, [Credits!Next]_(Credits!vars)
  PROVE  CreditsInv'
<1>1. CASE UNCHANGED Credits!vars
  BY <1>1 DEF CreditsInv, ArrivalsTyped, CachedInv, TabInv, DrawerInv, Credits!vars
<1> QED BY <1>1, NewEntryKeeps, ServeKeeps, TabAsksKeeps, DrawerAsksKeeps, TabLoadsKeep, DrawerLoadsKeep
        DEF Credits!Next

\* A list without a gap, as the property says it.
LEMMA NothingSkipped ==
  ASSUME entries \in Nat, NEW v, ListInv(v, entries)
  PROVE  /\ v.rows \in Seq(1..entries) /\ v.more \in BOOLEAN /\ v.offset <= entries
         /\ Credits!GonePast(v.rows) \subseteq Credits!ToSet(v.rows)
<1>1. /\ v.rows \in Seq(Nat) /\ v.more \in BOOLEAN /\ v.offset <= entries /\ NoGap(v.rows)
      /\ \A i \in 1..Len(v.rows) : v.rows[i] \in 1..entries
  BY DEF ListInv, ListTyped
<1>2. DOMAIN v.rows = 1..Len(v.rows)
  BY <1>1
<1>3. v.rows \in Seq(1..entries)
  BY <1>1
<1>4. ASSUME NEW e \in Credits!GonePast(v.rows) PROVE e \in Credits!ToSet(v.rows)
  <2>1. PICK i \in 1..Len(v.rows) : v.rows[i] < e /\ e < v.rows[1] /\ e \in Nat
    BY <1>2 DEF Credits!GonePast
  <2>2. v.rows[i] \in Nat /\ v.rows[1] \in Nat
    BY <1>1, <2>1
  <2>3. Shows(v.rows, e)
    BY <1>1, <2>1, <2>2 DEF NoGap
  <2> QED BY <1>2, <2>3 DEF Shows, Credits!ToSet
<1> QED BY <1>1, <1>3, <1>4

\* What the invariant says of the types and of the rows.
LEMMA CreditsTyped ==
  ASSUME Credits!CreditsViewAssumption, CreditsInv
  PROVE  Credits!TypeOK /\ Credits!NoEntrySkippedInTab /\ Credits!NoEntrySkippedInDrawer
<1>1. entries \in 0..MaxEntries /\ entries \in Nat /\ ListInv(view, entries) /\ ListInv(drawer, entries)
  BY DEF CreditsInv, Credits!CreditsViewAssumption, TabInv, DrawerInv
<1>2. ASSUME NEW l \in net, l.answer # Credits!NoPage PROVE Len(l.answer) <= PageSize
  <2>1. \/ ArrivalInv(view, l, entries)
        \/ ArrivalInv(drawer, l, entries)
    BY DEF CreditsInv, TabInv, DrawerInv, ArrivalsInv, ArrivalsTyped, ArrivalTyped
  <2> QED BY <1>2, <2>1 DEF ArrivalInv, RunsFrom
<1>3. /\ \A v \in {view, drawer} : v.rows \in Seq(1..entries) /\ v.more \in BOOLEAN /\ v.offset <= entries
      /\ Credits!NoEntrySkippedInTab /\ Credits!NoEntrySkippedInDrawer
  BY <1>1, NothingSkipped DEF Credits!NoEntrySkippedInTab, Credits!NoEntrySkippedInDrawer
<1> QED BY <1>1, <1>2, <1>3 DEF Credits!TypeOK

\* However the history grows while it is loaded page by page, and whatever fails, neither
\* list of entries skips one, as long as the user waits for each page.
THEOREM CreditsAlwaysWhole ==
  ASSUME Credits!CreditsViewAssumption, Patient
  PROVE  Credits!Spec => [](Credits!TypeOK /\ Credits!NoEntrySkippedInTab /\ Credits!NoEntrySkippedInDrawer)
<1>1. Credits!Init => CreditsInv
  BY CreditsStart
<1>2. CreditsInv /\ [Credits!Next]_(Credits!vars) => CreditsInv'
  BY CreditsStep
<1>3. CreditsInv => Credits!TypeOK /\ Credits!NoEntrySkippedInTab /\ Credits!NoEntrySkippedInDrawer
  BY CreditsTyped
<1> QED BY <1>1, <1>2, <1>3, PTL DEF Credits!Spec
==============================================================================
