------------------------------ MODULE Redemption ------------------------------
(***************************************************************************)
(* Redemption codes: redeem() of OperationsController, what AdminService   *)
(* does to codes and to the users who have redeemed them, and the codes    *)
(* tab of the administration page.  Transactions run at READ COMMITTED: a  *)
(* step is what a transaction does from one row lock, or from one read, to *)
(* the next, and its writes are seen when it commits.                      *)
(***************************************************************************)
EXTENDS Naturals, FiniteSets, Sequences, SequencesExt

CONSTANTS
  Users,
  Codes,        \* ids, those of codes yet to be created too
  Earlier,      \* the codes there are at first
  Redeemed,     \* the entries of what has been redeemed already
  Keys,         \* activity keys
  NoCode,
  MaxUses,
  \* bounds of the model
  MaxRequests, MaxClicks, MaxErrors

(* What is assumed of the constants, by the module that gives their values *)
RedemptionAssumption ==
  /\ NoCode \notin Codes /\ IsFiniteSet(Codes) /\ Earlier \subseteq Codes /\ Keys # {}
  /\ Redeemed \subseteq [code : Earlier, user : Users]
  /\ \A e, f \in Redeemed : e.user = f.user \/ e.code = f.code => e = f
  /\ IsFiniteSet(Redeemed)
  /\ MaxUses \in Nat \ {0}
  /\ MaxRequests \in Nat /\ MaxClicks \in Nat /\ MaxErrors \in Nat

VARIABLES
  users,
  codes,      \* RedemptionCode
  uses,       \* RedemptionUse
  entries,    \* WalletEntry "redeem_code": the code and its user
  redeeming,  \* transactions of redeem()
  deleting,   \* the transaction of deleteUser()
  list,       \* state.codes of the page
  created,    \* state.lastCreatedCodes
  popover,    \* whether they are shown
  load,       \* the load of the page
  net,        \* the calls of the page and of other administrators
  requests, clicks, errors

books == <<users, codes, uses, entries>>
page == <<list, created, popover, load>>
vars == <<books, redeeming, deleting, page, net, requests, clicks, errors>>

NoRow == [key |-> "none"]
Deleted == [key |-> "deleted"]
Row(key, max) == [key |-> key, max |-> max, active |-> TRUE, usedBy |-> {}]
Exists(c) == codes[c] \notin {NoRow, Deleted}

NoDeletion == [user |-> "nobody", stage |-> "none", codes |-> {}, had |-> {}]
NoLoad == [stage |-> "none", rows |-> <<>>]

Of(u, es) == {e \in es : e.user = u}

(* A code as the page lists it *)
Listed(c, row) == [code |-> c, active |-> row.active, used |-> row.usedBy # {}]
AllListed == LET existing == SetToSeq({c \in Codes : Exists(c)})
             IN  [i \in DOMAIN existing |-> Listed(existing[i], codes[existing[i]])]

AKey == CHOOSE k \in Keys : TRUE

Init ==
  /\ users = Users
  /\ \E max \in 1..MaxUses :
       codes = [c \in Codes |->
                  IF c \in Earlier
                  THEN [Row(AKey, max) EXCEPT !.usedBy = {e.user : e \in {f \in Redeemed : f.code = c}}]
                  ELSE NoRow]
  /\ uses = {[code |-> e.code, user |-> e.user, key |-> AKey] : e \in Redeemed}
  /\ entries = Redeemed /\ redeeming = {} /\ deleting = NoDeletion
  /\ list = AllListed /\ created = <<>> /\ popover = FALSE /\ load = NoLoad
  /\ net = {} /\ requests = 0 /\ clicks = 0 /\ errors = 0

-----------------------------------------------------------------------------
(* Row locks: the user's row, which lockUserWallet takes, and the code's *)

HasWallet(r) == r.stage \in {"wallet", "code"}

WalletFree(u) == \A r \in redeeming : r.user = u => ~HasWallet(r)

CodeFree(c) == c \notin deleting.codes /\ \A r \in redeeming : r.code = c => ~r.locked

-----------------------------------------------------------------------------
(* redeem *)

Redeem(u, c) ==
  /\ requests < MaxRequests /\ requests' = requests + 1
  /\ u \in users
  /\ redeeming' = redeeming \cup
       {[id |-> requests, user |-> u, code |-> c, stage |-> "asked", locked |-> FALSE, row |-> NoRow]}
  /\ UNCHANGED <<books, deleting, page, net, clicks, errors>>

Ended(r) == redeeming' = redeeming \ {r}
Went(r, s) == redeeming' = (redeeming \ {r}) \cup {s}

(* A user who has been deleted meanwhile has no row to lock. *)
LockUserWallet(r) ==
  /\ r.stage = "asked" /\ WalletFree(r.user)
  /\ IF r.user \in users THEN Went(r, [r EXCEPT !.stage = "wallet"]) ELSE Ended(r)
  /\ UNCHANGED <<books, deleting, page, net, requests, clicks, errors>>

Usable(c) == Exists(c) /\ codes[c].active /\ Cardinality(codes[c].usedBy) < codes[c].max

(* Variant: the row is read without FOR UPDATE. *)
ReadCode_NoLock(r) ==
  /\ r.stage = "wallet"
  /\ IF Usable(r.code) THEN Went(r, [r EXCEPT !.stage = "code", !.row = codes[r.code]]) ELSE Ended(r)
  /\ UNCHANGED <<books, deleting, page, net, requests, clicks, errors>>

ReadCode(r) ==
  /\ r.stage = "wallet" /\ CodeFree(r.code)
  /\ IF Usable(r.code)
     THEN Went(r, [r EXCEPT !.stage = "code", !.locked = TRUE, !.row = codes[r.code]])
     ELSE Ended(r)
  /\ UNCHANGED <<books, deleting, page, net, requests, clicks, errors>>

(* The unique indexes of RedemptionUse *)
Taken(r) == \E use \in uses : use.user = r.user /\ (use.code = r.code \/ use.key = r.row.key)

(* The index waits for a deletion that has removed the row but not committed. *)
Waits(r) == Taken(r) /\ deleting.stage = "rows" /\ deleting.user = r.user

Commit(r) ==
  /\ r.stage = "code" /\ ~Waits(r)
  /\ Ended(r)
  /\ IF Taken(r) \/ ~Exists(r.code) THEN UNCHANGED books
     ELSE /\ uses' = uses \cup {[code |-> r.code, user |-> r.user, key |-> r.row.key]}
          /\ codes' = [codes EXCEPT ![r.code].usedBy = @ \cup {r.user}]
          /\ entries' = entries \cup {[code |-> r.code, user |-> r.user]}
          /\ UNCHANGED users
  /\ UNCHANGED <<deleting, page, net, requests, clicks, errors>>

-----------------------------------------------------------------------------
(* deleteUser: the wallet entries go first, then the uses of the codes, and *)
(* the user's row last; nothing locks that row before.                      *)

Click == clicks < MaxClicks /\ clicks' = clicks + 1 /\ UNCHANGED <<requests, errors>>

DeleteUser(u) ==
  /\ Click /\ deleting = NoDeletion /\ u \in users
  /\ deleting' = [NoDeletion EXCEPT !.user = u, !.stage = "entries", !.had = Of(u, entries)]
  /\ UNCHANGED <<books, redeeming, page, net>>

UsedBy(u) == {c \in Codes : Exists(c) /\ u \in codes[c].usedBy}

DeleteUses ==
  /\ deleting.stage = "entries"
  /\ \A c \in UsedBy(deleting.user) : CodeFree(c)
  /\ deleting' = [deleting EXCEPT !.stage = "rows", !.codes = UsedBy(deleting.user)]
  /\ UNCHANGED <<books, redeeming, page, net, requests, clicks, errors>>

WithoutUser(u) == [c \in Codes |-> IF Exists(c) THEN [codes[c] EXCEPT !.usedBy = @ \ {u}] ELSE codes[c]]

(* An entry that came after the entries were deleted still refers to the    *)
(* user: the foreign key rolls the deletion back.                           *)
DeletionEnds ==
  /\ deleting.stage = "rows" /\ WalletFree(deleting.user)
  /\ deleting' = NoDeletion
  /\ LET u == deleting.user IN
     IF Of(u, entries) # deleting.had THEN UNCHANGED books
     ELSE /\ users' = users \ {u}
          /\ codes' = WithoutUser(u)
          /\ uses' = uses \ Of(u, uses)
          /\ entries' = entries \ Of(u, entries)
  /\ UNCHANGED <<redeeming, page, net, requests, clicks, errors>>

(* The user's redemption holds the user's row and waits for a code, or for  *)
(* a use, that the deletion holds, which waits for the user's row: the      *)
(* database rolls one of them back.                                         *)
Deadlock(r) ==
  /\ deleting.stage = "rows" /\ deleting.user = r.user
  /\ (r.stage = "wallet" /\ r.code \in deleting.codes) \/ (r.stage = "code" /\ Waits(r))
  /\ \/ Ended(r) /\ UNCHANGED deleting
     \/ deleting' = NoDeletion /\ UNCHANGED redeeming
  /\ UNCHANGED <<books, page, net, requests, clicks, errors>>

-----------------------------------------------------------------------------
(* createCode, patchCode and deleteCode *)

Call(kind, c, patch, mine) ==
  [kind |-> kind, code |-> c, patch |-> patch, mine |-> mine, stage |-> "sent", row |-> NoRow,
   made |-> <<>>, id |-> clicks]

Moved(q, s) == net' = (net \ {q}) \cup {s}
Refused(q) == Moved(q, [q EXCEPT !.stage = "failed"])

ServeCreate(q) ==
  /\ q.kind = "create" /\ q.stage = "sent"
  /\ \E made \in SUBSET {c \in Codes : codes[c] = NoRow} :
       /\ Cardinality(made) = q.patch.count
       /\ codes' = [c \in Codes |-> IF c \in made THEN Row(q.patch.key, MaxUses) ELSE codes[c]]
       /\ Moved(q, [q EXCEPT !.stage = "answered", !.made = SetToSeq(made)])
  /\ UNCHANGED <<users, uses, entries, redeeming, deleting, page, requests, clicks, errors>>

Override(row, patch) == [f \in DOMAIN row |-> IF f \in DOMAIN patch THEN patch[f] ELSE row[f]]

(* The row is read without a lock. *)
ReadRow(q) ==
  /\ q.kind \in {"patch", "delete"} /\ q.stage = "sent"
  /\ IF \/ ~Exists(q.code)
        \/ q.kind = "delete" /\ codes[q.code].usedBy = {}
        \/ q.kind = "patch" /\ Override(codes[q.code], q.patch).key # codes[q.code].key /\ codes[q.code].usedBy # {}
     THEN Refused(q)
     ELSE Moved(q, [q EXCEPT !.stage = "read", !.row = codes[q.code]])
  /\ UNCHANGED <<books, redeeming, deleting, page, requests, clicks, errors>>

(* patchCode writes back every column it has read but usedBy. *)
Patched(q) == [Override(q.row, q.patch) EXCEPT !.usedBy = codes[q.code].usedBy]

PatchCode(q) ==
  /\ q.kind = "patch" /\ q.stage = "read" /\ CodeFree(q.code)
  /\ IF Exists(q.code)
     THEN /\ codes' = [codes EXCEPT ![q.code] = Patched(q)]
          /\ Moved(q, [q EXCEPT !.stage = "answered", !.row = codes'[q.code]])
     ELSE Refused(q) /\ UNCHANGED codes
  /\ UNCHANGED <<users, uses, entries, redeeming, deleting, page, requests, clicks, errors>>

(* ON DELETE SET NULL: the history of the redemptions is kept. *)
DeleteCode(q) ==
  /\ q.kind = "delete" /\ q.stage = "read" /\ CodeFree(q.code)
  /\ codes' = [codes EXCEPT ![q.code] = IF Exists(q.code) THEN Deleted ELSE @]
  /\ uses' = {IF use.code = q.code THEN [use EXCEPT !.code = NoCode] ELSE use : use \in uses}
  /\ Moved(q, [q EXCEPT !.stage = "answered"])
  /\ UNCHANGED <<users, entries, redeeming, deleting, page, requests, clicks, errors>>

(* Another administrator, by the interface: any of the columns *)
OtherPatch(c, patch) ==
  /\ Click /\ c \in Codes
  /\ net' = net \cup {Call("patch", c, patch, FALSE)}
  /\ UNCHANGED <<books, redeeming, deleting, page>>

ServeLoad ==
  /\ load.stage = "sent"
  /\ load' = [stage |-> "answered", rows |-> AllListed]
  /\ UNCHANGED <<books, redeeming, deleting, list, created, popover, net, requests, clicks, errors>>

(* A call does not arrive, or its answer does not. *)
Lose ==
  /\ errors < MaxErrors /\ errors' = errors + 1
  /\ \/ load.stage # "none" /\ load' = NoLoad /\ UNCHANGED net
     \/ \E q \in net : q.stage \in {"sent", "answered"} /\ Refused(q) /\ UNCHANGED load
  /\ UNCHANGED <<books, redeeming, deleting, list, created, popover, requests, clicks>>

-----------------------------------------------------------------------------
(* The codes tab *)

(* The first entry of a code, which Array.find and findIndex return *)
Entry(c) == SelectInSeq(list, LAMBDA e : e.code = c)

CreateCode(n, key) ==
  /\ Click
  /\ net' = net \cup {Call("create", NoCode, [count |-> n, key |-> key], TRUE)}
  /\ UNCHANGED <<books, redeeming, deleting, page>>

ToggleCode(c) ==
  /\ Click /\ Entry(c) # 0
  /\ net' = net \cup {Call("patch", c, [active |-> ~list[Entry(c)].active], TRUE)}
  /\ UNCHANGED <<books, redeeming, deleting, page>>

DeleteButton(c) ==
  /\ Click /\ Entry(c) # 0 /\ list[Entry(c)].used
  /\ net' = net \cup {Call("delete", c, <<>>, TRUE)}
  /\ UNCHANGED <<books, redeeming, deleting, page>>

(* The new codes go before the others, whether or not a load that was       *)
(* answered after their creation lists them already.                        *)
ShowCreated(q) ==
  LET made == [i \in DOMAIN q.made |-> Listed(q.made[i], Row(q.patch.key, MaxUses))] IN
  /\ list' = made \o list
  /\ created' = made /\ popover' = TRUE

Upsert(e) == list' = IF Entry(e.code) = 0 THEN <<e>> \o list ELSE ReplaceAt(list, Entry(e.code), e)

(* Array.filter: the other entries, in their order *)
Without(c) ==
  LET others == {i \in DOMAIN list : list[i].code # c}
  IN  \E kept \in [1..Cardinality(others) -> others] :
        /\ \A i, j \in DOMAIN kept : i < j => kept[i] < kept[j]
        /\ list' = [i \in DOMAIN kept |-> list[kept[i]]]

Deliver(q) ==
  /\ q.stage \in {"answered", "failed"}
  /\ net' = net \ {q}
  /\ IF q.stage = "failed" \/ ~q.mine THEN UNCHANGED <<list, created, popover>>
     ELSE \/ q.kind = "create" /\ ShowCreated(q)
          \/ q.kind = "patch" /\ Upsert(Listed(q.code, q.row)) /\ UNCHANGED <<created, popover>>
          \/ /\ q.kind = "delete"
             /\ Without(q.code)
             /\ UNCHANGED <<created, popover>>
  /\ UNCHANGED <<books, redeeming, deleting, load, requests, clicks, errors>>

CloseCreatedCodesPopover ==
  /\ popover /\ popover' = FALSE
  /\ UNCHANGED <<books, redeeming, deleting, list, created, load, net, requests, clicks, errors>>

LoadAll ==
  /\ Click /\ load = NoLoad
  /\ load' = [NoLoad EXCEPT !.stage = "sent"]
  /\ UNCHANGED <<books, redeeming, deleting, list, created, popover, net>>

LoadArrives ==
  /\ load.stage = "answered"
  /\ list' = load.rows /\ load' = NoLoad
  /\ UNCHANGED <<books, redeeming, deleting, created, popover, net, requests, clicks, errors>>

-----------------------------------------------------------------------------

Redemptions == \E r \in redeeming : LockUserWallet(r) \/ ReadCode(r) \/ Commit(r) \/ Deadlock(r)

Calls == \E q \in net : ServeCreate(q) \/ ReadRow(q) \/ PatchCode(q) \/ DeleteCode(q) \/ Deliver(q)

Patches == [active : BOOLEAN] \cup [key : Keys] \cup [max : 1..MaxUses]

Next ==
  \/ \E u \in Users, c \in Codes : Redeem(u, c)
  \/ Redemptions
  \/ \E u \in Users : DeleteUser(u)
  \/ DeleteUses \/ DeletionEnds
  \/ Calls \/ ServeLoad \/ Lose
  \/ \E c \in Codes : ToggleCode(c) \/ DeleteButton(c) \/ \E patch \in Patches : OtherPatch(c, patch)
  \/ \E n \in 1..2, key \in Keys : CreateCode(n, key)
  \/ CloseCreatedCodesPopover \/ LoadAll \/ LoadArrives

Spec == Init /\ [][Next]_vars

-----------------------------------------------------------------------------
(* Properties *)

(* Uses, entries and names of codes are of users there are, and the popover *)
(* always has codes to copy.                                                *)
TypeOK ==
  /\ users \subseteq Users
  /\ \A c \in Codes : Exists(c) => codes[c].usedBy \subseteq users /\ codes[c].max \in 1..MaxUses
  /\ \A use \in uses : use.user \in users /\ use.code \in Codes \cup {NoCode} /\ use.key \in Keys
  /\ entries \subseteq [code : Codes, user : users]
  /\ \A i \in DOMAIN list : list[i].code \in Codes
  /\ popover => created # <<>>

(* A redemption that is granted is allowed by the code as it is when it     *)
(* commits, not only as it was read: it is active, has a use left, and the  *)
(* user has redeemed nothing of its activity, also no code that has been    *)
(* deleted since.                                                           *)
ByTheRules ==
  \A e \in entries' \ entries :
    Usable(e.code) /\ \A use \in Of(e.user, uses) : use.key # codes[e.code].key

(* The array of a code, the uses and the wallet entries tell the same       *)
(* story, whatever was rolled back, deleted or changed in between.          *)
BooksAgree ==
  /\ \A c \in Codes : Exists(c) => codes[c].usedBy = {use.user : use \in {v \in uses : v.code = c}}
  /\ \A u \in Users : Cardinality(Of(u, entries)) = Cardinality(Of(u, uses))

Sound == ByTheRules /\ BooksAgree'
=============================================================================
