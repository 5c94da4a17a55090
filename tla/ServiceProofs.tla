---------------------------- MODULE ServiceProofs ----------------------------
(***************************************************************************)
(* The components of the service beside its tasks and its queue, each with *)
(* variables of its own: the redemption codes, whose module this one       *)
(* EXTENDs, the rules that prompts are checked by, and the gateways.  For  *)
(* any users, finitely many codes, any activities, rules, threads,         *)
(* gateways, tasks and administrators, and any number of requests, changes *)
(* and outcomes.                                                           *)
(***************************************************************************)
EXTENDS Redemption, FiniteSetTheorems, SequenceTheorems, TLAPS

CONSTANTS
  Rules, NoRule, Kept, Checks, Nobody, Changes, MaxChanges, Gateways,
  EarlierGateways, NoGateway, ImageTasks, Requests, Threshold, MaxOutcomes,
  MaxAsked

VARIABLES
  stored, changing, activeRules, loaded, monitor, checking, emptied,
  changes, rows, tasks, working, asking, streak, touched, outcomes

Filter == INSTANCE SensitiveRules
Health == INSTANCE GatewayHealth WITH Earlier <- EarlierGateways, MaxRequests <- MaxAsked

-----------------------------------------------------------------------------
(* The inductive invariant *)

RowFields == {"key", "max", "active", "usedBy"}
UseFields == {"code", "user", "key"}
RequestFields == {"id", "user", "code", "stage", "locked", "row"}
DeletionFields == {"user", "stage", "codes", "had"}
CallFields == {"kind", "code", "patch", "mine", "stage", "row", "made", "id"}

IsRow(row) == DOMAIN row = RowFields
IsUse(use) == DOMAIN use = UseFields
IsRequest(r) == DOMAIN r = RequestFields /\ r.code \in Codes /\ r.user \in Users
IsCall(q) ==
  /\ DOMAIN q = CallFields
  /\ q.kind \in {"patch", "delete"} => q.code \in Codes
  /\ q.kind = "patch" /\ q.stage = "read" => IsRow(q.row)

(* What the functions find in the tables, the transactions and the calls *)
Tables ==
  /\ DOMAIN codes = Codes
  /\ \A c \in Codes : Exists(c) => IsRow(codes[c])
  /\ \A use \in uses : IsUse(use)
  /\ entries \subseteq [code : Codes, user : Users]
  /\ IsFiniteSet(uses) /\ IsFiniteSet(entries)

Transactions ==
  /\ \A r \in redeeming : IsRequest(r)
  /\ DOMAIN deleting = DeletionFields
  /\ deleting.codes \subseteq Codes
  /\ deleting.stage # "rows" => deleting.codes = {}

CallsAreSound == \A q \in net : IsCall(q)

(* The unique indexes: a use is of a code there is or of none, and a user   *)
(* has one of an activity.                                                  *)
UsesAreUnique ==
  /\ \A use \in uses : use.code # NoCode => use.code \in Codes /\ Exists(use.code)
  /\ \A v, w \in uses : v.user = w.user /\ v.key = w.key => v = w

(* A wallet entry whose code has not been deleted has its use: a user who   *)
(* has none of a code was never paid for it.                                *)
PaidForUses ==
  \A e \in entries :
    codes[e.code] = Deleted \/ \E use \in uses : use.code = e.code /\ use.user = e.user

(* A redemption that has read its code holds its row: the code is usable    *)
(* and of the activity that was read, and nobody else holds it.             *)
RowsAreLocked ==
  /\ \A r \in redeeming :
       /\ r.locked => r.stage = "code" /\ r.code \notin deleting.codes
       /\ r.stage = "code" => r.locked /\ Usable(r.code) /\ r.row.key = codes[r.code].key
  /\ \A r, s \in redeeming : r.locked /\ s.locked /\ r.code = s.code => r = s

(* What a deletion has not seen when it went over the entries, or over the  *)
(* codes, has left an entry that it did not delete, which keeps it from     *)
(* committing.                                                              *)
DeletionKnows ==
  deleting.stage # "none" =>
    /\ deleting.had \subseteq Of(deleting.user, entries)
    /\ deleting.stage = "rows" =>
         \A c \in UsedBy(deleting.user) \ deleting.codes :
           [code |-> c, user |-> deleting.user] \in entries \ deleting.had

Books == Tables /\ UsesAreUnique /\ PaidForUses /\ BooksAgree
Work == Transactions /\ RowsAreLocked /\ DeletionKnows
IInv == Books /\ Work /\ CallsAreSound

-----------------------------------------------------------------------------
(* Rows and calls *)

(* A row is neither of the two values for codes without one. *)
LEMMA RowFacts ==
  /\ \A row : IsRow(row) => row \notin {NoRow, Deleted}
  /\ \A key, max : IsRow(Row(key, max)) /\ Row(key, max).usedBy = {}
  /\ NoRow # Deleted
<1>1. ASSUME NEW row, IsRow(row) PROVE row # NoRow /\ row # Deleted
  <2>1. "max" \in DOMAIN row
    BY <1>1 DEF IsRow, RowFields
  <2>2. "max" \notin DOMAIN NoRow /\ "max" \notin DOMAIN Deleted
    BY DEF NoRow, Deleted
  <2> QED
    BY <2>1, <2>2
<1>2. \A key, max : IsRow(Row(key, max)) /\ Row(key, max).usedBy = {}
  BY DEF IsRow, RowFields, Row
<1>3. NoRow # Deleted
  <2>1. NoRow.key = "none" /\ Deleted.key = "deleted"
    BY DEF NoRow, Deleted
  <2> QED
    BY <2>1
<1> QED
  BY <1>1, <1>2, <1>3

(* patchCode does not touch the array, whatever it has read. *)
LEMMA PatchedFacts ==
  ASSUME NEW q, IsRow(q.row)
  PROVE  IsRow(Patched(q)) /\ Patched(q).usedBy = codes[q.code].usedBy
<1> DEFINE row == Override(q.row, q.patch)
<1>1. DOMAIN row = RowFields
  BY DEF Override, IsRow
<1> HIDE DEF row
<1>2. DOMAIN [row EXCEPT !.usedBy = codes[q.code].usedBy] = RowFields
  BY <1>1
<1>3. [row EXCEPT !.usedBy = codes[q.code].usedBy].usedBy = codes[q.code].usedBy
  BY <1>1 DEF RowFields
<1> QED
  BY <1>2, <1>3 DEF Patched, row, IsRow

(* A call that is sent is sound when a patch or a deletion names a code. *)
LEMMA CallFacts ==
  ASSUME NEW kind, NEW c, NEW patch, NEW mine, kind \in {"patch", "delete"} => c \in Codes
  PROVE  IsCall(Call(kind, c, patch, mine))
  BY DEF IsCall, CallFields, Call

(* A call that goes on keeps its kind and its code. *)
LEMMA NetStep ==
  ASSUME CallsAreSound, NEW q \in net, NEW s, IsCall(s), Moved(q, s)
  PROVE  CallsAreSound'
  BY DEF CallsAreSound, Moved

(* So does one that is refused or lost. *)
LEMMA RefusedStep ==
  ASSUME CallsAreSound, NEW q \in net, Refused(q)
  PROVE  CallsAreSound'
<1>1. IsCall([q EXCEPT !.stage = "failed"])
  BY DEF CallsAreSound, IsCall, CallFields
<1> QED
  BY <1>1, NetStep DEF Refused

(* Books that nobody writes, and transactions that do not move *)
LEMMA BooksKept == ASSUME Books, UNCHANGED books PROVE Books'
  BY DEF Books, books, Tables, UsesAreUnique, PaidForUses, BooksAgree, Exists, Of

(* Transactions that do not move, over rows that stay as they are *)
LEMMA WorkKept == ASSUME Work, UNCHANGED <<books, redeeming, deleting>> PROVE Work'
  BY DEF Work, books, Transactions, RowsAreLocked, DeletionKnows, Usable, UsedBy, Exists, Of

-----------------------------------------------------------------------------
(* redeem() up to its writes *)

(* A request holds no lock yet. *)
LEMMA RedeemStep ==
  ASSUME IInv, NEW u \in Users, NEW c \in Codes, Redeem(u, c)
  PROVE  IInv'
<1> DEFINE new == [id |-> requests, user |-> u, code |-> c, stage |-> "asked", locked |-> FALSE, row |-> NoRow]
<1>1. /\ redeeming' = redeeming \cup {new} /\ UNCHANGED <<books, deleting, net>>
  BY DEF Redeem
<1>2. IsRequest(new) /\ ~new.locked /\ new.stage # "code"
  BY DEF IsRequest, RequestFields
<1> HIDE DEF new
<1>3. Books' /\ CallsAreSound'
  BY <1>1, BooksKept DEF IInv, CallsAreSound
<1>4. Transactions'
  BY <1>1, <1>2 DEF IInv, Work, Transactions
<1>5. RowsAreLocked' /\ DeletionKnows'
  BY <1>1, <1>2 DEF IInv, Work, RowsAreLocked, DeletionKnows, books, Usable, UsedBy, Exists, Of
<1> QED
  BY <1>3, <1>4, <1>5 DEF IInv, Work

(* A transaction that ends lets go of its locks. *)
LEMMA EndedStep ==
  ASSUME IInv, NEW r \in redeeming, Ended(r), UNCHANGED <<books, deleting, net>>
  PROVE  IInv'
<1>1. redeeming' \subseteq redeeming
  BY DEF Ended
<1>2. Books' /\ CallsAreSound'
  BY BooksKept DEF IInv, CallsAreSound
<1>3. Transactions'
  BY <1>1 DEF IInv, Work, Transactions
<1>4. RowsAreLocked' /\ DeletionKnows'
  BY <1>1 DEF IInv, Work, RowsAreLocked, DeletionKnows, books, Usable, UsedBy, Exists, Of
<1> QED
  BY <1>2, <1>3, <1>4 DEF IInv, Work

(* With the wallet's lock alone a request has read no code. *)
LEMMA LockUserWalletStep ==
  ASSUME IInv, NEW r \in redeeming, LockUserWallet(r)
  PROVE  IInv'
<1>1. CASE Ended(r)
  BY <1>1, EndedStep DEF LockUserWallet
<1>2. CASE Went(r, [r EXCEPT !.stage = "wallet"])
  <2> DEFINE s == [r EXCEPT !.stage = "wallet"]
  <2>1. redeeming' = (redeeming \ {r}) \cup {s} /\ UNCHANGED <<books, deleting, net>>
    BY <1>2 DEF Went, LockUserWallet
  <2>2. IsRequest(r) /\ ~r.locked
    BY DEF LockUserWallet, IInv, Work, Transactions, RowsAreLocked
  <2>3. IsRequest(s) /\ ~s.locked /\ s.stage # "code"
    BY <2>2 DEF IsRequest, RequestFields
  <2> HIDE DEF s
  <2>4. Books' /\ CallsAreSound'
    BY <2>1, BooksKept DEF IInv, CallsAreSound
  <2>5. Transactions'
    BY <2>1, <2>3 DEF IInv, Work, Transactions
  <2>6. RowsAreLocked' /\ DeletionKnows'
    BY <2>1, <2>3 DEF IInv, Work, RowsAreLocked, DeletionKnows, books, Usable, UsedBy, Exists, Of
  <2> QED
    BY <2>4, <2>5, <2>6 DEF IInv, Work
<1> QED
  BY <1>1, <1>2 DEF LockUserWallet

(* SELECT ... FOR UPDATE: nobody holds the row, no deletion either. *)
LEMMA ReadCodeStep ==
  ASSUME IInv, NEW r \in redeeming, ReadCode(r)
  PROVE  IInv'
<1>1. CASE ~Usable(r.code)
  BY <1>1, EndedStep DEF ReadCode
<1>2. CASE Usable(r.code)
  <2> DEFINE s == [r EXCEPT !.stage = "code", !.locked = TRUE, !.row = codes[r.code]]
  <2>1. redeeming' = (redeeming \ {r}) \cup {s} /\ UNCHANGED <<books, deleting, net>>
    BY <1>2 DEF Went, ReadCode
  <2>2. IsRequest(r)
    BY DEF IInv, Work, Transactions
  <2>3. IsRequest(s) /\ s.locked /\ s.stage = "code" /\ s.code = r.code /\ s.row = codes[r.code]
    BY <2>2 DEF IsRequest, RequestFields
  <2>4. r.code \notin deleting.codes /\ \A t \in redeeming : t.code = r.code => ~t.locked
    BY DEF ReadCode, CodeFree
  <2> HIDE DEF s
  <2>5. Books' /\ CallsAreSound'
    BY <2>1, BooksKept DEF IInv, CallsAreSound
  <2>6. Transactions'
    BY <2>1, <2>3 DEF IInv, Work, Transactions
  <2>7. DeletionKnows'
    BY <2>1 DEF IInv, Work, DeletionKnows, books, UsedBy, Exists, Of
  <2>8. \A c : Usable(c)' <=> Usable(c)
    BY <2>1 DEF books, Usable, Exists
  <2>9. RowsAreLocked'
    <3>1. \A t \in redeeming' : t = s \/ t \in redeeming
      BY <2>1
    <3>2. UNCHANGED <<codes, deleting>>
      BY <2>1 DEF books
    <3> QED
      BY <1>2, <2>3, <2>4, <2>8, <3>1, <3>2 DEF IInv, Work, RowsAreLocked
  <2> QED
    BY <2>5, <2>6, <2>7, <2>9 DEF IInv, Work
<1> QED
  BY <1>1, <1>2

-----------------------------------------------------------------------------
(* Its writes *)

(* The row is locked, so what the request has read still holds of the code: *)
(* the three writes go together and by the rules, and a deletion that has   *)
(* gone over the codes already has not seen the wallet entry either.        *)
LEMMA CommitStep ==
  ASSUME IInv, NEW r \in redeeming, Commit(r)
  PROVE  IInv' /\ ByTheRules
<1>1. CASE Taken(r) \/ ~Exists(r.code)
  <2>1. UNCHANGED <<books, deleting, net>> /\ Ended(r)
    BY <1>1 DEF Commit
  <2>2. entries' = entries
    BY <2>1 DEF books
  <2> QED
    BY <2>1, <2>2, EndedStep DEF ByTheRules
<1>2. CASE ~Taken(r) /\ Exists(r.code)
  <2> DEFINE c == r.code
             u == r.user
             use == [code |-> c, user |-> u, key |-> r.row.key]
             entry == [code |-> c, user |-> u]
  <2>1. /\ redeeming' = redeeming \ {r}
        /\ uses' = uses \cup {use}
        /\ codes' = [codes EXCEPT ![c].usedBy = @ \cup {u}]
        /\ entries' = entries \cup {entry}
        /\ UNCHANGED <<deleting, net>>
    BY <1>2 DEF Commit, Ended
  <2>2. /\ c \in Codes /\ u \in Users
        /\ r.stage = "code" /\ r.locked /\ Usable(c) /\ r.row.key = codes[c].key
    BY DEF Commit, IInv, Work, Transactions, RowsAreLocked, IsRequest
  <2>3. IsRow(codes[c]) /\ codes[c] # Deleted /\ DOMAIN codes = Codes
    BY <1>2, <2>2 DEF IInv, Books, Tables, Exists
  <2>4. \A v \in uses : v.user = u => v.code # c /\ v.key # codes[c].key
    BY <1>2, <2>2 DEF Taken
  <2>5. entry \notin entries
    <3>1. entry.code = c /\ entry.user = u
      OBVIOUS
    <3> QED
      BY <2>3, <2>4, <3>1 DEF IInv, Books, PaidForUses
  <2>6. use \notin uses /\ IsUse(use) /\ use.code = c /\ use.user = u /\ use.key = codes[c].key
    <3>1. IsUse(use) /\ use.code = c /\ use.user = u /\ use.key = codes[c].key
      BY <2>2 DEF IsUse, UseFields
    <3> QED
      BY <2>4, <3>1
  <2>7. /\ DOMAIN codes' = Codes
        /\ \A d \in Codes \ {c} : codes'[d] = codes[d]
        /\ codes'[c] = [codes[c] EXCEPT !.usedBy = @ \cup {u}]
    <3> DEFINE v == [codes[c] EXCEPT !.usedBy = @ \cup {u}]
    <3>1. codes' = [codes EXCEPT ![c] = v]
      BY <2>1
    <3> HIDE DEF v
    <3>2. DOMAIN codes' = Codes /\ codes'[c] = v /\ \A d \in Codes \ {c} : codes'[d] = codes[d]
      BY <2>2, <2>3, <3>1
    <3> QED
      BY <3>2 DEF v
  <2>8. IsRow(codes'[c]) /\ codes'[c].usedBy = codes[c].usedBy \cup {u}
    BY <2>3, <2>7 DEF IsRow, RowFields
  <2>9. \A d \in Codes : Exists(d)' <=> Exists(d)
    BY <1>2, <2>7, <2>8, RowFacts DEF Exists
  <2> HIDE DEF use, entry
  <2>10. Tables'
    <3>1. IsFiniteSet(uses') /\ IsFiniteSet(entries')
      BY <2>1, FS_AddElement DEF IInv, Books, Tables
    <3>2. entries' \subseteq [code : Codes, user : Users]
      BY <2>1, <2>2 DEF IInv, Books, Tables, entry
    <3>3. \A v \in uses' : IsUse(v)
      BY <2>1, <2>6 DEF IInv, Books, Tables
    <3>4. \A d \in Codes : Exists(d)' => IsRow(codes'[d])
      BY <2>7, <2>8, <2>9 DEF IInv, Books, Tables
    <3> QED
      BY <2>7, <3>1, <3>2, <3>3, <3>4 DEF Tables
  <2>11. UsesAreUnique'
    <3>1. \A v \in uses' : v.code # NoCode => v.code \in Codes /\ Exists(v.code)'
      BY <1>2, <2>1, <2>2, <2>6, <2>9 DEF IInv, Books, UsesAreUnique
    <3>2. \A v, w \in uses' : v.user = w.user /\ v.key = w.key => v = w
      BY <2>1, <2>4, <2>6 DEF IInv, Books, UsesAreUnique
    <3> QED
      BY <3>1, <3>2 DEF UsesAreUnique
  <2>12. PaidForUses'
    <3> SUFFICES ASSUME NEW e \in entries'
                 PROVE  codes'[e.code] = Deleted \/ \E v \in uses' : v.code = e.code /\ v.user = e.user
      BY DEF PaidForUses
    <3>1. CASE e = entry
      BY <2>1, <2>6, <3>1 DEF entry
    <3>2. CASE e \in entries
      <4>1. e.code \in Codes
        BY <3>2 DEF IInv, Books, Tables
      <4>2. codes[e.code] = Deleted \/ \E v \in uses : v.code = e.code /\ v.user = e.user
        BY <3>2 DEF IInv, Books, PaidForUses
      <4>3. codes[e.code] = Deleted => codes'[e.code] = Deleted
        BY <2>3, <2>7, <4>1
      <4> QED
        BY <2>1, <4>2, <4>3
    <3> QED
      BY <2>1, <3>1, <3>2
  <2>13. BooksAgree'
    <3>1. ASSUME NEW d \in Codes, Exists(d)'
          PROVE  codes'[d].usedBy = {v.user : v \in {w \in uses' : w.code = d}}
      <4>1. codes[d].usedBy = {v.user : v \in {w \in uses : w.code = d}}
        BY <2>9, <3>1 DEF IInv, Books, BooksAgree
      <4>2. CASE d = c
        BY <2>1, <2>6, <2>8, <4>1, <4>2
      <4>3. CASE d # c
        BY <2>1, <2>6, <2>7, <4>1, <4>3
      <4> QED
        BY <4>2, <4>3
    <3>2. ASSUME NEW v \in Users
          PROVE  Cardinality(Of(v, entries')) = Cardinality(Of(v, uses'))
      <4>1. Cardinality(Of(v, entries)) = Cardinality(Of(v, uses))
        BY DEF IInv, Books, BooksAgree
      <4>2. CASE v # u
        <5>1. Of(v, entries') = Of(v, entries) /\ Of(v, uses') = Of(v, uses)
          BY <2>1, <2>6, <4>2 DEF Of, entry
        <5> QED
          BY <4>1, <5>1
      <4>3. CASE v = u
        <5>1. Of(v, entries') = Of(v, entries) \cup {entry} /\ Of(v, uses') = Of(v, uses) \cup {use}
          BY <2>1, <2>6, <4>3 DEF Of, entry
        <5>2. entry \notin Of(v, entries) /\ use \notin Of(v, uses)
          BY <2>5, <2>6 DEF Of
        <5>3. IsFiniteSet(Of(v, entries)) /\ IsFiniteSet(Of(v, uses))
          <6>1. Of(v, entries) \subseteq entries /\ Of(v, uses) \subseteq uses
            BY DEF Of
          <6> QED
            BY <6>1, FS_Subset DEF IInv, Books, Tables
        <5>4. /\ Cardinality(Of(v, entries) \cup {entry}) = Cardinality(Of(v, entries)) + 1
              /\ Cardinality(Of(v, uses) \cup {use}) = Cardinality(Of(v, uses)) + 1
          BY <5>2, <5>3, FS_AddElement
        <5> QED
          BY <4>1, <5>1, <5>4
      <4> QED
        BY <4>2, <4>3
    <3> QED
      BY <3>1, <3>2 DEF BooksAgree
  <2>14. Transactions'
    BY <2>1 DEF IInv, Work, Transactions
  <2>15. RowsAreLocked'
    <3>1. ASSUME NEW s \in redeeming', s.stage = "code"
          PROVE  s.locked /\ Usable(s.code)' /\ s.row.key = codes'[s.code].key
      <4>1. s \in redeeming /\ s # r /\ s.code \in Codes
        BY <2>1 DEF IInv, Work, Transactions, IsRequest
      <4>2. s.locked /\ Usable(s.code) /\ s.row.key = codes[s.code].key
        BY <3>1, <4>1 DEF IInv, Work, RowsAreLocked
      <4>3. s.code # c
        BY <2>2, <4>1, <4>2 DEF IInv, Work, RowsAreLocked
      <4>4. codes'[s.code] = codes[s.code]
        BY <2>7, <4>1, <4>3
      <4> QED
        BY <4>2, <4>4 DEF Usable, Exists
    <3> QED
      BY <2>1, <3>1 DEF IInv, Work, RowsAreLocked
  <2>16. DeletionKnows'
    <3> SUFFICES ASSUME deleting.stage # "none"
                 PROVE  /\ deleting.had \subseteq Of(deleting.user, entries')
                        /\ deleting.stage = "rows" =>
                             \A d \in UsedBy(deleting.user)' \ deleting.codes :
                               [code |-> d, user |-> deleting.user] \in entries' \ deleting.had
      BY <2>1 DEF DeletionKnows
    <3>1. deleting.had \subseteq Of(deleting.user, entries)
      BY DEF IInv, Work, DeletionKnows
    <3>2. ASSUME deleting.stage = "rows", NEW d \in UsedBy(deleting.user)', d \notin deleting.codes
          PROVE  [code |-> d, user |-> deleting.user] \in entries' \ deleting.had
      <4>1. d \in Codes /\ Exists(d) /\ deleting.user \in codes'[d].usedBy
        BY <2>1, <2>9, <3>2 DEF UsedBy
      <4>2. CASE d \in UsedBy(deleting.user)
        BY <2>1, <3>2, <4>2 DEF IInv, Work, DeletionKnows
      <4>3. CASE d \notin UsedBy(deleting.user)
        <5>1. deleting.user \notin codes[d].usedBy
          BY <4>1, <4>3 DEF UsedBy
        <5>2. d = c /\ deleting.user = u
          BY <2>7, <2>8, <4>1, <5>1
        <5>3. entry \notin deleting.had
          BY <2>5, <3>1 DEF Of
        <5> QED
          BY <2>1, <5>2, <5>3 DEF entry
      <4> QED
        BY <4>2, <4>3
    <3> QED
      BY <2>1, <3>1, <3>2 DEF Of
  <2>17. CallsAreSound'
    BY <2>1 DEF IInv, CallsAreSound
  <2>18. ByTheRules
    <3>1. \A e \in entries' \ entries : e.code = c /\ e.user = u
      BY <2>1 DEF entry
    <3> QED
      BY <2>2, <2>4, <3>1 DEF ByTheRules, Of
  <2> QED
    BY <2>10, <2>11, <2>12, <2>13, <2>14, <2>15, <2>16, <2>17, <2>18 DEF IInv, Books, Work
<1> QED
  BY <1>1, <1>2

-----------------------------------------------------------------------------
(* deleteUser *)

(* The deletion has seen the wallet entries there are. *)
LEMMA DeleteUserStep ==
  ASSUME IInv, NEW u \in Users, DeleteUser(u)
  PROVE  IInv'
<1>1. /\ deleting' = [NoDeletion EXCEPT !.user = u, !.stage = "entries", !.had = Of(u, entries)]
      /\ UNCHANGED <<books, redeeming, net>>
      /\ deleting = NoDeletion
  BY DEF DeleteUser
<1>2. /\ DOMAIN deleting' = DeletionFields
      /\ deleting'.user = u /\ deleting'.stage = "entries" /\ deleting'.codes = {}
      /\ deleting'.had = Of(u, entries)
  BY <1>1 DEF NoDeletion, DeletionFields
<1>3. deleting.codes = {}
  BY <1>1 DEF NoDeletion
<1>4. UNCHANGED <<codes, entries, redeeming>>
  BY <1>1 DEF books
<1>5. Books' /\ CallsAreSound'
  BY <1>1, BooksKept DEF IInv, CallsAreSound
<1>6. Transactions'
  BY <1>2, <1>4 DEF IInv, Work, Transactions
<1>7. DeletionKnows'
  BY <1>2, <1>4 DEF DeletionKnows, Of
<1>8. RowsAreLocked'
  BY <1>2, <1>3, <1>4 DEF IInv, Work, RowsAreLocked, Usable, Exists
<1> QED
  BY <1>5, <1>6, <1>7, <1>8 DEF IInv, Work

(* The rows of the codes are locked one after the other; a redemption that  *)
(* holds one is waited for.                                                 *)
LEMMA DeleteUsesStep ==
  ASSUME IInv, DeleteUses
  PROVE  IInv'
<1>1. /\ deleting' = [deleting EXCEPT !.stage = "rows", !.codes = UsedBy(deleting.user)]
      /\ UNCHANGED <<books, redeeming, net>>
      /\ deleting.stage = "entries"
      /\ \A c \in UsedBy(deleting.user) : CodeFree(c)
  BY DEF DeleteUses
<1>2. DOMAIN deleting = DeletionFields
  BY DEF IInv, Work, Transactions
<1>3. /\ DOMAIN deleting' = DeletionFields
      /\ deleting'.user = deleting.user /\ deleting'.had = deleting.had
      /\ deleting'.stage = "rows" /\ deleting'.codes = UsedBy(deleting.user)
  BY <1>1, <1>2 DEF DeletionFields
<1>4. UNCHANGED <<codes, entries, redeeming>>
  BY <1>1 DEF books
<1>5. Books' /\ CallsAreSound'
  BY <1>1, BooksKept DEF IInv, CallsAreSound
<1>6. Transactions'
  BY <1>3, <1>4 DEF IInv, Work, Transactions, UsedBy
<1>7. DeletionKnows'
  <2>1. UsedBy(deleting.user)' = UsedBy(deleting.user)
    BY <1>3, <1>4 DEF UsedBy, Exists
  <2>2. deleting.had \subseteq Of(deleting.user, entries)
    BY <1>1 DEF IInv, Work, DeletionKnows
  <2> QED
    BY <1>3, <1>4, <2>1, <2>2 DEF DeletionKnows, Of
<1>8. RowsAreLocked'
  BY <1>1, <1>3, <1>4 DEF IInv, Work, RowsAreLocked, Usable, Exists, CodeFree
<1> QED
  BY <1>5, <1>6, <1>7, <1>8 DEF IInv, Work

(* What holds of the transactions when no deletion is under way *)
LEMMA WithoutDeletion ==
  ASSUME deleting' = NoDeletion, UNCHANGED redeeming, IInv,
         \A c \in Codes \ deleting.codes :
           /\ Usable(c) => Usable(c)' 
           /\ Usable(c) => codes'[c].key = codes[c].key
  PROVE  Work'
<1>1. /\ DOMAIN deleting' = DeletionFields
      /\ deleting'.codes = {} /\ deleting'.stage = "none"
  BY DEF NoDeletion, DeletionFields
<1>2. Transactions' /\ DeletionKnows'
  BY <1>1 DEF IInv, Work, Transactions, DeletionKnows
<1>3. ASSUME NEW r \in redeeming
      PROVE  /\ r.locked => r.stage = "code"
             /\ r.stage = "code" => r.locked /\ Usable(r.code)' /\ r.row.key = codes'[r.code].key
  BY DEF IInv, Work, RowsAreLocked, Transactions, IsRequest
<1> QED
  BY <1>1, <1>2, <1>3 DEF Work, IInv, RowsAreLocked

(* A deletion that is rolled back leaves the books as they were. *)
LEMMA RolledBackStep ==
  ASSUME IInv, deleting' = NoDeletion, UNCHANGED <<books, redeeming, net>>
  PROVE  IInv'
<1>1. \A c \in Codes : (Usable(c)' <=> Usable(c)) /\ codes'[c].key = codes[c].key
  BY DEF books, Usable, Exists
<1>2. Work'
  BY <1>1, WithoutDeletion
<1>3. Books'
  BY BooksKept DEF IInv
<1> QED
  BY <1>2, <1>3 DEF IInv, CallsAreSound

(* Whichever transaction the database picks, it leaves nothing behind. *)
LEMMA DeadlockStep ==
  ASSUME IInv, NEW r \in redeeming, Deadlock(r)
  PROVE  IInv'
<1>1. UNCHANGED <<books, net>>
  BY DEF Deadlock
<1>2. CASE Ended(r) /\ UNCHANGED deleting
  BY <1>1, <1>2, EndedStep
<1>3. CASE deleting' = NoDeletion /\ UNCHANGED redeeming
  BY <1>1, <1>3, RolledBackStep
<1> QED
  BY <1>2, <1>3 DEF Deadlock

(* A deletion that commits holds the row of every code of the user, so no   *)
(* redemption has read one of them, and takes the user out of all the books. *)
LEMMA DeletionEndsStep ==
  ASSUME IInv, DeletionEnds
  PROVE  IInv'
<1> DEFINE u == deleting.user
<1>1. CASE Of(u, entries) # deleting.had
  BY <1>1, RolledBackStep DEF DeletionEnds
<1>2. CASE Of(u, entries) = deleting.had
  <2>1. /\ deleting' = NoDeletion /\ deleting.stage = "rows"
        /\ codes' = WithoutUser(u)
        /\ uses' = uses \ Of(u, uses)
        /\ entries' = entries \ Of(u, entries)
        /\ UNCHANGED <<redeeming, net>>
    BY <1>2 DEF DeletionEnds
  <2>2. UsedBy(u) \subseteq deleting.codes
    <3> SUFFICES ASSUME NEW c \in UsedBy(u), c \notin deleting.codes
                 PROVE  FALSE
      OBVIOUS
    <3>1. [code |-> c, user |-> u] \in entries \ deleting.had
      BY <2>1 DEF IInv, Work, DeletionKnows
    <3>2. [code |-> c, user |-> u].user = u
      OBVIOUS
    <3>3. [code |-> c, user |-> u] \in Of(u, entries)
      BY <3>1, <3>2 DEF Of
    <3> QED
      BY <1>2, <3>1, <3>3
  <2>3. ASSUME NEW c \in Codes, Exists(c)
        PROVE  /\ IsRow(codes'[c]) /\ codes'[c].usedBy = codes[c].usedBy \ {u}
               /\ codes'[c].key = codes[c].key /\ codes'[c].max = codes[c].max
               /\ codes'[c].active = codes[c].active
    <3> DEFINE row == codes[c]
               v == row.usedBy \ {u}
    <3>1. codes'[c] = [row EXCEPT !.usedBy = v]
      BY <2>1, <2>3 DEF WithoutUser
    <3>2. DOMAIN row = RowFields
      BY <2>3 DEF IInv, Books, Tables, IsRow
    <3> HIDE DEF row, v
    <3>3. /\ DOMAIN [row EXCEPT !.usedBy = v] = RowFields
          /\ [row EXCEPT !.usedBy = v].usedBy = v
          /\ [row EXCEPT !.usedBy = v].key = row.key
          /\ [row EXCEPT !.usedBy = v].max = row.max
          /\ [row EXCEPT !.usedBy = v].active = row.active
      BY <3>2 DEF RowFields
    <3> QED
      BY <3>1, <3>3 DEF row, v, IsRow
  <2>4. \A c \in Codes : ~Exists(c) => codes'[c] = codes[c]
    BY <2>1 DEF WithoutUser
  <2>5. DOMAIN codes' = Codes
    BY <2>1 DEF WithoutUser
  <2>6. \A c \in Codes : Exists(c)' <=> Exists(c)
    BY <2>3, <2>4, RowFacts DEF Exists
  <2>7. \A c \in Codes : codes[c] = Deleted => codes'[c] = Deleted
    BY <2>4 DEF Exists
  <2>8. \A c \in Codes \ deleting.codes :
          /\ Usable(c) => Usable(c)'
          /\ Usable(c) => codes'[c].key = codes[c].key
    <3> SUFFICES ASSUME NEW c \in Codes, c \notin deleting.codes, Usable(c)
                 PROVE  Usable(c)' /\ codes'[c].key = codes[c].key
      OBVIOUS
    <3>1. Exists(c) /\ Exists(c)'
      BY <2>6 DEF Usable
    <3>2. u \notin codes[c].usedBy
      BY <2>2, <3>1 DEF UsedBy
    <3>3. codes'[c].usedBy = codes[c].usedBy
      BY <2>3, <3>1, <3>2
    <3> QED
      BY <2>3, <3>1, <3>3 DEF Usable
  <2>9. Work'
    BY <2>1, <2>8, WithoutDeletion
  <2>10. Tables'
    <3>1. IsFiniteSet(uses') /\ IsFiniteSet(entries')
      BY <2>1, FS_Subset DEF IInv, Books, Tables
    <3> QED
      BY <2>1, <2>3, <2>5, <2>6, <3>1 DEF IInv, Books, Tables
  <2>11. UsesAreUnique'
    BY <2>1, <2>6 DEF IInv, Books, UsesAreUnique
  <2>12. PaidForUses'
    <3> SUFFICES ASSUME NEW e \in entries'
                 PROVE  codes'[e.code] = Deleted \/ \E v \in uses' : v.code = e.code /\ v.user = e.user
      BY DEF PaidForUses
    <3>1. e \in entries /\ e.user # u /\ e.code \in Codes
      BY <2>1 DEF Of, IInv, Books, Tables
    <3>2. codes[e.code] = Deleted \/ \E v \in uses : v.code = e.code /\ v.user = e.user
      BY <3>1 DEF IInv, Books, PaidForUses
    <3> QED
      BY <2>1, <2>7, <3>1, <3>2 DEF Of
  <2>13. BooksAgree'
    <3>1. ASSUME NEW c \in Codes, Exists(c)'
          PROVE  codes'[c].usedBy = {v.user : v \in {w \in uses' : w.code = c}}
      <4>1. codes[c].usedBy = {v.user : v \in {w \in uses : w.code = c}}
        BY <2>6, <3>1 DEF IInv, Books, BooksAgree
      <4>2. codes'[c].usedBy = codes[c].usedBy \ {u}
        BY <2>3, <2>6, <3>1
      <4> QED
        BY <2>1, <4>1, <4>2 DEF Of
    <3>2. ASSUME NEW v \in Users
          PROVE  Cardinality(Of(v, entries')) = Cardinality(Of(v, uses'))
      <4>1. CASE v = u
        <5>1. Of(v, entries') = {} /\ Of(v, uses') = {}
          BY <2>1, <4>1 DEF Of
        <5> QED
          BY <5>1
      <4>2. CASE v # u
        <5>1. Of(v, entries') = Of(v, entries) /\ Of(v, uses') = Of(v, uses)
          BY <2>1, <4>2 DEF Of
        <5> QED
          BY <5>1 DEF IInv, Books, BooksAgree
      <4> QED
        BY <4>1, <4>2
    <3> QED
      BY <3>1, <3>2 DEF BooksAgree
  <2> QED
    BY <2>1, <2>9, <2>10, <2>11, <2>12, <2>13 DEF IInv, Books, CallsAreSound
<1> QED
  BY <1>1, <1>2


-----------------------------------------------------------------------------
(* createCode, patchCode and deleteCode *)

(* A new code takes the place of none, so nothing refers to it yet. *)
LEMMA ServeCreateStep ==
  ASSUME RedemptionAssumption, IInv, NEW q \in net, ServeCreate(q)
  PROVE  IInv'
<1>1. PICK made \in SUBSET {c \in Codes : codes[c] = NoRow} :
        /\ codes' = [c \in Codes |-> IF c \in made THEN Row(q.patch.key, MaxUses) ELSE codes[c]]
        /\ Moved(q, [q EXCEPT !.stage = "answered", !.made = SetToSeq(made)])
  BY DEF ServeCreate
<1>2. q.kind = "create" /\ UNCHANGED <<uses, entries, redeeming, deleting>>
  BY DEF ServeCreate
<1>3. /\ DOMAIN codes' = Codes
      /\ \A c \in Codes \ made : codes'[c] = codes[c]
      /\ \A c \in made : IsRow(codes'[c]) /\ codes'[c].usedBy = {}
  BY <1>1, RowFacts
<1>4. \A c \in made : c \in Codes /\ ~Exists(c) /\ codes[c] # Deleted
  BY RowFacts DEF Exists
<1>5. \A c \in Codes : Exists(c)' <=> Exists(c) \/ c \in made
  BY <1>3, RowFacts DEF Exists
<1>6. \A v \in uses : v.code \notin made
  BY <1>4 DEF IInv, Books, UsesAreUnique, RedemptionAssumption
<1>7. CallsAreSound'
  <2> DEFINE s == [q EXCEPT !.stage = "answered", !.made = SetToSeq(made)]
  <2>1. DOMAIN q = CallFields
    BY DEF IInv, CallsAreSound, IsCall
  <2>2. DOMAIN s = CallFields /\ s.kind = q.kind
    BY <2>1 DEF CallFields
  <2>3. Moved(q, s)
    BY <1>1
  <2> HIDE DEF s
  <2>4. IsCall(s)
    BY <1>2, <2>2 DEF IsCall
  <2> QED
    BY <2>3, <2>4, NetStep DEF IInv
<1>8. Tables'
  BY <1>2, <1>3, <1>5 DEF IInv, Books, Tables
<1>9. UsesAreUnique'
  BY <1>2, <1>5 DEF IInv, Books, UsesAreUnique
<1>10. PaidForUses'
  <2> SUFFICES ASSUME NEW e \in entries
               PROVE  codes'[e.code] = Deleted \/ \E v \in uses : v.code = e.code /\ v.user = e.user
    BY <1>2 DEF PaidForUses
  <2>1. e.code \in Codes
    BY DEF IInv, Books, Tables
  <2>2. codes[e.code] = Deleted => codes'[e.code] = Deleted
    BY <1>3, <1>4, <2>1
  <2> QED
    BY <2>2 DEF IInv, Books, PaidForUses
<1>11. BooksAgree'
  <2>1. ASSUME NEW c \in Codes, Exists(c)'
        PROVE  codes'[c].usedBy = {v.user : v \in {w \in uses : w.code = c}}
    <3>1. CASE c \in made
      BY <1>3, <1>6, <3>1
    <3>2. CASE c \notin made
      BY <1>3, <1>5, <2>1, <3>2 DEF IInv, Books, BooksAgree
    <3> QED
      BY <3>1, <3>2
  <2> QED
    BY <1>2, <2>1 DEF IInv, Books, BooksAgree, Of
<1>12. Work'
  <2>1. Transactions'
    BY <1>2 DEF IInv, Work, Transactions
  <2>2. ASSUME NEW r \in redeeming, r.stage = "code"
        PROVE  r.locked /\ Usable(r.code)' /\ r.row.key = codes'[r.code].key
    <3>1. r.code \in Codes /\ r.locked /\ Usable(r.code) /\ r.row.key = codes[r.code].key
      BY <2>2 DEF IInv, Work, Transactions, IsRequest, RowsAreLocked
    <3>2. r.code \notin made
      BY <1>4, <3>1 DEF Usable
    <3>3. codes'[r.code] = codes[r.code]
      BY <1>3, <3>1, <3>2
    <3> QED
      BY <3>1, <3>3 DEF Usable, Exists
  <2>3. RowsAreLocked'
    BY <1>2, <2>2 DEF IInv, Work, RowsAreLocked
  <2>4. UsedBy(deleting.user)' \subseteq UsedBy(deleting.user)
    BY <1>2, <1>3, <1>5 DEF UsedBy
  <2>5. DeletionKnows'
    BY <1>2, <2>4 DEF IInv, Work, DeletionKnows, Of
  <2> QED
    BY <2>1, <2>3, <2>5 DEF Work
<1> QED
  BY <1>7, <1>8, <1>9, <1>10, <1>11, <1>12 DEF IInv, Books

(* A patch waits for the row's lock, and leaves the array as it is then. *)
LEMMA PatchCodeStep ==
  ASSUME IInv, NEW q \in net, PatchCode(q)
  PROVE  IInv'
<1> DEFINE c == q.code
<1>1. /\ q.kind = "patch" /\ q.stage = "read" /\ CodeFree(c)
      /\ UNCHANGED <<uses, entries, redeeming, deleting>>
  BY DEF PatchCode
<1>2. IsCall(q) /\ c \in Codes /\ IsRow(q.row)
  BY <1>1 DEF IInv, CallsAreSound, IsCall
<1>3. CASE ~Exists(c)
  <2>1. Refused(q) /\ UNCHANGED books
    BY <1>3 DEF PatchCode, books
  <2>2. CallsAreSound' /\ Books' /\ Work'
    BY <1>1, <2>1, RefusedStep, BooksKept, WorkKept DEF IInv
  <2> QED
    BY <2>2 DEF IInv
<1>4. CASE Exists(c)
  <2>1. /\ codes' = [codes EXCEPT ![c] = Patched(q)]
        /\ Moved(q, [q EXCEPT !.stage = "answered", !.row = codes'[c]])
    BY <1>4 DEF PatchCode
  <2>2. DOMAIN codes = Codes
    BY DEF IInv, Books, Tables
  <2>3. /\ DOMAIN codes' = Codes
        /\ codes'[c] = Patched(q)
        /\ \A d \in Codes \ {c} : codes'[d] = codes[d]
    BY <1>2, <2>1, <2>2
  <2>4. IsRow(codes'[c]) /\ codes'[c].usedBy = codes[c].usedBy
    BY <1>2, <2>3, PatchedFacts
  <2>5. \A d \in Codes : Exists(d)' <=> Exists(d)
    BY <1>4, <2>3, <2>4, RowFacts DEF Exists
  <2>6. \A d \in Codes : codes'[d].usedBy = codes[d].usedBy
    BY <2>3, <2>4
  <2>7. CallsAreSound'
    <3> DEFINE s == [q EXCEPT !.stage = "answered", !.row = codes'[c]]
    <3>1. DOMAIN q = CallFields
      BY <1>2 DEF IsCall
    <3>2. DOMAIN s = CallFields /\ s.kind = q.kind /\ s.code = c /\ s.stage = "answered"
      BY <3>1 DEF CallFields
    <3>3. Moved(q, s)
      BY <2>1
    <3> HIDE DEF s
    <3>4. IsCall(s)
      BY <1>2, <3>2 DEF IsCall
    <3> QED
      BY <3>3, <3>4, NetStep DEF IInv
  <2>8. Tables'
    <3>1. \A d \in Codes : Exists(d)' => IsRow(codes'[d])
      BY <2>3, <2>4, <2>5 DEF IInv, Books, Tables
    <3> QED
      BY <1>1, <2>3, <3>1 DEF IInv, Books, Tables
  <2>9. UsesAreUnique'
    BY <1>1, <2>5 DEF IInv, Books, UsesAreUnique
  <2>10. PaidForUses'
    <3> SUFFICES ASSUME NEW e \in entries
                 PROVE  codes'[e.code] = Deleted \/ \E v \in uses : v.code = e.code /\ v.user = e.user
      BY <1>1 DEF PaidForUses
    <3>1. e.code \in Codes
      BY DEF IInv, Books, Tables
    <3>2. codes[e.code] = Deleted => codes'[e.code] = Deleted
      BY <1>4, <2>3, <3>1 DEF Exists
    <3> QED
      BY <3>2 DEF IInv, Books, PaidForUses
  <2>11. BooksAgree'
    BY <1>1, <2>5, <2>6 DEF IInv, Books, BooksAgree, Of
  <2>12. Transactions'
    BY <1>1 DEF IInv, Work, Transactions
  <2>13. ASSUME NEW r \in redeeming, r.stage = "code"
         PROVE  r.locked /\ Usable(r.code)' /\ r.row.key = codes'[r.code].key
    <3>1. r.code \in Codes /\ r.locked /\ Usable(r.code) /\ r.row.key = codes[r.code].key
      BY <2>13 DEF IInv, Work, Transactions, IsRequest, RowsAreLocked
    <3>2. r.code # c
      BY <1>1, <3>1 DEF CodeFree
    <3>3. codes'[r.code] = codes[r.code]
      BY <2>3, <3>1, <3>2
    <3> QED
      BY <3>1, <3>3 DEF Usable, Exists
  <2>14. RowsAreLocked'
    BY <1>1, <2>13 DEF IInv, Work, RowsAreLocked
  <2>15. UsedBy(deleting.user)' = UsedBy(deleting.user)
    BY <1>1, <2>5, <2>6 DEF UsedBy
  <2>16. DeletionKnows'
    BY <1>1, <2>15 DEF IInv, Work, DeletionKnows, Of
  <2> QED
    BY <2>7, <2>8, <2>9, <2>10, <2>11, <2>12, <2>14, <2>16 DEF IInv, Books, Work
<1> QED
  BY <1>3, <1>4

(* One to one onto what it is mapped to, a finite set has as many elements. *)
LEMMA SameNumber ==
  ASSUME NEW S, IsFiniteSet(S), NEW f, DOMAIN f = S, \A x, y \in S : f[x] = f[y] => x = y
  PROVE  LET T == {f[x] : x \in S} IN IsFiniteSet(T) /\ Cardinality(T) = Cardinality(S)
<1> DEFINE T == {f[x] : x \in S}
           g == [x \in S |-> f[x]]
<1>1. g \in [S -> T] /\ \A x, y \in S : g[x] = g[y] => x = y
  OBVIOUS
<1>2. \A t \in T : \E x \in S : g[x] = t
  OBVIOUS
<1>3. g \in Bijection(S, T)
  <2>1. DOMAIN g = S
    OBVIOUS
  <2> HIDE DEF g, T
  <2> QED
    BY <1>1, <1>2, <2>1 DEF Bijection, Injection, Surjection, IsInjective
<1> HIDE DEF g, T
<1>4. ExistsBijection(S, T)
  BY <1>3 DEF ExistsBijection
<1>5. IsFiniteSet(T) /\ Cardinality(T) = Cardinality(S)
  BY <1>4, FS_Bijection
<1> QED
  BY <1>5 DEF T

(* ON DELETE SET NULL leaves every use with its user and its activity. *)
LEMMA DeleteCodeStep ==
  ASSUME RedemptionAssumption, IInv, NEW q \in net, DeleteCode(q)
  PROVE  IInv'
<1> DEFINE c == q.code
           f == [use \in uses |-> IF use.code = c THEN [use EXCEPT !.code = NoCode] ELSE use]
<1>1. /\ q.kind = "delete" /\ CodeFree(c)
      /\ codes' = [codes EXCEPT ![c] = IF Exists(c) THEN Deleted ELSE @]
      /\ uses' = {f[use] : use \in uses}
      /\ Moved(q, [q EXCEPT !.stage = "answered"])
      /\ UNCHANGED <<entries, redeeming, deleting>>
  BY DEF DeleteCode
<1>2. IsCall(q) /\ c \in Codes /\ NoCode \notin Codes
  BY <1>1 DEF IInv, CallsAreSound, IsCall, RedemptionAssumption
<1>3. /\ DOMAIN codes' = Codes
      /\ codes'[c] = IF Exists(c) THEN Deleted ELSE codes[c]
      /\ \A d \in Codes \ {c} : codes'[d] = codes[d]
  <2>1. DOMAIN codes = Codes
    BY DEF IInv, Books, Tables
  <2> QED
    BY <1>1, <1>2, <2>1
<1>4. \A d \in Codes : Exists(d)' <=> Exists(d) /\ d # c
  BY <1>2, <1>3 DEF Exists
<1>5. ASSUME NEW v \in uses
      PROVE  /\ IsUse(f[v]) /\ f[v].user = v.user /\ f[v].key = v.key
             /\ f[v].code = IF v.code = c THEN NoCode ELSE v.code
  <2>1. DOMAIN v = UseFields
    BY DEF IInv, Books, Tables, IsUse
  <2>2. CASE v.code = c
    <3>1. /\ DOMAIN [v EXCEPT !.code = NoCode] = UseFields
          /\ [v EXCEPT !.code = NoCode].user = v.user
          /\ [v EXCEPT !.code = NoCode].key = v.key
          /\ [v EXCEPT !.code = NoCode].code = NoCode
      BY <2>1 DEF UseFields
    <3>2. f[v] = [v EXCEPT !.code = NoCode]
      BY <2>2
    <3> QED
      BY <2>2, <3>1, <3>2 DEF IsUse
  <2>3. CASE v.code # c
    BY <2>1, <2>3 DEF IsUse
  <2> QED
    BY <2>2, <2>3
<1>6. DOMAIN f = uses
  OBVIOUS
<1> HIDE DEF f
<1>7. \A v, w \in uses : f[v].user = f[w].user /\ f[v].key = f[w].key => v = w
  BY <1>5 DEF IInv, Books, UsesAreUnique
<1>8. CallsAreSound'
  <2> DEFINE s == [q EXCEPT !.stage = "answered"]
  <2>1. DOMAIN q = CallFields
    BY <1>2 DEF IsCall
  <2>2. DOMAIN s = CallFields /\ s.kind = q.kind /\ s.code = c
    BY <2>1 DEF CallFields
  <2>3. Moved(q, s)
    BY <1>1
  <2> HIDE DEF s
  <2>4. IsCall(s)
    BY <1>1, <1>2, <2>2 DEF IsCall
  <2> QED
    BY <2>3, <2>4, NetStep DEF IInv
<1>9. Tables'
  <2>1. IsFiniteSet(uses')
    BY <1>1, <1>6, <1>7, SameNumber DEF IInv, Books, Tables
  <2>2. \A d \in Codes : Exists(d)' => IsRow(codes'[d])
    BY <1>3, <1>4 DEF IInv, Books, Tables
  <2>3. \A v \in uses' : IsUse(v)
    BY <1>1, <1>5
  <2> QED
    BY <1>1, <1>3, <2>1, <2>2, <2>3 DEF IInv, Books, Tables
<1>10. UsesAreUnique'
  <2>1. ASSUME NEW w \in uses', w.code # NoCode
        PROVE  w.code \in Codes /\ Exists(w.code)'
    <3>1. PICK v \in uses : w = f[v]
      BY <1>1
    <3>2. v.code # c /\ w.code = v.code
      BY <1>5, <2>1, <3>1
    <3> QED
      BY <1>4, <2>1, <3>2 DEF IInv, Books, UsesAreUnique
  <2>2. \A v, w \in uses' : v.user = w.user /\ v.key = w.key => v = w
    BY <1>1, <1>7
  <2> QED
    BY <1>1, <2>1, <2>2 DEF UsesAreUnique
<1>11. PaidForUses'
  <2> SUFFICES ASSUME NEW e \in entries
               PROVE  codes'[e.code] = Deleted \/ \E v \in uses' : v.code = e.code /\ v.user = e.user
    BY <1>1 DEF PaidForUses
  <2>1. e.code \in Codes
    BY DEF IInv, Books, Tables
  <2>2. CASE codes[e.code] = Deleted
    BY <1>3, <2>1, <2>2
  <2>3. CASE codes[e.code] # Deleted
    <3>1. PICK v \in uses : v.code = e.code /\ v.user = e.user
      BY <2>3 DEF IInv, Books, PaidForUses
    <3>2. CASE e.code = c
      <4>1. Exists(c)
        BY <1>2, <3>1, <3>2 DEF IInv, Books, UsesAreUnique
      <4> QED
        BY <1>3, <3>2, <4>1
    <3>3. CASE e.code # c
      BY <1>1, <1>5, <3>1, <3>3
    <3> QED
      BY <3>2, <3>3
  <2> QED
    BY <2>2, <2>3
<1>12. BooksAgree'
  <2>1. ASSUME NEW d \in Codes, Exists(d)'
        PROVE  codes'[d].usedBy = {v.user : v \in {w \in uses' : w.code = d}}
    <3>1. d # c /\ Exists(d)
      BY <1>4, <2>1
    <3>2. codes'[d].usedBy = {v.user : v \in {w \in uses : w.code = d}}
      BY <1>3, <3>1 DEF IInv, Books, BooksAgree
    <3>3. \A v \in uses : f[v].code = d <=> v.code = d
      BY <1>2, <1>5, <3>1
    <3> QED
      BY <1>1, <1>5, <3>2, <3>3
  <2>2. ASSUME NEW u \in Users
        PROVE  Cardinality(Of(u, entries)) = Cardinality(Of(u, uses'))
    <3> DEFINE S == Of(u, uses)
               g == [v \in S |-> f[v]]
    <3>1. S \subseteq uses /\ IsFiniteSet(S)
      <4>1. S \subseteq uses
        BY DEF Of
      <4> QED
        BY <4>1, FS_Subset DEF IInv, Books, Tables
    <3>2. DOMAIN g = S /\ \A v, w \in S : g[v] = g[w] => v = w
      BY <1>7, <3>1
    <3>3. {g[v] : v \in S} = Of(u, uses')
      <4>1. \A v \in uses : f[v].user = u <=> v \in S
        BY <1>5 DEF Of
      <4>2. \A v \in S : g[v] = f[v]
        OBVIOUS
      <4> HIDE DEF S, g
      <4> QED
        BY <1>1, <3>1, <4>1, <4>2 DEF Of
    <3> HIDE DEF g
    <3>4. Cardinality(Of(u, uses')) = Cardinality(S)
      BY <3>1, <3>2, <3>3, SameNumber
    <3> QED
      BY <3>4 DEF IInv, Books, BooksAgree
  <2> QED
    BY <1>1, <2>1, <2>2 DEF BooksAgree
<1>13. Work'
  <2>1. Transactions'
    BY <1>1 DEF IInv, Work, Transactions
  <2>2. ASSUME NEW r \in redeeming, r.stage = "code"
        PROVE  r.locked /\ Usable(r.code)' /\ r.row.key = codes'[r.code].key
    <3>1. r.code \in Codes /\ r.locked /\ Usable(r.code) /\ r.row.key = codes[r.code].key
      BY <2>2 DEF IInv, Work, Transactions, IsRequest, RowsAreLocked
    <3>2. r.code # c
      BY <1>1, <3>1 DEF CodeFree
    <3>3. codes'[r.code] = codes[r.code]
      BY <1>3, <3>1, <3>2
    <3> QED
      BY <3>1, <3>3 DEF Usable, Exists
  <2>3. RowsAreLocked'
    BY <1>1, <2>2 DEF IInv, Work, RowsAreLocked
  <2>4. UsedBy(deleting.user)' \subseteq UsedBy(deleting.user)
    BY <1>1, <1>3, <1>4 DEF UsedBy
  <2>5. DeletionKnows'
    BY <1>1, <2>4 DEF IInv, Work, DeletionKnows, Of
  <2> QED
    BY <2>1, <2>3, <2>5 DEF Work
<1> QED
  BY <1>8, <1>9, <1>10, <1>11, <1>12, <1>13 DEF IInv, Books


-----------------------------------------------------------------------------
(* Where it starts, and the steps that write no books *)

(* The invariant holds of the books of what has been redeemed earlier. *)
LEMMA InitIInv ==
  ASSUME RedemptionAssumption, Init
  PROVE  IInv
<1> DEFINE UseOf(e) == [code |-> e.code, user |-> e.user, key |-> AKey]
           UsersOf(c) == {e.user : e \in {f \in Redeemed : f.code = c}}
<1>1. /\ uses = {UseOf(e) : e \in Redeemed} /\ entries = Redeemed
      /\ redeeming = {} /\ deleting = NoDeletion /\ net = {}
  BY DEF Init
<1>2. PICK max \in 1..MaxUses :
        codes = [c \in Codes |-> IF c \in Earlier THEN [Row(AKey, max) EXCEPT !.usedBy = UsersOf(c)] ELSE NoRow]
  BY DEF Init
<1>3. \A e \in Redeemed : e.code \in Earlier /\ e.user \in Users
  BY DEF RedemptionAssumption
<1>4. Earlier \subseteq Codes /\ NoCode \notin Codes /\ IsFiniteSet(Redeemed)
  BY DEF RedemptionAssumption
<1>5. \A e \in Redeemed : /\ IsUse(UseOf(e)) /\ UseOf(e).code = e.code
                          /\ UseOf(e).user = e.user /\ UseOf(e).key = AKey
  BY DEF IsUse, UseFields
<1>6. ASSUME NEW c \in Earlier
      PROVE  IsRow(codes[c]) /\ codes[c].usedBy = UsersOf(c)
  <2> DEFINE row == Row(AKey, max)
             v == UsersOf(c)
  <2>1. codes[c] = [row EXCEPT !.usedBy = v]
    BY <1>2, <1>4
  <2>2. DOMAIN row = RowFields
    BY RowFacts DEF IsRow
  <2> HIDE DEF row, v
  <2>3. DOMAIN [row EXCEPT !.usedBy = v] = RowFields /\ [row EXCEPT !.usedBy = v].usedBy = v
    BY <2>2 DEF RowFields
  <2> QED
    BY <2>1, <2>3 DEF IsRow, v
<1>7. DOMAIN codes = Codes /\ \A c \in Codes \ Earlier : codes[c] = NoRow
  BY <1>2
<1>8. \A c \in Codes : Exists(c) <=> c \in Earlier
  BY <1>6, <1>7, RowFacts DEF Exists
<1> HIDE DEF UseOf
<1>9. ASSUME NEW R \in SUBSET Redeemed
      PROVE  LET T == {UseOf(e) : e \in R} IN IsFiniteSet(T) /\ Cardinality(T) = Cardinality(R)
  <2> DEFINE g == [e \in R |-> UseOf(e)]
  <2>1. IsFiniteSet(R)
    BY <1>4, FS_Subset
  <2>2. DOMAIN g = R /\ \A d, e \in R : g[d] = g[e] => d = e
    <3>1. ASSUME NEW d \in R, NEW e \in R, UseOf(d) = UseOf(e)
          PROVE  d = e
      <4>1. d.user = e.user
        BY <1>5, <3>1
      <4> QED
        BY <4>1 DEF RedemptionAssumption
    <3> QED
      BY <3>1
  <2>3. {g[e] : e \in R} = {UseOf(e) : e \in R}
    OBVIOUS
  <2> HIDE DEF g
  <2> QED
    BY <2>1, <2>2, <2>3, SameNumber
<1>10. Tables
  <2>1. IsFiniteSet(uses) /\ IsFiniteSet(entries)
    BY <1>1, <1>4, <1>9
  <2>2. entries \subseteq [code : Codes, user : Users]
    BY <1>1, <1>4 DEF RedemptionAssumption
  <2> QED
    BY <1>1, <1>5, <1>6, <1>7, <1>8, <2>1, <2>2 DEF Tables
<1>11. UsesAreUnique
  <2>1. \A use \in uses : use.code \in Codes /\ Exists(use.code)
    BY <1>1, <1>3, <1>4, <1>5, <1>8
  <2>2. \A d, e \in Redeemed : d.user = e.user => d = e
    BY DEF RedemptionAssumption
  <2>3. \A v, w \in uses : v.user = w.user => v = w
    BY <1>1, <1>5, <2>2
  <2> QED
    BY <2>1, <2>3 DEF UsesAreUnique
<1>12. PaidForUses
  BY <1>1, <1>5 DEF PaidForUses
<1>13. BooksAgree
  <2>1. ASSUME NEW c \in Codes, Exists(c)
        PROVE  codes[c].usedBy = {use.user : use \in {v \in uses : v.code = c}}
    <3>1. codes[c].usedBy = UsersOf(c)
      BY <1>6, <1>8, <2>1
    <3> QED
      BY <1>1, <1>5, <3>1
  <2>2. ASSUME NEW u \in Users
        PROVE  Cardinality(Of(u, entries)) = Cardinality(Of(u, uses))
    <3>1. Of(u, entries) \subseteq Redeemed
      BY <1>1 DEF Of
    <3>2. {UseOf(e) : e \in Of(u, entries)} = Of(u, uses)
      BY <1>1, <1>5 DEF Of
    <3> QED
      BY <1>9, <3>1, <3>2
  <2> QED
    BY <2>1, <2>2 DEF BooksAgree
<1>14. Work
  <2>1. DOMAIN deleting = DeletionFields /\ deleting.codes = {} /\ deleting.stage = "none"
    BY <1>1 DEF NoDeletion, DeletionFields
  <2> QED
    BY <1>1, <2>1 DEF Work, Transactions, RowsAreLocked, DeletionKnows
<1> QED
  BY <1>1, <1>10, <1>11, <1>12, <1>13, <1>14 DEF IInv, Books, CallsAreSound

(* A call that is sent, goes on or ends moves no row. *)
LEMMA CallsOnly ==
  ASSUME IInv, UNCHANGED <<books, redeeming, deleting>>, CallsAreSound'
  PROVE  IInv'
  BY BooksKept, WorkKept DEF IInv

(* patchCode and deleteCode keep the row that they have read. *)
LEMMA ReadRowStep ==
  ASSUME IInv, NEW q \in net, ReadRow(q)
  PROVE  IInv'
<1>1. q.kind \in {"patch", "delete"} /\ UNCHANGED <<books, redeeming, deleting>>
  BY DEF ReadRow
<1>2. CASE Refused(q)
  BY <1>1, <1>2, RefusedStep, CallsOnly DEF IInv
<1>3. CASE ~Refused(q)
  <2> DEFINE s == [q EXCEPT !.stage = "read", !.row = codes[q.code]]
  <2>1. Exists(q.code) /\ Moved(q, s)
    BY <1>3 DEF ReadRow
  <2>2. DOMAIN q = CallFields /\ q.code \in Codes
    BY <1>1 DEF IInv, CallsAreSound, IsCall
  <2>3. DOMAIN s = CallFields /\ s.kind = q.kind /\ s.code = q.code /\ s.row = codes[q.code]
    BY <2>2 DEF CallFields
  <2> HIDE DEF s
  <2>4. IsRow(codes[q.code])
    BY <2>1, <2>2 DEF IInv, Books, Tables
  <2>5. IsCall(s)
    BY <2>2, <2>3, <2>4 DEF IsCall
  <2> QED
    BY <1>1, <2>1, <2>5, NetStep, CallsOnly DEF IInv
<1> QED
  BY <1>2, <1>3

(* A call that the page or another administrator sends *)
LEMMA SentStep ==
  ASSUME IInv, UNCHANGED <<books, redeeming, deleting>>, NEW s, IsCall(s), net' = net \cup {s}
  PROVE  IInv'
<1>1. CallsAreSound'
  BY DEF IInv, CallsAreSound
<1> QED
  BY <1>1, CallsOnly

(* The calls that change no code, and the gestures of the page *)
LEMMA PageStep ==
  ASSUME IInv,
         \/ Lose \/ ServeLoad \/ CloseCreatedCodesPopover \/ LoadAll \/ LoadArrives
         \/ \E q \in net : Deliver(q)
         \/ \E c \in Codes : ToggleCode(c) \/ DeleteButton(c) \/ \E patch \in Patches : OtherPatch(c, patch)
         \/ \E n \in 1..2, key \in Keys : CreateCode(n, key)
         \/ UNCHANGED vars
  PROVE  IInv' /\ UNCHANGED books
<1>1. UNCHANGED <<books, redeeming, deleting>>
  BY DEF Lose, ServeLoad, CloseCreatedCodesPopover, LoadAll, LoadArrives, Deliver, ToggleCode,
         DeleteButton, OtherPatch, CreateCode, vars
<1>2. CASE UNCHANGED net
  BY <1>1, <1>2, CallsOnly DEF IInv, CallsAreSound
<1>3. CASE ServeLoad \/ CloseCreatedCodesPopover \/ LoadAll \/ LoadArrives \/ UNCHANGED vars
  BY <1>2, <1>3 DEF ServeLoad, CloseCreatedCodesPopover, LoadAll, LoadArrives, vars
<1>4. CASE Lose
  BY <1>1, <1>2, <1>4, RefusedStep, CallsOnly DEF Lose, IInv
<1>5. ASSUME NEW q \in net, Deliver(q)
      PROVE  IInv'
  <2>1. CallsAreSound'
    BY <1>5 DEF Deliver, IInv, CallsAreSound
  <2> QED
    BY <1>1, <2>1, CallsOnly
<1>6. ASSUME NEW c \in Codes, ToggleCode(c) \/ DeleteButton(c) \/ \E patch \in Patches : OtherPatch(c, patch)
      PROVE  IInv'
  <2>1. CASE ToggleCode(c)
    <3>1. net' = net \cup {Call("patch", c, [active |-> ~list[Entry(c)].active], TRUE)}
      BY <2>1 DEF ToggleCode
    <3> QED
      BY <1>1, <3>1, CallFacts, SentStep
  <2>2. CASE DeleteButton(c)
    <3>1. net' = net \cup {Call("delete", c, <<>>, TRUE)}
      BY <2>2 DEF DeleteButton
    <3> QED
      BY <1>1, <3>1, CallFacts, SentStep
  <2>3. ASSUME NEW patch \in Patches, OtherPatch(c, patch)
        PROVE  IInv'
    <3>1. net' = net \cup {Call("patch", c, patch, FALSE)}
      BY <2>3 DEF OtherPatch
    <3> QED
      BY <1>1, <3>1, CallFacts, SentStep
  <2> QED
    BY <1>6, <2>1, <2>2, <2>3
<1>7. ASSUME NEW n \in 1..2, NEW key \in Keys, CreateCode(n, key)
      PROVE  IInv'
  <2>1. net' = net \cup {Call("create", NoCode, [count |-> n, key |-> key], TRUE)}
    BY <1>7 DEF CreateCode
  <2> QED
    BY <1>1, <2>1, CallFacts, SentStep
<1> QED
  BY <1>1, <1>3, <1>4, <1>5, <1>6, <1>7

-----------------------------------------------------------------------------
(* Every step *)

(* Only the commit of a redemption adds a wallet entry. *)
LEMMA NothingGranted ==
  ASSUME entries' \subseteq entries
  PROVE  ByTheRules
  BY DEF ByTheRules

(* Every step keeps the invariant and grants by the rules. *)
LEMMA IInvStep ==
  ASSUME RedemptionAssumption, IInv, [Next]_vars
  PROVE  IInv' /\ ByTheRules
<1>1. ASSUME NEW u \in Users, NEW c \in Codes, Redeem(u, c)
      PROVE  IInv' /\ ByTheRules
  <2>1. UNCHANGED entries
    BY <1>1 DEF Redeem, books
  <2> QED
    BY <1>1, <2>1, RedeemStep, NothingGranted
<1>2. ASSUME NEW r \in redeeming, LockUserWallet(r) \/ ReadCode(r) \/ Commit(r) \/ Deadlock(r)
      PROVE  IInv' /\ ByTheRules
  <2>1. CASE Commit(r)
    BY <2>1, CommitStep
  <2>2. CASE LockUserWallet(r) \/ ReadCode(r) \/ Deadlock(r)
    <3>1. UNCHANGED entries
      BY <2>2 DEF LockUserWallet, ReadCode, Deadlock, books
    <3> QED
      BY <2>2, <3>1, LockUserWalletStep, ReadCodeStep, DeadlockStep, NothingGranted
  <2> QED
    BY <1>2, <2>1, <2>2
<1>3. ASSUME NEW u \in Users, DeleteUser(u)
      PROVE  IInv' /\ ByTheRules
  <2>1. UNCHANGED entries
    BY <1>3 DEF DeleteUser, books
  <2> QED
    BY <1>3, <2>1, DeleteUserStep, NothingGranted
<1>4. CASE DeleteUses
  <2>1. UNCHANGED entries
    BY <1>4 DEF DeleteUses, books
  <2> QED
    BY <1>4, <2>1, DeleteUsesStep, NothingGranted
<1>5. CASE DeletionEnds
  <2>1. entries' \subseteq entries
    BY <1>5 DEF DeletionEnds, books
  <2> QED
    BY <1>5, <2>1, DeletionEndsStep, NothingGranted
<1>6. ASSUME NEW q \in net, ServeCreate(q) \/ ReadRow(q) \/ PatchCode(q) \/ DeleteCode(q)
      PROVE  IInv' /\ ByTheRules
  <2>1. UNCHANGED entries
    BY <1>6 DEF ServeCreate, ReadRow, PatchCode, DeleteCode, books
  <2> QED
    BY <1>6, <2>1, ServeCreateStep, ReadRowStep, PatchCodeStep, DeleteCodeStep, NothingGranted
<1>7. ASSUME \/ Lose \/ ServeLoad \/ CloseCreatedCodesPopover \/ LoadAll \/ LoadArrives
             \/ \E q \in net : Deliver(q)
             \/ \E c \in Codes : ToggleCode(c) \/ DeleteButton(c) \/ \E patch \in Patches : OtherPatch(c, patch)
             \/ \E n \in 1..2, key \in Keys : CreateCode(n, key)
             \/ UNCHANGED vars
      PROVE  IInv' /\ ByTheRules
  <2>1. IInv' /\ UNCHANGED books
    BY <1>7, PageStep
  <2> QED
    BY <2>1, NothingGranted DEF books
<1> QED
  BY <1>1, <1>2, <1>3, <1>4, <1>5, <1>6, <1>7 DEF Next, Redemptions, Calls

(* The invariant holds in every state that the codes, their users and the   *)
(* administrators can reach.                                                *)
THEOREM IInvAlways ==
  ASSUME RedemptionAssumption
  PROVE  Spec => []IInv
<1>1. Init => IInv
  BY InitIInv
<1>2. IInv /\ [Next]_vars => IInv'
  BY IInvStep
<1> QED
  BY <1>1, <1>2, PTL DEF Spec

(* The array of users of a code, the uses and the wallet entries tell the   *)
(* same story after every step: however redemptions, deletions of users and *)
(* changes and deletions of codes interleave, with whatever they have read. *)
THEOREM BooksAlwaysAgree ==
  ASSUME RedemptionAssumption
  PROVE  Spec => []BooksAgree
<1>1. IInv => BooksAgree
  BY DEF IInv, Books
<1> QED
  BY <1>1, IInvAlways, PTL

(* A redemption is granted only while the code is active and has a use      *)
(* left, and once to a user of an activity, and the books agree afterwards: *)
(* redeem(), which decides on the row it has locked, keeps the rules of the *)
(* code whatever is done to it in between.                                  *)
THEOREM RedemptionsSound ==
  ASSUME RedemptionAssumption
  PROVE  Spec => [][Sound]_vars
<1>1. IInv /\ [Next]_vars => [Sound]_vars
  BY IInvStep DEF Sound, IInv, Books
<1> QED
  BY <1>1, IInvAlways, PTL DEF Spec

-----------------------------------------------------------------------------
(* The types of the rows, the calls and the tab *)

RowIsSound(row) == row.max \in 1..MaxUses /\ row.key \in Keys

PatchIsSound(patch) ==
  /\ "max" \in DOMAIN patch => patch.max \in 1..MaxUses
  /\ "key" \in DOMAIN patch => patch.key \in Keys

CallIsSound(q) ==
  /\ q.kind = "create" => q.patch.count \in 1..2 /\ q.patch.key \in Keys
  /\ q.kind = "create" /\ q.stage = "answered" => q.made \in Seq(Codes) /\ q.made # <<>>
  /\ q.kind = "patch" => PatchIsSound(q.patch)
  /\ q.kind = "patch" /\ q.stage = "read" => RowIsSound(q.row)

(* A list of codes *)
IsListing(s) == s \in Seq({s[i] : i \in DOMAIN s}) /\ \A i \in DOMAIN s : s[i].code \in Codes

RowsAreSound == \A c \in Codes : Exists(c) => RowIsSound(codes[c])

(* Who holds a wallet's lock has a row, which a deletion waits for: what a  *)
(* redemption writes is of a user there is.                                 *)
UsersAreThere ==
  /\ users \subseteq Users
  /\ \A use \in uses : use.user \in users /\ use.key \in Keys
  /\ \A e \in entries : e.user \in users
  /\ \A r \in redeeming : HasWallet(r) => r.user \in users

CallsCarryRows == \A q \in net : CallIsSound(q)

TabIsSound ==
  /\ IsListing(list)
  /\ load.stage = "answered" => IsListing(load.rows)
  /\ popover => created # <<>>

Types == RowsAreSound /\ UsersAreThere /\ CallsCarryRows /\ TabIsSound

(* A sequence of entries of codes is a list of codes, and so are two lists, *)
(* one after the other, and a list with an entry replaced.                  *)
LEMMA ListingOf ==
  ASSUME NEW n \in Nat, NEW s, DOMAIN s = 1..n, s = [i \in 1..n |-> s[i]],
         \A i \in 1..n : s[i].code \in Codes
  PROVE  IsListing(s)
<1> DEFINE S == {s[i] : i \in DOMAIN s}
<1>1. \A i \in 1..n : s[i] \in S
  OBVIOUS
<1> HIDE DEF S
<1>2. s \in Seq(S)
  BY <1>1
<1> QED
  BY <1>2 DEF S, IsListing

\* A listing is a sequence of entries of codes.
LEMMA ListingFacts ==
  ASSUME NEW s, IsListing(s)
  PROVE  /\ Len(s) \in Nat /\ DOMAIN s = 1..Len(s) /\ s = [i \in 1..Len(s) |-> s[i]]
         /\ \A i \in 1..Len(s) : s[i].code \in Codes
<1> DEFINE S == {s[i] : i \in DOMAIN s}
<1>1. s \in Seq(S)
  BY DEF IsListing
<1> HIDE DEF S
<1>2. Len(s) \in Nat /\ DOMAIN s = 1..Len(s) /\ s = [i \in 1..Len(s) |-> s[i]]
  BY <1>1
<1> QED
  BY <1>2 DEF IsListing

\* Two listings joined are one.
LEMMA ListingsJoin ==
  ASSUME NEW s, NEW t, IsListing(s), IsListing(t)
  PROVE  IsListing(s \o t)
<1> DEFINE S == {s[i] : i \in DOMAIN s} \cup {t[i] : i \in DOMAIN t}
<1>1. s \in Seq(S) /\ t \in Seq(S)
  <2>1. \A i \in DOMAIN s : s[i] \in S
    OBVIOUS
  <2>2. \A i \in DOMAIN t : t[i] \in S
    OBVIOUS
  <2> HIDE DEF S
  <2> QED
    BY <2>1, <2>2, ListingFacts
<1>2. \A e \in S : e.code \in Codes
  BY DEF IsListing
<1> HIDE DEF S
<1> DEFINE both == s \o t
<1>3. both \in Seq(S)
  BY <1>1
<1> HIDE DEF both
<1>4. /\ Len(both) \in Nat /\ DOMAIN both = 1..Len(both) /\ both = [i \in 1..Len(both) |-> both[i]]
      /\ \A i \in 1..Len(both) : both[i] \in S
  BY <1>3, ElementOfSeq
<1> QED
  BY <1>2, <1>4, ListingOf DEF both

\* A listing in which one entry is replaced by one of a code is one.
LEMMA ListingReplaced ==
  ASSUME NEW s, IsListing(s), NEW k, NEW e, e.code \in Codes
  PROVE  IsListing([s EXCEPT ![k] = e])
<1> DEFINE t == [s EXCEPT ![k] = e]
<1>1. /\ DOMAIN t = 1..Len(s) /\ t = [i \in 1..Len(s) |-> t[i]]
      /\ \A i \in 1..Len(s) : t[i] = e \/ t[i] = s[i]
  BY ListingFacts
<1> HIDE DEF t
<1>2. \A i \in 1..Len(s) : t[i].code \in Codes
  BY <1>1, ListingFacts
<1> QED
  BY <1>1, <1>2, ListingFacts, ListingOf DEF t

(* The codes of a set, one after the other *)
LEMMA CodesInOrder ==
  ASSUME IsFiniteSet(Codes), NEW C \in SUBSET Codes
  PROVE  /\ Cardinality(C) \in Nat
         /\ SetToSeq(C) \in [1..Cardinality(C) -> C]
<1>1. IsFiniteSet(C)
  BY FS_Subset
<1>2. Cardinality(C) \in Nat /\ ExistsBijection(1..Cardinality(C), C)
  BY <1>1, FS_CardinalityType
<1>3. \E f \in [1..Cardinality(C) -> C] : IsInjective(f)
  BY <1>2 DEF ExistsBijection, Bijection, Injection, Surjection, IsInjective
<1> QED
  BY <1>2, <1>3 DEF SetToSeq

\* The answer of all codes is a listing.
LEMMA AllListedSound ==
  ASSUME IsFiniteSet(Codes)
  PROVE  IsListing(AllListed)
<1> DEFINE C == {c \in Codes : Exists(c)}
           order == SetToSeq(C)
           n == Cardinality(C)
<1>1. n \in Nat /\ order \in [1..n -> C]
  BY CodesInOrder
<1>2. AllListed = [i \in DOMAIN order |-> Listed(order[i], codes[order[i]])]
  BY DEF AllListed
<1>3. \A c \in C : c \in Codes
  OBVIOUS
<1> HIDE DEF order, n, C
<1>4. DOMAIN AllListed = 1..n /\ \A i \in 1..n : AllListed[i] = Listed(order[i], codes[order[i]])
  BY <1>1, <1>2
<1>5. \A i \in 1..n : AllListed[i].code \in Codes
  BY <1>1, <1>3, <1>4 DEF Listed
<1>6. AllListed = [i \in 1..n |-> AllListed[i]]
  BY <1>2, <1>4
<1> QED
  BY <1>1, <1>4, <1>5, <1>6, ListingOf

-----------------------------------------------------------------------------
(* The rows of codes *)

(* What a change of the array leaves of a row *)
LEMMA ArrayOnly ==
  ASSUME NEW row, IsRow(row), NEW v
  PROVE  LET new == [row EXCEPT !.usedBy = v]
         IN  new.max = row.max /\ new.key = row.key /\ new.active = row.active
  BY DEF IsRow, RowFields

(* What patchCode writes is what it has read, or what it was asked for. *)
LEMMA PatchedSound ==
  ASSUME NEW q, IsRow(q.row), RowIsSound(q.row), PatchIsSound(q.patch)
  PROVE  RowIsSound(Patched(q))
<1> DEFINE row == Override(q.row, q.patch)
<1>1. DOMAIN row = RowFields
  BY DEF Override, IsRow
<1>2. row.max \in 1..MaxUses /\ row.key \in Keys
  BY DEF Override, IsRow, RowFields, RowIsSound, PatchIsSound
<1> HIDE DEF row
<1>3. RowIsSound([row EXCEPT !.usedBy = codes[q.code].usedBy])
  BY <1>1, <1>2 DEF RowFields, RowIsSound
<1> QED
  BY <1>3 DEF Patched, row

\* Rows that do not change stay sound.
LEMMA RowsKept == ASSUME RowsAreSound, UNCHANGED codes PROVE RowsAreSound'
  BY DEF RowsAreSound, Exists

(* What writes the rows keeps their numbers and their activities. *)
LEMMA RowsStep ==
  ASSUME RedemptionAssumption, IInv, Types, [Next]_vars
  PROVE  RowsAreSound'
<1>1. ASSUME NEW r \in redeeming, Commit(r)
      PROVE  RowsAreSound'
  <2>1. CASE codes' = codes
    BY <2>1, RowsKept DEF Types
  <2>2. CASE codes' # codes
    <3> DEFINE c == r.code
               row == codes[c]
               v == row.usedBy \cup {r.user}
    <3>1. Exists(c) /\ codes' = [codes EXCEPT ![c] = [row EXCEPT !.usedBy = v]]
      BY <1>1, <2>2 DEF Commit, books
    <3>2. c \in Codes /\ DOMAIN codes = Codes
      BY DEF IInv, Books, Tables, Work, Transactions, IsRequest
    <3>3. IsRow(row) /\ RowIsSound(row)
      BY <3>1, <3>2 DEF IInv, Books, Tables, Types, RowsAreSound
    <3> HIDE DEF row, v
    <3>4. RowIsSound([row EXCEPT !.usedBy = v])
      BY <3>3, ArrayOnly DEF RowIsSound
    <3>5. \A d \in Codes : codes'[d] = codes[d] \/ codes'[d] = [row EXCEPT !.usedBy = v]
      BY <3>1, <3>2
    <3> QED
      BY <3>4, <3>5 DEF Types, RowsAreSound, Exists
  <2> QED
    BY <2>1, <2>2
<1>2. CASE DeletionEnds
  <2>1. CASE codes' = codes
    BY <2>1, RowsKept DEF Types
  <2>2. CASE codes' # codes
    <3>1. codes' = WithoutUser(deleting.user)
      BY <1>2, <2>2 DEF DeletionEnds, books
    <3>2. ASSUME NEW d \in Codes, Exists(d)
          PROVE  RowIsSound(codes'[d])
      <4> DEFINE row == codes[d]
                 v == row.usedBy \ {deleting.user}
      <4>1. codes'[d] = [row EXCEPT !.usedBy = v]
        BY <3>1, <3>2 DEF WithoutUser
      <4>2. IsRow(row) /\ RowIsSound(row)
        BY <3>2 DEF IInv, Books, Tables, Types, RowsAreSound
      <4> HIDE DEF row, v
      <4> QED
        BY <4>1, <4>2, ArrayOnly DEF RowIsSound
    <3>3. \A d \in Codes : ~Exists(d) => codes'[d] = codes[d]
      BY <3>1 DEF WithoutUser
    <3> QED
      BY <3>2, <3>3 DEF RowsAreSound, Exists
  <2> QED
    BY <2>1, <2>2
<1>3. ASSUME NEW q \in net, ServeCreate(q)
      PROVE  RowsAreSound'
  <2>1. q.patch.key \in Keys
    BY <1>3 DEF ServeCreate, Types, CallsCarryRows, CallIsSound
  <2>2. \A d \in Codes : codes'[d] = codes[d] \/ codes'[d] = Row(q.patch.key, MaxUses)
    BY <1>3 DEF ServeCreate
  <2>3. RowIsSound(Row(q.patch.key, MaxUses))
    BY <2>1 DEF RowIsSound, Row, RedemptionAssumption
  <2> QED
    BY <2>2, <2>3 DEF Types, RowsAreSound, Exists
<1>4. ASSUME NEW q \in net, PatchCode(q)
      PROVE  RowsAreSound'
  <2>1. IsRow(q.row) /\ RowIsSound(q.row) /\ PatchIsSound(q.patch)
    BY <1>4 DEF PatchCode, IInv, CallsAreSound, IsCall, Types, CallsCarryRows, CallIsSound
  <2>2. RowIsSound(Patched(q))
    BY <2>1, PatchedSound
  <2>3. DOMAIN codes = Codes
    BY DEF IInv, Books, Tables
  <2>4. \A d \in Codes : codes'[d] = codes[d] \/ codes'[d] = Patched(q)
    BY <1>4, <2>3 DEF PatchCode
  <2> QED
    BY <2>2, <2>4 DEF Types, RowsAreSound, Exists
<1>5. ASSUME NEW q \in net, DeleteCode(q)
      PROVE  RowsAreSound'
  <2>1. DOMAIN codes = Codes
    BY DEF IInv, Books, Tables
  <2>2. \A d \in Codes : codes'[d] = codes[d] \/ codes'[d] = Deleted
    BY <1>5, <2>1 DEF DeleteCode
  <2> QED
    BY <2>2 DEF Types, RowsAreSound, Exists
<1>6. ASSUME NEW r \in redeeming, LockUserWallet(r) \/ ReadCode(r) \/ Deadlock(r)
      PROVE  RowsAreSound'
  <2>1. UNCHANGED codes
    BY <1>6 DEF LockUserWallet, ReadCode, Deadlock, books
  <2> QED
    BY <2>1, RowsKept DEF Types
<1>7. ASSUME NEW q \in net, ReadRow(q)
      PROVE  RowsAreSound'
  <2>1. UNCHANGED codes
    BY <1>7 DEF ReadRow, books
  <2> QED
    BY <2>1, RowsKept DEF Types
<1>8. CASE \/ \E u \in Users, c \in Codes : Redeem(u, c)
           \/ \E u \in Users : DeleteUser(u)
           \/ DeleteUses
  <2>1. UNCHANGED codes
    BY <1>8 DEF Redeem, DeleteUser, DeleteUses, books
  <2> QED
    BY <2>1, RowsKept DEF Types
<1>9. CASE \/ Lose \/ ServeLoad \/ CloseCreatedCodesPopover \/ LoadAll \/ LoadArrives
           \/ \E q \in net : Deliver(q)
           \/ \E c \in Codes : ToggleCode(c) \/ DeleteButton(c) \/ \E patch \in Patches : OtherPatch(c, patch)
           \/ \E n \in 1..2, key \in Keys : CreateCode(n, key)
           \/ UNCHANGED vars
  <2>1. UNCHANGED books
    BY <1>9, PageStep
  <2> QED
    BY <2>1, RowsKept DEF Types, books
<1> QED
  BY <1>1, <1>2, <1>3, <1>4, <1>5, <1>6, <1>7, <1>8, <1>9 DEF Next, Redemptions, Calls

-----------------------------------------------------------------------------
(* Users *)

(* A redemption writes for a user whose row it holds, and a deletion of    *)
(* that user waits for it.                                                  *)
LEMMA UsersStep ==
  ASSUME RedemptionAssumption, IInv, Types, [Next]_vars
  PROVE  UsersAreThere'
<1> USE DEF Types
<1>1. ASSUME NEW u \in Users, NEW c \in Codes, Redeem(u, c)
      PROVE  UsersAreThere'
  <2>1. \A r \in redeeming' : r \in redeeming \/ ~HasWallet(r)
    BY <1>1 DEF Redeem, HasWallet
  <2> QED
    BY <1>1, <2>1 DEF Redeem, UsersAreThere, books, HasWallet
<1>2. ASSUME NEW r \in redeeming, LockUserWallet(r)
      PROVE  UsersAreThere'
  <2>1. DOMAIN r = RequestFields
    BY DEF IInv, Work, Transactions, IsRequest
  <2>2. [r EXCEPT !.stage = "wallet"].user = r.user
    BY <2>1 DEF RequestFields
  <2>3. \A s \in redeeming' : s \in redeeming \/ s.user \in users
    BY <1>2, <2>2 DEF LockUserWallet, Went, Ended
  <2> QED
    BY <1>2, <2>3 DEF LockUserWallet, UsersAreThere, books, HasWallet
<1>3. ASSUME NEW r \in redeeming, ReadCode(r)
      PROVE  UsersAreThere'
  <2>1. DOMAIN r = RequestFields /\ r.user \in users
    BY <1>3 DEF IInv, Work, Transactions, IsRequest, ReadCode, UsersAreThere, HasWallet
  <2>2. [r EXCEPT !.stage = "code", !.locked = TRUE, !.row = codes[r.code]].user = r.user
    BY <2>1 DEF RequestFields
  <2>3. \A s \in redeeming' : s \in redeeming \/ s.user \in users
    BY <1>3, <2>1, <2>2 DEF ReadCode, Went, Ended
  <2> QED
    BY <1>3, <2>3 DEF ReadCode, UsersAreThere, books, HasWallet
<1>4. ASSUME NEW r \in redeeming, Commit(r)
      PROVE  UsersAreThere'
  <2>1. r.user \in users /\ r.row.key = codes[r.code].key /\ r.code \in Codes /\ Exists(r.code)
    BY <1>4 DEF Commit, UsersAreThere, HasWallet, IInv, Work, RowsAreLocked, Usable, Transactions, IsRequest
  <2>2. r.row.key \in Keys
    BY <2>1 DEF RowsAreSound, RowIsSound
  <2>3. users' = users /\ redeeming' \subseteq redeeming
    BY <1>4 DEF Commit, Ended, books
  <2>4. \A use \in uses' : use \in uses \/ use = [code |-> r.code, user |-> r.user, key |-> r.row.key]
    BY <1>4 DEF Commit, books
  <2>5. \A e \in entries' : e \in entries \/ e = [code |-> r.code, user |-> r.user]
    BY <1>4 DEF Commit, books
  <2> QED
    BY <2>1, <2>2, <2>3, <2>4, <2>5 DEF UsersAreThere, HasWallet
<1>5. ASSUME NEW r \in redeeming, Deadlock(r)
      PROVE  UsersAreThere'
  <2>1. redeeming' \subseteq redeeming /\ UNCHANGED books
    BY <1>5 DEF Deadlock, Ended
  <2> QED
    BY <2>1 DEF UsersAreThere, books, HasWallet
<1>6. CASE DeletionEnds
  <2>1. UNCHANGED redeeming /\ \A r \in redeeming : HasWallet(r) => r.user # deleting.user
    BY <1>6 DEF DeletionEnds, WalletFree
  <2>2. CASE UNCHANGED books
    BY <2>1, <2>2 DEF UsersAreThere, books, HasWallet
  <2>3. CASE ~UNCHANGED books
    <3>1. /\ users' = users \ {deleting.user}
          /\ \A use \in uses' : use \in uses /\ use.user # deleting.user
          /\ \A e \in entries' : e \in entries /\ e.user # deleting.user
      BY <1>6, <2>3 DEF DeletionEnds, Of
    <3> QED
      BY <2>1, <3>1 DEF UsersAreThere, HasWallet
  <2> QED
    BY <2>2, <2>3
<1>7. ASSUME NEW q \in net, DeleteCode(q)
      PROVE  UsersAreThere'
  <2>1. ASSUME NEW use \in uses
        PROVE  LET new == IF use.code = q.code THEN [use EXCEPT !.code = NoCode] ELSE use
               IN  new.user = use.user /\ new.key = use.key
    <3>1. DOMAIN use = UseFields
      BY DEF IInv, Books, Tables, IsUse
    <3> QED
      BY <3>1 DEF UseFields
  <2>2. uses' = {IF use.code = q.code THEN [use EXCEPT !.code = NoCode] ELSE use : use \in uses}
    BY <1>7 DEF DeleteCode
  <2>3. \A use \in uses' : use.user \in users /\ use.key \in Keys
    BY <2>1, <2>2 DEF UsersAreThere
  <2> QED
    BY <1>7, <2>3 DEF DeleteCode, UsersAreThere, HasWallet
<1>8. ASSUME NEW q \in net, ServeCreate(q) \/ ReadRow(q) \/ PatchCode(q)
      PROVE  UsersAreThere'
  <2>1. UNCHANGED <<users, uses, entries, redeeming>>
    BY <1>8 DEF ServeCreate, ReadRow, PatchCode, books
  <2> QED
    BY <2>1 DEF UsersAreThere, HasWallet
<1>9. CASE (\E u \in Users : DeleteUser(u)) \/ DeleteUses
  <2>1. UNCHANGED <<users, uses, entries, redeeming>>
    BY <1>9 DEF DeleteUser, DeleteUses, books
  <2> QED
    BY <2>1 DEF UsersAreThere, HasWallet
<1>10. CASE \/ Lose \/ ServeLoad \/ CloseCreatedCodesPopover \/ LoadAll \/ LoadArrives
            \/ \E q \in net : Deliver(q)
            \/ \E c \in Codes : ToggleCode(c) \/ DeleteButton(c) \/ \E patch \in Patches : OtherPatch(c, patch)
            \/ \E n \in 1..2, key \in Keys : CreateCode(n, key)
            \/ UNCHANGED vars
  <2>1. UNCHANGED redeeming
    BY <1>10 DEF Lose, ServeLoad, CloseCreatedCodesPopover, LoadAll, LoadArrives, Deliver, ToggleCode,
                DeleteButton, OtherPatch, CreateCode, vars
  <2>2. UNCHANGED books
    BY <1>10, PageStep
  <2> QED
    BY <2>1, <2>2 DEF UsersAreThere, HasWallet, books
<1> QED
  BY <1>1, <1>2, <1>3, <1>4, <1>5, <1>6, <1>7, <1>8, <1>9, <1>10 DEF Next, Redemptions, Calls

-----------------------------------------------------------------------------
(* The calls *)

(* A call that goes on in another form *)
LEMMA CallMoves ==
  ASSUME CallsCarryRows, NEW q \in net, NEW s, CallIsSound(s), Moved(q, s)
  PROVE  CallsCarryRows'
  BY DEF CallsCarryRows, Moved

(* A call that is refused or lost *)
LEMMA CallFails ==
  ASSUME CallsCarryRows, NEW q \in net, IsCall(q), Refused(q)
  PROVE  CallsCarryRows'
<1> DEFINE s == [q EXCEPT !.stage = "failed"]
<1>1. s.kind = q.kind /\ s.patch = q.patch /\ s.stage = "failed"
  BY DEF IsCall, CallFields
<1>2. Moved(q, s)
  BY DEF Refused
<1> HIDE DEF s
<1>3. CallIsSound(s)
  BY <1>1 DEF CallIsSound, CallsCarryRows
<1> QED
  BY <1>2, <1>3, CallMoves

(* A call that is sent *)
LEMMA CallSent ==
  ASSUME CallsCarryRows, NEW kind, NEW c, NEW patch, NEW mine,
         kind = "create" => patch.count \in 1..2 /\ patch.key \in Keys,
         kind = "patch" => PatchIsSound(patch),
         net' = net \cup {Call(kind, c, patch, mine)}
  PROVE  CallsCarryRows'
<1>1. CallIsSound(Call(kind, c, patch, mine))
  BY DEF CallIsSound, Call
<1> QED
  BY <1>1 DEF CallsCarryRows

(* What is created is some codes, what is patched has read a row.           *)
LEMMA CallsStep ==
  ASSUME RedemptionAssumption, IInv, Types, [Next]_vars
  PROVE  CallsCarryRows'
<1> USE DEF Types
<1>1. ASSUME NEW q \in net, ServeCreate(q)
      PROVE  CallsCarryRows'
  <2>1. PICK made \in SUBSET {c \in Codes : codes[c] = NoRow} :
          /\ Cardinality(made) = q.patch.count
          /\ Moved(q, [q EXCEPT !.stage = "answered", !.made = SetToSeq(made)])
    BY <1>1 DEF ServeCreate
  <2> DEFINE order == SetToSeq(made)
             s == [q EXCEPT !.stage = "answered", !.made = order]
  <2>2. q.kind = "create" /\ q.patch.count \in 1..2 /\ q.patch.key \in Keys
    BY <1>1 DEF ServeCreate, CallsCarryRows, CallIsSound
  <2>3. order \in [1..q.patch.count -> made] /\ made \subseteq Codes
    BY <2>1, CodesInOrder DEF RedemptionAssumption
  <2>4. Moved(q, s)
    BY <2>1
  <2> HIDE DEF order
  <2>5. order \in Seq(Codes) /\ order # <<>>
    BY <2>2, <2>3
  <2>6. s.kind = "create" /\ s.patch = q.patch /\ s.made = order
    BY <2>2 DEF IInv, CallsAreSound, IsCall, CallFields
  <2> HIDE DEF s
  <2>7. CallIsSound(s)
    BY <2>2, <2>5, <2>6 DEF CallIsSound
  <2> QED
    BY <2>4, <2>7, CallMoves
<1>2. ASSUME NEW q \in net, ReadRow(q)
      PROVE  CallsCarryRows'
  <2>1. IsCall(q) /\ q.kind \in {"patch", "delete"} /\ q.code \in Codes
    BY <1>2 DEF ReadRow, IInv, CallsAreSound, IsCall
  <2>2. CASE Refused(q)
    BY <2>1, <2>2, CallFails
  <2>3. CASE ~Refused(q)
    <3> DEFINE s == [q EXCEPT !.stage = "read", !.row = codes[q.code]]
    <3>1. Exists(q.code) /\ Moved(q, s)
      BY <1>2, <2>3 DEF ReadRow
    <3>2. s.kind = q.kind /\ s.patch = q.patch /\ s.row = codes[q.code]
      BY <2>1 DEF IsCall, CallFields
    <3> HIDE DEF s
    <3>3. CallIsSound(s)
      BY <2>1, <3>1, <3>2 DEF CallIsSound, CallsCarryRows, RowsAreSound
    <3> QED
      BY <3>1, <3>3, CallMoves
  <2> QED
    BY <2>2, <2>3
<1>3. ASSUME NEW q \in net, PatchCode(q)
      PROVE  CallsCarryRows'
  <2>1. IsCall(q) /\ q.kind = "patch"
    BY <1>3 DEF PatchCode, IInv, CallsAreSound
  <2>2. CASE Refused(q)
    BY <2>1, <2>2, CallFails
  <2>3. CASE ~Refused(q)
    <3> DEFINE s == [q EXCEPT !.stage = "answered", !.row = codes'[q.code]]
    <3>1. Moved(q, s)
      BY <1>3, <2>3 DEF PatchCode
    <3>2. s.kind = q.kind /\ s.patch = q.patch /\ s.stage = "answered"
      BY <2>1 DEF IsCall, CallFields
    <3> HIDE DEF s
    <3>3. CallIsSound(s)
      BY <2>1, <3>2 DEF CallIsSound, CallsCarryRows
    <3> QED
      BY <3>1, <3>3, CallMoves
  <2> QED
    BY <2>2, <2>3
<1>4. ASSUME NEW q \in net, DeleteCode(q)
      PROVE  CallsCarryRows'
  <2> DEFINE s == [q EXCEPT !.stage = "answered"]
  <2>1. IsCall(q) /\ q.kind = "delete" /\ Moved(q, s)
    BY <1>4 DEF DeleteCode, IInv, CallsAreSound
  <2>2. s.kind = "delete"
    BY <2>1 DEF IsCall, CallFields
  <2> HIDE DEF s
  <2>3. CallIsSound(s)
    BY <2>2 DEF CallIsSound
  <2> QED
    BY <2>1, <2>3, CallMoves
<1>5. CASE Lose
  <2>1. ASSUME NEW q \in net, Refused(q)
        PROVE  CallsCarryRows'
    BY <2>1, CallFails DEF IInv, CallsAreSound
  <2>2. CASE UNCHANGED net
    BY <2>2 DEF CallsCarryRows
  <2> QED
    BY <1>5, <2>1, <2>2 DEF Lose
<1>6. ASSUME NEW q \in net, Deliver(q)
      PROVE  CallsCarryRows'
  BY <1>6 DEF Deliver, CallsCarryRows
<1>7. ASSUME NEW c \in Codes, ToggleCode(c)
      PROVE  CallsCarryRows'
  <2>1. PatchIsSound([active |-> ~list[Entry(c)].active])
    BY DEF PatchIsSound
  <2>2. net' = net \cup {Call("patch", c, [active |-> ~list[Entry(c)].active], TRUE)}
    BY <1>7 DEF ToggleCode
  <2> QED
    BY <2>1, <2>2, CallSent
<1>8. ASSUME NEW c \in Codes, DeleteButton(c)
      PROVE  CallsCarryRows'
  <2> DEFINE patch == <<>>
             kind == "delete"
  <2>1. net' = net \cup {Call(kind, c, patch, TRUE)}
    BY <1>8 DEF DeleteButton
  <2>2. kind # "create" /\ kind # "patch"
    OBVIOUS
  <2> HIDE DEF patch, kind
  <2> QED
    BY <2>1, <2>2, CallSent
<1>9. ASSUME NEW c \in Codes, NEW patch \in Patches, OtherPatch(c, patch)
      PROVE  CallsCarryRows'
  <2>1. PatchIsSound(patch)
    BY DEF PatchIsSound, Patches
  <2>2. net' = net \cup {Call("patch", c, patch, FALSE)}
    BY <1>9 DEF OtherPatch
  <2> QED
    BY <2>1, <2>2, CallSent
<1>10. ASSUME NEW n \in 1..2, NEW key \in Keys, CreateCode(n, key)
       PROVE  CallsCarryRows'
  <2> DEFINE patch == [count |-> n, key |-> key]
             kind == "create"
  <2>1. net' = net \cup {Call(kind, NoCode, patch, TRUE)}
    BY <1>10 DEF CreateCode
  <2>2. patch.count \in 1..2 /\ patch.key \in Keys /\ kind # "patch"
    OBVIOUS
  <2> HIDE DEF patch, kind
  <2> QED
    BY <2>1, <2>2, CallSent
<1>11. CASE \/ \E u \in Users, c \in Codes : Redeem(u, c)
            \/ \E r \in redeeming : LockUserWallet(r) \/ ReadCode(r) \/ Commit(r) \/ Deadlock(r)
            \/ \E u \in Users : DeleteUser(u)
            \/ DeleteUses \/ DeletionEnds
            \/ ServeLoad \/ CloseCreatedCodesPopover \/ LoadAll \/ LoadArrives \/ UNCHANGED vars
  <2>1. UNCHANGED net
    BY <1>11 DEF Redeem, LockUserWallet, ReadCode, Commit, Deadlock, DeleteUser, DeleteUses, DeletionEnds,
                 ServeLoad, CloseCreatedCodesPopover, LoadAll, LoadArrives, vars
  <2> QED
    BY <2>1 DEF CallsCarryRows
<1> QED
  BY <1>1, <1>2, <1>3, <1>4, <1>5, <1>6, <1>7, <1>8, <1>9, <1>10, <1>11 DEF Next, Redemptions, Calls

-----------------------------------------------------------------------------
(* The tab *)

\* Codes that were created and are shown: a listing, and there is one to copy.
LEMMA ShownSound ==
  ASSUME NEW q, q.made \in Seq(Codes), q.made # <<>>, TabIsSound, ShowCreated(q)
  PROVE  IsListing(list') /\ created' # <<>>
<1> DEFINE n == Len(q.made)
           made == [i \in DOMAIN q.made |-> Listed(q.made[i], Row(q.patch.key, MaxUses))]
<1>1. n \in Nat \ {0} /\ DOMAIN q.made = 1..n /\ \A i \in 1..n : q.made[i] \in Codes
  BY ElementOfSeq, EmptySeq
<1>2. list' = made \o list /\ created' = made
  BY DEF ShowCreated
<1>3. DOMAIN made = 1..n /\ \A i \in 1..n : made[i].code = q.made[i]
  BY <1>1 DEF Listed
<1>4. made = [i \in 1..n |-> made[i]]
  BY <1>1
<1> HIDE DEF made
<1>5. IsListing(made)
  BY <1>1, <1>3, <1>4, ListingOf
<1>6. IsListing(made \o list)
  BY <1>5, ListingsJoin DEF TabIsSound
<1>7. made # <<>>
  BY <1>1, <1>3
<1> QED
  BY <1>2, <1>6, <1>7

\* An entry put first, or in its place, leaves a listing.
LEMMA UpsertSound ==
  ASSUME IsListing(list), NEW e, e.code \in Codes, Upsert(e)
  PROVE  IsListing(list')
<1>1. CASE list' = <<e>> \o list
  <2> DEFINE one == <<e>>
  <2>1. DOMAIN one = 1..1 /\ one = [i \in 1..1 |-> one[i]]
    OBVIOUS
  <2>2. \A i \in 1..1 : one[i].code \in Codes
    OBVIOUS
  <2>3. 1 \in Nat
    OBVIOUS
  <2> HIDE DEF one
  <2>4. IsListing(one)
    BY <2>1, <2>2, <2>3, ListingOf
  <2> QED
    BY <1>1, <2>4, ListingsJoin DEF one
<1>2. CASE list' = ReplaceAt(list, Entry(e.code), e)
  BY <1>2, ListingReplaced DEF ReplaceAt
<1> QED
  BY <1>1, <1>2 DEF Upsert

\* So does the removal of a code.
LEMMA WithoutSound ==
  ASSUME IsListing(list), NEW c, Without(c)
  PROVE  IsListing(list')
<1> DEFINE others == {i \in DOMAIN list : list[i].code # c}
           n == Cardinality(others)
<1>1. PICK kept \in [1..n -> others] : list' = [i \in DOMAIN kept |-> list[kept[i]]]
  BY DEF Without
<1>2. n \in Nat
  <2>1. Len(list) \in Int /\ others \subseteq 1..Len(list)
    BY ListingFacts
  <2> HIDE DEF others
  <2>2. IsFiniteSet(1..Len(list))
    BY <2>1, FS_Interval
  <2> QED
    BY <2>1, <2>2, FS_Subset, FS_CardinalityType
<1>3. \A i \in others : list[i].code \in Codes
  BY DEF IsListing
<1> HIDE DEF others, n
<1>4. DOMAIN list' = 1..n /\ \A i \in 1..n : list'[i].code \in Codes
  BY <1>1, <1>3
<1>5. list' = [i \in 1..n |-> list'[i]]
  BY <1>1, <1>4
<1> QED
  BY <1>2, <1>4, <1>5, ListingOf

(* Whatever arrives, in whatever order, the tab lists codes. *)
LEMMA TabStep ==
  ASSUME RedemptionAssumption, IInv, Types, [Next]_vars
  PROVE  TabIsSound'
<1> USE DEF Types
<1>1. ASSUME NEW q \in net, Deliver(q)
      PROVE  TabIsSound'
  <2>1. UNCHANGED load
    BY <1>1 DEF Deliver
  <2>2. CASE UNCHANGED <<list, created, popover>>
    BY <2>1, <2>2 DEF TabIsSound
  <2>3. CASE q.kind = "create" /\ ShowCreated(q) /\ q.stage # "failed"
    <3>1. q.made \in Seq(Codes) /\ q.made # <<>>
      BY <1>1, <2>3 DEF Deliver, CallsCarryRows, CallIsSound
    <3> QED
      BY <2>1, <2>3, <3>1, ShownSound DEF TabIsSound
  <2>4. CASE q.kind = "patch" /\ Upsert(Listed(q.code, q.row)) /\ UNCHANGED <<created, popover>>
    <3>1. Listed(q.code, q.row).code \in Codes
      BY <2>4 DEF Listed, IInv, CallsAreSound, IsCall
    <3> QED
      BY <2>1, <2>4, <3>1, UpsertSound DEF TabIsSound
  <2>5. CASE Without(q.code) /\ UNCHANGED <<created, popover>>
    BY <2>1, <2>5, WithoutSound DEF TabIsSound
  <2> QED
    BY <1>1, <2>2, <2>3, <2>4, <2>5 DEF Deliver
<1>2. CASE ServeLoad
  BY <1>2, AllListedSound DEF ServeLoad, TabIsSound, RedemptionAssumption
<1>3. CASE LoadArrives
  BY <1>3 DEF LoadArrives, TabIsSound, NoLoad
<1>4. CASE LoadAll
  BY <1>4 DEF LoadAll, TabIsSound, NoLoad
<1>5. CASE CloseCreatedCodesPopover
  BY <1>5 DEF CloseCreatedCodesPopover, TabIsSound
<1>6. CASE Lose
  BY <1>6 DEF Lose, TabIsSound, NoLoad
<1>7. CASE UNCHANGED page
  BY <1>7 DEF page, TabIsSound
<1>8. CASE \/ \E u \in Users, c \in Codes : Redeem(u, c)
           \/ \E r \in redeeming : LockUserWallet(r) \/ ReadCode(r) \/ Commit(r) \/ Deadlock(r)
           \/ \E u \in Users : DeleteUser(u)
           \/ DeleteUses \/ DeletionEnds \/ UNCHANGED vars
  <2>1. UNCHANGED page
    BY <1>8 DEF Redeem, LockUserWallet, ReadCode, Commit, Deadlock, DeleteUser, DeleteUses, DeletionEnds, vars
  <2> QED
    BY <1>7, <2>1
<1>9. CASE \/ \E q \in net : ServeCreate(q) \/ ReadRow(q) \/ PatchCode(q) \/ DeleteCode(q)
           \/ \E c \in Codes : ToggleCode(c) \/ DeleteButton(c) \/ \E patch \in Patches : OtherPatch(c, patch)
           \/ \E n \in 1..2, key \in Keys : CreateCode(n, key)
  <2>1. UNCHANGED page
    BY <1>9 DEF ServeCreate, ReadRow, PatchCode, DeleteCode, ToggleCode, DeleteButton, OtherPatch, CreateCode
  <2> QED
    BY <1>7, <2>1
<1> QED
  BY <1>1, <1>2, <1>3, <1>4, <1>5, <1>6, <1>8, <1>9 DEF Next, Redemptions, Calls

-----------------------------------------------------------------------------
\* The types hold initially.
LEMMA TypesStart ==
  ASSUME RedemptionAssumption, Init
  PROVE  Types
<1>1. /\ users = Users /\ entries = Redeemed /\ redeeming = {} /\ net = {}
      /\ uses = {[code |-> e.code, user |-> e.user, key |-> AKey] : e \in Redeemed}
      /\ list = AllListed /\ created = <<>> /\ popover = FALSE /\ load = NoLoad
  BY DEF Init
<1>2. Redeemed \subseteq [code : Earlier, user : Users] /\ AKey \in Keys
  BY DEF RedemptionAssumption, AKey
<1>3. PICK max \in 1..MaxUses :
        codes = [c \in Codes |->
                   IF c \in Earlier
                   THEN [Row(AKey, max) EXCEPT !.usedBy = {e.user : e \in {f \in Redeemed : f.code = c}}]
                   ELSE NoRow]
  BY DEF Init
<1>4. RowsAreSound
  <2> SUFFICES ASSUME NEW c \in Codes, Exists(c)
               PROVE  RowIsSound(codes[c])
    BY DEF RowsAreSound
  <2> DEFINE row == Row(AKey, max)
             v == {e.user : e \in {f \in Redeemed : f.code = c}}
  <2>1. codes[c] = [row EXCEPT !.usedBy = v]
    BY <1>3 DEF Exists
  <2>2. IsRow(row) /\ RowIsSound(row)
    BY <1>2 DEF IsRow, RowFields, RowIsSound, Row
  <2> HIDE DEF row, v
  <2> QED
    BY <2>1, <2>2, ArrayOnly DEF RowIsSound
<1>5. UsersAreThere
  BY <1>1, <1>2 DEF UsersAreThere
<1>6. CallsCarryRows
  BY <1>1 DEF CallsCarryRows
<1>7. TabIsSound
  BY <1>1, AllListedSound DEF TabIsSound, NoLoad, RedemptionAssumption
<1> QED
  BY <1>4, <1>5, <1>6, <1>7 DEF Types

\* They and the invariant are those of the module.
LEMMA TypesImply ==
  ASSUME IInv, Types
  PROVE  TypeOK
<1>1. \A c \in Codes : Exists(c) => codes[c].usedBy \subseteq users /\ codes[c].max \in 1..MaxUses
  BY DEF IInv, Books, BooksAgree, Types, UsersAreThere, RowsAreSound, RowIsSound
<1>2. \A use \in uses : use.code \in Codes \cup {NoCode}
  BY DEF IInv, Books, UsesAreUnique
<1>3. entries \subseteq [code : Codes, user : users]
  BY DEF IInv, Books, Tables, Types, UsersAreThere
<1> QED
  BY <1>1, <1>2, <1>3 DEF TypeOK, Types, UsersAreThere, TabIsSound, IsListing

(* Uses, wallet entries and the names in the arrays of codes, which no      *)
(* foreign key guards, are of users there are, whatever is redeemed while   *)
(* users are deleted: by the lock of the user's row, which redeem() takes   *)
(* first and a deletion last.  And whatever arrives when, the tab lists     *)
(* codes only and never offers an empty list of new codes to copy.          *)
THEOREM RedemptionTypeCorrect ==
  ASSUME RedemptionAssumption
  PROVE  Spec => []TypeOK
<1>1. Init => IInv /\ Types
  BY InitIInv, TypesStart
<1>2. IInv /\ Types /\ [Next]_vars => IInv' /\ Types'
  BY IInvStep, RowsStep, UsersStep, CallsStep, TabStep DEF Types
<1>3. IInv /\ Types => TypeOK
  BY TypesImply
<1> QED
  BY <1>1, <1>2, <1>3, PTL DEF Spec

-----------------------------------------------------------------------------
(* The inductive invariant *)

(* A list that has the rules that nobody touches *)
Full(batch) == Kept \subseteq batch

CheckSet ==
  [pc : Filter!Begun \cup {"idle", "query", "loaded", "timing", "matching", "allowed", "blocked", "failed"},
   prompt : Rules \cup {NoRule}, list : SUBSET Rules, early : BOOLEAN, torn : BOOLEAN]

CacheTables ==
  /\ checking \in [Checks -> CheckSet]
  /\ DOMAIN changing = Changes
  /\ activeRules \in SUBSET Rules
  /\ loaded \in {"never", "fresh", "expired"} /\ emptied \in BOOLEAN

(* The rules that nobody touches are enabled, and no change writes them.    *)
Untouched ==
  /\ \A r \in Kept : stored[r] = "enabled"
  /\ \A a \in Changes :
       /\ DOMAIN changing[a].writes \cap Kept = {}
       /\ changing[a].pc = "read" => changing[a].rule \notin Kept

(* A time to live is that of a full list, unless an invalidation has thrown *)
(* the list away and left its time, or a thread that has stored a full list *)
(* is about to store its time.                                              *)
TimeIsOfList ==
  loaded # "never" \/ (\E c \in Checks : checking[c].pc = "timing") => Full(activeRules) \/ emptied

(* What a check has read before it knows whether it may use it *)
ReadTogether ==
  \A c \in Checks : ~checking[c].torn =>
    /\ checking[c].pc = "listed" => checking[c].list = activeRules /\ ~emptied
    /\ checking[c].pc = "again" => Full(activeRules) \/ emptied

(* What a check uses *)
UsesFull ==
  \A c \in Checks :
    /\ checking[c].pc \in {"loaded", "timing"} => Full(checking[c].list)
    /\ checking[c].pc = "matching" => Full(checking[c].list) \/ checking[c].torn

RulesInv == CacheTables /\ Untouched /\ TimeIsOfList /\ ReadTogether /\ UsesFull /\ Filter!OnlyRacesSkip

-----------------------------------------------------------------------------
(* Lemmas *)

\* The changes under way are those of the administrators, and none touches Kept.
LEMMA ChangeKeeps ==
  ASSUME CacheTables, Untouched, NEW a \in Changes, NEW change,
         changing' = [changing EXCEPT ![a] = change], UNCHANGED stored,
         DOMAIN change.writes \cap Kept = {},
         change.pc = "read" => change.rule \notin Kept
  PROVE  DOMAIN changing' = Changes /\ Untouched'
<1>1. DOMAIN changing' = Changes /\ changing'[a] = change /\ \A b \in Changes \ {a} : changing'[b] = changing[b]
  BY DEF CacheTables
<1> QED BY <1>1 DEF Untouched

\* A step of one thread that leaves the cached list and its time.
LEMMA ThreadKeeps ==
  ASSUME RulesInv, NEW c \in Checks, NEW next \in CheckSet,
         checking' = [checking EXCEPT ![c] = next], UNCHANGED <<Filter!rows, activeRules, loaded, emptied>>,
         next.pc = "timing" => Full(activeRules) \/ emptied,
         ~next.torn =>
           /\ next.pc = "listed" => next.list = activeRules /\ ~emptied
           /\ next.pc = "again" => Full(activeRules) \/ emptied,
         next.pc \in {"loaded", "timing"} => Full(next.list),
         next.pc = "matching" => Full(next.list) \/ next.torn,
         next.pc = "allowed" /\ next.prompt \in Kept => next.torn
  PROVE  RulesInv'
<1>1. checking \in [Checks -> CheckSet]
  BY DEF RulesInv, CacheTables
<1>2. /\ checking' \in [Checks -> CheckSet] /\ checking'[c] = next
      /\ \A d \in Checks \ {c} : checking'[d] = checking[d]
  BY <1>1
<1>3. CacheTables' /\ Untouched'
  BY <1>2 DEF RulesInv, CacheTables, Untouched, Filter!rows
<1>4. TimeIsOfList'
  BY <1>2 DEF RulesInv, TimeIsOfList, Full
<1>5. ReadTogether'
  BY <1>2 DEF RulesInv, ReadTogether, Full
<1>6. UsesFull'
  BY <1>2 DEF RulesInv, UsesFull, Full
<1>7. Filter!OnlyRacesSkip'
  BY <1>2 DEF RulesInv, Filter!OnlyRacesSkip, Filter!Skipped
<1> QED BY <1>3, <1>4, <1>5, <1>6, <1>7 DEF RulesInv

\* Threads that have read the list and not its time are torn by another list; the
\* others stay as they are.
LEMMA TornThreads ==
  ASSUME CacheTables, NEW writer, NEW d \in Checks
  PROVE  /\ Filter!Torn(writer) \in [Checks -> CheckSet]
         /\ Filter!Torn(writer)[d].pc = checking[d].pc /\ Filter!Torn(writer)[d].list = checking[d].list
         /\ Filter!Torn(writer)[d].prompt = checking[d].prompt
         /\ checking[d].torn => Filter!Torn(writer)[d].torn
         /\ d # writer /\ checking[d].pc \in {"listed", "again"} => Filter!Torn(writer)[d].torn
<1>1. \A e \in Checks : checking[e] \in CheckSet
  BY DEF CacheTables
<1>2. ASSUME NEW e \in Checks
      PROVE  LET after == [checking[e] EXCEPT !.torn = checking[e].torn \/ (e # writer /\
          checking[e].pc \in {"listed", "again"})]
             IN  /\ after \in CheckSet
                 /\ after.pc = checking[e].pc /\ after.list = checking[e].list /\ after.prompt = checking[e].prompt
                 /\ after.torn <=> checking[e].torn \/ (e # writer /\ checking[e].pc \in {"listed", "again"})
  <2> DEFINE torn == checking[e].torn \/ (e # writer /\ checking[e].pc \in {"listed", "again"})
  <2>1. torn \in BOOLEAN /\ checking[e] \in CheckSet
    BY <1>1 DEF CheckSet
  <2> HIDE DEF torn
  <2>2. LET after == [checking[e] EXCEPT !.torn = torn]
        IN  /\ after \in CheckSet
            /\ after.pc = checking[e].pc /\ after.list = checking[e].list /\ after.prompt = checking[e].prompt
            /\ after.torn <=> torn
    BY <2>1 DEF CheckSet
  <2> QED BY <2>2 DEF torn
<1>3. /\ DOMAIN Filter!Torn(writer) = Checks
      /\ \A e \in Checks : Filter!Torn(writer)[e] =
           [checking[e] EXCEPT !.torn = checking[e].torn \/ (e # writer /\ checking[e].pc \in {"listed", "again"})]
  BY DEF Filter!Torn
<1>4. Filter!Torn(writer) \in [Checks -> CheckSet]
  BY <1>2, <1>3 DEF Filter!Torn
<1> DEFINE after == [checking[d] EXCEPT !.torn = checking[d].torn \/ (d # writer /\
        checking[d].pc \in {"listed", "again"})]
<1>5. /\ after.pc = checking[d].pc /\ after.list = checking[d].list /\ after.prompt = checking[d].prompt
      /\ after.torn <=> checking[d].torn \/ (d # writer /\ checking[d].pc \in {"listed", "again"})
  BY <1>2
<1>6. Filter!Torn(writer)[d] = after
  BY <1>3
<1> HIDE DEF after
<1> QED BY <1>4, <1>5, <1>6

-----------------------------------------------------------------------------
(* The steps *)

\* What administrators do and how their transactions go on: every step keeps the
\* invariant.
LEMMA ChangeStep ==
  ASSUME Filter!SensitiveRulesAssumption, RulesInv, Filter!Administer \/ Filter!Finish
  PROVE  RulesInv'
<1>1. CacheTables /\ Untouched /\ TimeIsOfList /\ ReadTogether /\ UsesFull /\ Filter!OnlyRacesSkip
  BY DEF RulesInv
<1>2. ASSUME UNCHANGED <<Filter!cache, checking>>, DOMAIN changing' = Changes /\ Untouched'
      PROVE  RulesInv'
  <2>1. UNCHANGED <<activeRules, loaded, emptied, checking>>
    BY <1>2 DEF Filter!cache
  <2>2. CacheTables'
    BY <1>1, <1>2, <2>1 DEF CacheTables
  <2>3. TimeIsOfList' /\ ReadTogether' /\ UsesFull' /\ Filter!OnlyRacesSkip'
    BY <1>1, <2>1 DEF TimeIsOfList, ReadTogether, UsesFull, Filter!OnlyRacesSkip, Filter!Skipped, Full
  <2> QED BY <1>2, <2>2, <2>3 DEF RulesInv
<1>3. ASSUME NEW a \in Changes, NEW here, NEW writes, Filter!Begin(a, here, writes), DOMAIN writes \cap Kept = {}
      PROVE  RulesInv'
  <2> DEFINE change == [pc |-> "written", here |-> here, writes |-> writes]
  <2>1. change.pc = "written" /\ change.writes = writes
    OBVIOUS
  <2>2. changing' = [changing EXCEPT ![a] = change] /\ UNCHANGED <<stored, Filter!cache, checking>>
    BY <1>3 DEF Filter!Begin
  <2> HIDE DEF change
  <2> QED BY <1>1, <1>2, <1>3, <2>1, <2>2, ChangeKeeps
<1>4. CASE Filter!Administer
  <2>1. ASSUME NEW a \in Changes, NEW here, NEW patterns \in SUBSET (Rules \ Kept), NEW replace,
               Filter!BatchConfigure(a, here, patterns, replace)
        PROVE  RulesInv'
    <3> DEFINE others == IF replace THEN {x \in Rules \ Kept : stored[x] # "absent"} ELSE {}
               writes == [r \in patterns \cup others |-> IF r \in patterns THEN "enabled" ELSE "disabled"]
    <3>1. Filter!Begin(a, here, writes)
      BY <2>1 DEF Filter!BatchConfigure
    <3>2. others \subseteq Rules \ Kept
      OBVIOUS
    <3>3. DOMAIN writes = patterns \cup others
      OBVIOUS
    <3> HIDE DEF writes, others
    <3>4. DOMAIN writes \cap Kept = {}
      BY <3>2, <3>3
    <3> QED BY <1>3, <3>1, <3>4
  <2>2. ASSUME NEW a \in Changes, NEW here, NEW r \in Rules \ Kept, NEW enabled, Filter!ReadRule(a, here, r, enabled)
        PROVE  RulesInv'
    <3> DEFINE next == IF enabled = "kept" THEN stored[r] ELSE enabled
               change == [pc |-> "read", here |-> here, writes |-> <<>>, rule |-> r, next |-> next]
    <3>1. changing' = [changing EXCEPT ![a] = change] /\ UNCHANGED <<stored, Filter!cache, checking>>
      BY <2>2 DEF Filter!ReadRule
    <3>2. DOMAIN change.writes = {} /\ change.rule = r
      OBVIOUS
    <3> HIDE DEF change
    <3>3. DOMAIN change.writes \cap Kept = {} /\ change.rule \notin Kept
      BY <3>2
    <3> QED BY <1>1, <1>2, <3>1, <3>3, ChangeKeeps
  <2>3. ASSUME NEW a \in Changes, NEW here, NEW r \in Rules \ Kept, Filter!DeleteRule(a, here, r)
        PROVE  RulesInv'
    <3> DEFINE writes == [x \in {r} |-> "absent"]
    <3>1. Filter!Begin(a, here, writes) /\ DOMAIN writes = {r}
      BY <2>3 DEF Filter!DeleteRule
    <3> HIDE DEF writes
    <3>2. DOMAIN writes \cap Kept = {}
      BY <3>1
    <3> QED BY <1>3, <3>1, <3>2
  <2> QED BY <1>4, <2>1, <2>2, <2>3 DEF Filter!Administer
<1>5. ASSUME NEW a \in Changes, Filter!PatchRule(a)
      PROVE  RulesInv'
  <2> DEFINE writes == IF stored[changing[a].rule] = "absent" THEN <<>>
                       ELSE [r \in {changing[a].rule} |-> changing[a].next]
             change == [pc |-> "written", here |-> changing[a].here, writes |-> writes]
  <2>1. changing' = [changing EXCEPT ![a] = change] /\ UNCHANGED <<stored, Filter!cache, checking>>
    BY <1>5 DEF Filter!PatchRule
  <2>2. change.pc = "written" /\ change.writes = writes
    OBVIOUS
  <2>3. DOMAIN writes \subseteq {changing[a].rule} /\ changing[a].rule \notin Kept
    BY <1>1, <1>5 DEF Untouched, Filter!PatchRule
  <2> HIDE DEF change, writes
  <2> QED BY <1>1, <1>2, <2>1, <2>2, <2>3, ChangeKeeps
<1>6. ASSUME NEW a \in Changes, NEW pc \in {"untimed", "invalidated"}, changing' = [changing EXCEPT ![a].pc = pc],
             UNCHANGED stored
      PROVE  DOMAIN changing' = Changes /\ Untouched'
  <2>1. DOMAIN changing' = Changes /\ \A b \in Changes \ {a} : changing'[b] = changing[b]
    BY <1>1, <1>6 DEF CacheTables
  <2>2. changing'[a] = [changing[a] EXCEPT !.pc = pc]
    BY <1>1, <1>6 DEF CacheTables
  <2>3. DOMAIN changing'[a].writes \cap Kept = {} /\ (changing'[a].pc = "read" => changing'[a].rule \notin Kept)
    BY <1>1, <2>2 DEF Untouched
  <2> QED BY <1>1, <1>6, <2>1, <2>3 DEF Untouched
<1>7. ASSUME NEW a \in Changes, Filter!InvalidateTime(a)
      PROVE  RulesInv'
  <2>1. /\ loaded' = "never" /\ changing' = [changing EXCEPT ![a].pc = "untimed"]
        /\ UNCHANGED <<stored, activeRules, emptied, checking>>
    BY <1>7 DEF Filter!InvalidateTime
  <2>2. DOMAIN changing' = Changes /\ Untouched'
    BY <1>6, <2>1
  <2>3. CacheTables'
    BY <1>1, <2>1, <2>2 DEF CacheTables
  <2>4. TimeIsOfList' /\ ReadTogether' /\ UsesFull' /\ Filter!OnlyRacesSkip'
    BY <1>1, <2>1 DEF TimeIsOfList, ReadTogether, UsesFull, Filter!OnlyRacesSkip, Filter!Skipped, Full
  <2> QED BY <2>2, <2>3, <2>4 DEF RulesInv
<1>8. ASSUME NEW a \in Changes, Filter!InvalidateList(a)
      PROVE  RulesInv'
  <2>1. /\ activeRules' = {} /\ changing' = [changing EXCEPT ![a].pc = "invalidated"]
        /\ emptied' = (emptied \/ loaded # "never" \/ \E c \in Checks : checking[c].pc = "timing")
        /\ checking' = Filter!Torn(Nobody) /\ UNCHANGED <<stored, loaded>>
    BY <1>8 DEF Filter!InvalidateList
  <2>2. DOMAIN changing' = Changes /\ Untouched'
    BY <1>6, <2>1
  <2>3. \A c \in Checks : Nobody # c
    BY DEF Filter!SensitiveRulesAssumption
  <2>4. /\ checking' \in [Checks -> CheckSet]
        /\ \A c \in Checks :
             /\ checking'[c].pc = checking[c].pc /\ checking'[c].list = checking[c].list
             /\ checking'[c].prompt = checking[c].prompt
             /\ checking[c].torn => checking'[c].torn
             /\ checking[c].pc \in {"listed", "again"} => checking'[c].torn
    <3>1. ASSUME NEW c \in Checks
          PROVE  /\ checking' \in [Checks -> CheckSet]
                 /\ checking'[c].pc = checking[c].pc /\ checking'[c].list = checking[c].list
                 /\ checking'[c].prompt = checking[c].prompt
                 /\ checking[c].torn => checking'[c].torn
                 /\ checking[c].pc \in {"listed", "again"} => checking'[c].torn
      BY <1>1, <2>1, <2>3, TornThreads
    <3>2. CASE Checks = {}
      BY <2>1, <3>2 DEF Filter!Torn
    <3> QED BY <3>1, <3>2
  <2>5. emptied' \in BOOLEAN
    BY <1>1, <2>1 DEF CacheTables
  <2>6. CacheTables'
    BY <1>1, <2>1, <2>2, <2>4, <2>5 DEF CacheTables
  <2>7. TimeIsOfList'
    BY <2>1, <2>4 DEF TimeIsOfList
  <2>8. ReadTogether' /\ UsesFull' /\ Filter!OnlyRacesSkip'
    BY <1>1, <2>4 DEF ReadTogether, UsesFull, Filter!OnlyRacesSkip, Filter!Skipped, Full
  <2> QED BY <2>2, <2>6, <2>7, <2>8 DEF RulesInv
<1>9. ASSUME NEW a \in Changes, Filter!Commit(a)
      PROVE  RulesInv'
  <2>1. /\ stored' = [r \in Rules |-> IF r \in DOMAIN changing[a].writes THEN changing[a].writes[r] ELSE stored[r]]
        /\ changing' = [changing EXCEPT ![a] = Filter!NoChange] /\ UNCHANGED <<Filter!cache, checking>>
    BY <1>9 DEF Filter!Commit
  <2>2. Filter!NoChange.pc = "idle" /\ DOMAIN Filter!NoChange.writes = {}
    BY DEF Filter!NoChange
  <2>3. \A r \in Kept : stored'[r] = "enabled"
    BY <1>1, <2>1 DEF Untouched, Filter!SensitiveRulesAssumption
  <2>4. DOMAIN changing' = Changes /\ changing'[a] = Filter!NoChange /\
            \A b \in Changes \ {a} : changing'[b] = changing[b]
    BY <1>1, <2>1 DEF CacheTables
  <2>5. Untouched'
    BY <1>1, <2>2, <2>3, <2>4 DEF Untouched
  <2> QED BY <1>2, <2>1, <2>4, <2>5
<1> QED BY <1>4, <1>5, <1>7, <1>8, <1>9 DEF Filter!Finish

\* The list's time to live ends: the threads note that they began before.
LEMMA ExpireStep ==
  ASSUME RulesInv, Filter!Expire
  PROVE  RulesInv'
<1>1. CacheTables /\ Untouched /\ TimeIsOfList /\ ReadTogether /\ UsesFull /\ Filter!OnlyRacesSkip
  BY DEF RulesInv
<1>2. /\ loaded = "fresh" /\ loaded' = "expired" /\ UNCHANGED <<stored, changing, activeRules, emptied>>
      /\ checking' = [c \in Checks |-> [checking[c] EXCEPT !.early = checking[c].early \/
             checking[c].pc \in Filter!Begun]]
  BY DEF Filter!Expire, Filter!rows
<1>3. ASSUME NEW c \in Checks
      PROVE  LET after == [checking[c] EXCEPT !.early = checking[c].early \/ checking[c].pc \in Filter!Begun]
             IN  /\ after \in CheckSet
                 /\ after.pc = checking[c].pc /\ after.list = checking[c].list /\ after.prompt = checking[c].prompt
                 /\ after.torn = checking[c].torn
  <2> DEFINE early == checking[c].early \/ checking[c].pc \in Filter!Begun
  <2>1. early \in BOOLEAN /\ checking[c] \in CheckSet
    BY <1>1 DEF CacheTables, CheckSet
  <2> HIDE DEF early
  <2>2. LET after == [checking[c] EXCEPT !.early = early]
        IN  /\ after \in CheckSet
            /\ after.pc = checking[c].pc /\ after.list = checking[c].list /\ after.prompt = checking[c].prompt
            /\ after.torn = checking[c].torn
    BY <2>1 DEF CheckSet
  <2> QED BY <2>2 DEF early
<1>4. checking' \in [Checks -> CheckSet]
  BY <1>2, <1>3
<1>5. \A c \in Checks : /\ checking'[c].pc = checking[c].pc /\ checking'[c].list = checking[c].list
                        /\ checking'[c].prompt = checking[c].prompt /\ checking'[c].torn = checking[c].torn
  BY <1>2, <1>3
<1>6. CacheTables'
  BY <1>1, <1>2, <1>4 DEF CacheTables
<1>7. Untouched' /\ TimeIsOfList'
  BY <1>1, <1>2 DEF Untouched, TimeIsOfList, Full
<1>8. ReadTogether'
  BY <1>1, <1>2, <1>5 DEF ReadTogether, Full
<1>9. UsesFull'
  BY <1>1, <1>2, <1>5 DEF UsesFull, Full
<1>10. Filter!OnlyRacesSkip'
  BY <1>1, <1>2, <1>5 DEF Filter!OnlyRacesSkip, Filter!Skipped
<1> QED BY <1>6, <1>7, <1>8, <1>9, <1>10 DEF RulesInv

\* The threads that check a prompt: every step keeps the invariant.
LEMMA CheckStep ==
  ASSUME Filter!SensitiveRulesAssumption, RulesInv, NEW c \in Checks,
      Filter!Check(c) \/ \E r \in Rules : Filter!AssertAllowed(c, r)
  PROVE  RulesInv'
<1>1. /\ CacheTables /\ Untouched /\ TimeIsOfList /\ ReadTogether /\ UsesFull /\ Filter!OnlyRacesSkip
      /\ checking[c] \in CheckSet /\ checking \in [Checks -> CheckSet]
  BY DEF RulesInv, CacheTables
<1>2. Filter!NoCheck \in CheckSet /\ Filter!NoCheck.pc = "idle"
  BY DEF Filter!NoCheck, CheckSet
<1>3. ASSUME NEW r \in Rules, Filter!AssertAllowed(c, r)
      PROVE  RulesInv'
  <2> DEFINE next == [Filter!NoCheck EXCEPT !.pc = "begun", !.prompt = r]
  <2>1. checking' = [checking EXCEPT ![c] = next] /\ UNCHANGED <<Filter!rows, activeRules, loaded, emptied>>
    BY <1>3 DEF Filter!AssertAllowed, Filter!cache
  <2>2. next \in CheckSet /\ next.pc = "begun"
    BY DEF CheckSet, Filter!NoCheck, Filter!Begun
  <2> HIDE DEF next
  <2> QED BY <2>1, <2>2, ThreadKeeps
<1>4. CASE Filter!ReadList(c)
  <2> DEFINE next == [checking[c] EXCEPT !.pc = "listed", !.list = activeRules, !.torn = emptied]
  <2>1. checking' = [checking EXCEPT ![c] = next] /\ UNCHANGED <<Filter!rows, activeRules, loaded, emptied>>
    BY <1>1, <1>4 DEF Filter!ReadList, Filter!cache
  <2>2. next \in CheckSet /\ next.pc = "listed" /\ next.list = activeRules
    BY <1>1 DEF CheckSet, CacheTables, Filter!Begun
  <2>3. next.torn <=> emptied
    BY <1>1 DEF CheckSet, CacheTables
  <2> HIDE DEF next
  <2> QED BY <2>1, <2>2, <2>3, ThreadKeeps
<1>5. CASE Filter!CheckTime(c)
  <2>1. UNCHANGED <<Filter!rows, activeRules, loaded, emptied>> /\ checking[c].pc = "listed"
    BY <1>5 DEF Filter!CheckTime, Filter!cache
  <2>2. CASE Filter!Fresh(c)
    <3> DEFINE next == [checking[c] EXCEPT !.pc = "matching", !.early = FALSE]
    <3>1. checking' = [checking EXCEPT ![c] = next]
      BY <1>1, <1>5, <2>2 DEF Filter!CheckTime
    <3>2. next \in CheckSet /\ next.pc = "matching" /\ next.list = checking[c].list
      BY <1>1 DEF CheckSet
    <3>3. next.torn <=> checking[c].torn
      BY <1>1 DEF CheckSet
    <3>4. loaded # "never"
      BY <2>2 DEF Filter!Fresh
    <3>5. checking[c].torn \/ Full(checking[c].list)
      BY <1>1, <2>1, <3>4 DEF TimeIsOfList, ReadTogether
    <3> HIDE DEF next
    <3> QED BY <2>1, <3>1, <3>2, <3>3, <3>5, ThreadKeeps
  <2>3. CASE ~Filter!Fresh(c)
    <3> DEFINE next == [checking[c] EXCEPT !.pc = "waiting", !.torn = FALSE]
    <3>1. checking' = [checking EXCEPT ![c] = next]
      BY <1>1, <1>5, <2>3 DEF Filter!CheckTime
    <3>2. next \in CheckSet /\ next.pc = "waiting"
      BY <1>1 DEF CheckSet, Filter!Begun
    <3> HIDE DEF next
    <3> QED BY <2>1, <3>1, <3>2, ThreadKeeps
  <2> QED BY <2>2, <2>3
<1>6. CASE Filter!Synchronize(c)
  <2>1. UNCHANGED <<Filter!rows, activeRules, loaded, emptied>>
    BY <1>6 DEF Filter!Synchronize
  <2> DEFINE pc == IF Filter!Fresh(c) THEN "again" ELSE "query"
             early == checking[c].early /\ Filter!Fresh(c)
             next == [checking[c] EXCEPT !.pc = pc, !.early = early]
  <2>2. checking' = [checking EXCEPT ![c] = next]
    BY <1>1, <1>6 DEF Filter!Synchronize
  <2>3. pc \in {"again", "query"} /\ early \in BOOLEAN /\ (pc = "again" => Filter!Fresh(c))
    BY <1>1 DEF CheckSet
  <2>4. Filter!Fresh(c) => loaded # "never"
    BY DEF Filter!Fresh
  <2> HIDE DEF pc, early
  <2>5. next \in CheckSet /\ next.pc = pc
    BY <1>1, <2>3 DEF CheckSet, Filter!Begun
  <2>6. pc = "again" => Full(activeRules) \/ emptied
    BY <1>1, <2>3, <2>4 DEF TimeIsOfList
  <2> HIDE DEF next
  <2> QED BY <2>1, <2>2, <2>3, <2>5, <2>6, ThreadKeeps
<1>7. CASE Filter!Reread(c)
  <2>1. UNCHANGED <<Filter!rows, activeRules, loaded, emptied>> /\ checking[c].pc = "again"
    BY <1>7 DEF Filter!Reread
  <2> DEFINE torn == checking[c].torn \/ emptied
             next == [checking[c] EXCEPT !.pc = "matching", !.list = activeRules, !.early = FALSE, !.torn = torn]
  <2>2. checking' = [checking EXCEPT ![c] = next]
    BY <1>1, <1>7 DEF Filter!Reread
  <2>3. torn \in BOOLEAN
    BY <1>1 DEF CacheTables, CheckSet
  <2>4. torn \/ Full(activeRules)
    BY <1>1, <2>1 DEF ReadTogether
  <2> HIDE DEF torn
  <2>5. next \in CheckSet /\ next.pc = "matching" /\ next.list = activeRules
    BY <1>1, <2>3 DEF CheckSet, CacheTables
  <2>6. next.torn <=> torn
    BY <1>1, <2>3 DEF CheckSet
  <2> HIDE DEF next
  <2> QED BY <2>1, <2>2, <2>4, <2>5, <2>6, ThreadKeeps
<1>8. CASE Filter!Query(c)
  <2>1. UNCHANGED <<Filter!rows, activeRules, loaded, emptied>>
    BY <1>8 DEF Filter!Query, Filter!cache
  <2> DEFINE next == [checking[c] EXCEPT !.pc = "loaded", !.list = Filter!Enabled]
  <2>2. checking' = [checking EXCEPT ![c] = next]
    BY <1>1, <1>8 DEF Filter!Query
  <2>3. Filter!Enabled \in SUBSET Rules
    BY DEF Filter!Enabled
  <2>4. next \in CheckSet /\ next.pc = "loaded" /\ next.list = Filter!Enabled
    BY <1>1, <2>3 DEF CheckSet
  <2>5. Full(Filter!Enabled)
    BY <1>1 DEF Untouched, Filter!Enabled, Full, Filter!SensitiveRulesAssumption
  <2> HIDE DEF next
  <2> QED BY <2>1, <2>2, <2>4, <2>5, ThreadKeeps
<1>9. CASE Filter!StoreList(c)
  <2>1. /\ checking[c].pc = "loaded" /\ activeRules' = checking[c].list /\ emptied' = FALSE
        /\ checking' = [Filter!Torn(c) EXCEPT ![c].pc = "timing"] /\ UNCHANGED <<Filter!rows, loaded>>
    BY <1>9 DEF Filter!StoreList
  <2>2. /\ Filter!Torn(c) \in [Checks -> CheckSet]
        /\ Filter!Torn(c)[c].pc = checking[c].pc /\ Filter!Torn(c)[c].list = checking[c].list
        /\ Filter!Torn(c)[c].prompt = checking[c].prompt
    BY <1>1, TornThreads
  <2> DEFINE next == [Filter!Torn(c)[c] EXCEPT !.pc = "timing"]
  <2>3. checking' = [Filter!Torn(c) EXCEPT ![c] = next]
    BY <2>1, <2>2
  <2>4. next \in CheckSet /\ next.pc = "timing" /\ next.list = checking[c].list
    BY <2>2 DEF CheckSet
  <2> HIDE DEF next
  <2>5. checking' \in [Checks -> CheckSet] /\ checking'[c] = next /\
            \A d \in Checks \ {c} : checking'[d] = Filter!Torn(c)[d]
    BY <2>2, <2>3, <2>4
  <2>6. \A d \in Checks \ {c} :
          /\ checking'[d].pc = checking[d].pc /\ checking'[d].list = checking[d].list
          /\ checking'[d].prompt = checking[d].prompt
          /\ checking[d].torn => checking'[d].torn
          /\ checking[d].pc \in {"listed", "again"} => checking'[d].torn
    BY <1>1, <2>5, TornThreads
  <2>7. Full(checking[c].list) /\ checking[c].list \in SUBSET Rules
    BY <1>1, <2>1 DEF UsesFull, CheckSet
  <2>8. CacheTables' /\ Untouched'
    BY <1>1, <2>1, <2>5, <2>7 DEF CacheTables, Untouched, Filter!rows
  <2>9. TimeIsOfList'
    BY <2>1, <2>7 DEF TimeIsOfList, Full
  <2>10. ReadTogether'
    BY <2>4, <2>5, <2>6 DEF ReadTogether
  <2>11. UsesFull'
    BY <1>1, <2>4, <2>5, <2>6, <2>7 DEF UsesFull, Full
  <2>12. Filter!OnlyRacesSkip'
    BY <1>1, <2>4, <2>5, <2>6 DEF Filter!OnlyRacesSkip, Filter!Skipped
  <2> QED BY <2>8, <2>9, <2>10, <2>11, <2>12 DEF RulesInv
<1>10. CASE Filter!StoreTime(c)
  <2>1. checking[c].pc = "timing" /\ loaded' = "fresh" /\ UNCHANGED <<Filter!rows, activeRules, emptied>>
    BY <1>10 DEF Filter!StoreTime
  <2> DEFINE next == [checking[c] EXCEPT !.pc = "matching"]
  <2>2. checking' = [checking EXCEPT ![c] = next]
    BY <1>1, <1>10 DEF Filter!StoreTime
  <2>3. next \in CheckSet /\ next.pc = "matching" /\ next.list = checking[c].list
    BY <1>1 DEF CheckSet
  <2>4. Full(checking[c].list)
    BY <1>1, <2>1 DEF UsesFull
  <2> HIDE DEF next
  <2>5. checking' \in [Checks -> CheckSet] /\ checking'[c] = next /\
            \A d \in Checks \ {c} : checking'[d] = checking[d]
    BY <1>1, <2>2, <2>3
  <2>6. CacheTables' /\ Untouched'
    BY <1>1, <2>1, <2>5 DEF CacheTables, Untouched, Filter!rows
  <2>7. TimeIsOfList'
    BY <1>1, <2>1 DEF TimeIsOfList, Full
  <2>8. ReadTogether'
    BY <1>1, <2>1, <2>3, <2>5 DEF ReadTogether, Full
  <2>9. UsesFull' /\ Filter!OnlyRacesSkip'
    BY <1>1, <2>3, <2>4, <2>5 DEF UsesFull, Full, Filter!OnlyRacesSkip, Filter!Skipped
  <2> QED BY <2>6, <2>7, <2>8, <2>9 DEF RulesInv
<1>11. CASE Filter!FirstMatch(c)
  <2>1. checking[c].pc = "matching" /\ UNCHANGED <<Filter!rows, activeRules, loaded, emptied>>
    BY <1>11 DEF Filter!FirstMatch, Filter!cache
  <2> DEFINE pc == IF checking[c].prompt \notin checking[c].list THEN "allowed"
                   ELSE IF stored[checking[c].prompt] = "absent" THEN "failed" ELSE "blocked"
             next == [checking[c] EXCEPT !.pc = pc]
  <2>2. checking' = [checking EXCEPT ![c] = next]
    BY <1>1, <1>11 DEF Filter!FirstMatch
  <2>3. pc \in {"allowed", "failed", "blocked"} /\ (pc = "allowed" => checking[c].prompt \notin checking[c].list)
    OBVIOUS
  <2> HIDE DEF pc
  <2>4. next \in CheckSet /\ next.pc = pc /\ next.prompt = checking[c].prompt
    BY <1>1, <2>3 DEF CheckSet
  <2>5. next.torn <=> checking[c].torn
    BY <1>1 DEF CheckSet
  <2>6. Full(checking[c].list) \/ checking[c].torn
    BY <1>1, <2>1 DEF UsesFull
  <2> HIDE DEF next
  <2>7. next.pc = "allowed" /\ next.prompt \in Kept => next.torn
    BY <2>3, <2>4, <2>5, <2>6 DEF Full
  <2> QED BY <2>1, <2>2, <2>3, <2>4, <2>7, ThreadKeeps
<1>12. CASE Filter!Answer(c)
  <2>1. checking' = [checking EXCEPT ![c] = Filter!NoCheck] /\ UNCHANGED <<Filter!rows, activeRules, loaded, emptied>>
    BY <1>12 DEF Filter!Answer, Filter!cache
  <2> QED BY <1>2, <2>1, ThreadKeeps
<1> QED BY <1>3, <1>4, <1>5, <1>6, <1>7, <1>8, <1>9, <1>10, <1>11, <1>12 DEF Filter!Check

-----------------------------------------------------------------------------
(* The theorem *)

\* The invariant holds initially.
LEMMA CacheStarts ==
  ASSUME Filter!SensitiveRulesAssumption, Filter!Init
  PROVE  RulesInv
<1>1. Filter!NoCheck \in CheckSet /\ Filter!NoCheck.pc = "idle" /\ Filter!NoChange.pc = "idle" /\
          DOMAIN Filter!NoChange.writes = {}
  BY DEF Filter!NoCheck, CheckSet, Filter!NoChange
<1>2. CacheTables
  BY <1>1 DEF Filter!Init, CacheTables
<1>3. Untouched
  BY <1>1 DEF Filter!Init, Untouched
<1>4. TimeIsOfList /\ ReadTogether /\ UsesFull /\ Filter!OnlyRacesSkip
  BY <1>1 DEF Filter!Init, TimeIsOfList, ReadTogether, UsesFull, Filter!OnlyRacesSkip, Filter!Skipped
<1> QED BY <1>2, <1>3, <1>4 DEF RulesInv

\* Every step keeps it.
LEMMA CacheSteps ==
  ASSUME Filter!SensitiveRulesAssumption, RulesInv, [Filter!Next]_(Filter!vars)
  PROVE  RulesInv'
<1>1. CASE Filter!Next
  BY <1>1, ChangeStep, ExpireStep, CheckStep DEF Filter!Next
<1>2. CASE UNCHANGED Filter!vars
  BY <1>2 DEF Filter!vars, Filter!rows, Filter!cache, RulesInv, CacheTables, Untouched, TimeIsOfList,
      ReadTogether, UsesFull, Full,
              Filter!OnlyRacesSkip, Filter!Skipped
<1> QED BY <1>1, <1>2

\* The cached list and its time belong together but for the two races.
THEOREM CacheInvariance ==
  ASSUME Filter!SensitiveRulesAssumption
  PROVE  Filter!Spec => []RulesInv
<1>1. Filter!Init => RulesInv
  BY CacheStarts
<1>2. RulesInv /\ [Filter!Next]_(Filter!vars) => RulesInv'
  BY CacheSteps
<1> QED BY <1>1, <1>2, PTL DEF Filter!Spec

\* A rule that is enabled all along is skipped only by a check that mixed two lists
\* or has read the one that an invalidation threw away while its time stayed.
THEOREM OnlyTornSkip ==
  ASSUME Filter!SensitiveRulesAssumption
  PROVE  Filter!Spec => []Filter!OnlyRacesSkip
<1>1. RulesInv => Filter!OnlyRacesSkip
  BY DEF RulesInv
<1> QED BY <1>1, CacheInvariance, PTL

-----------------------------------------------------------------------------
(* The types of the rules, and who loads *)

\* A transaction writes rows that administrators touch, with one of their states.
ChangeIsSound(change) ==
  /\ "pc" \in DOMAIN change /\ change.pc \in {"idle", "read", "written", "untimed", "invalidated"}
  /\ DOMAIN change.writes \subseteq Rules \ Kept
  /\ \A r \in DOMAIN change.writes : change.writes[r] \in Filter!States
  /\ change.pc = "read" => change.rule \in Rules \ Kept /\ change.next \in Filter!States

RuleTables ==
  /\ stored \in [Rules -> Filter!States] /\ changes \in 0..MaxChanges
  /\ DOMAIN changing = Changes /\ \A a \in Changes : ChangeIsSound(changing[a])

Inside == {"again", "query", "loaded", "timing"}

OneLoader ==
  /\ monitor \in Checks \cup {Nobody}
  /\ \A c \in Checks : monitor = c <=> checking[c].pc \in Inside

\* A transaction that begins or goes on
LEMMA ChangeSound ==
  ASSUME RuleTables, NEW a \in Changes, NEW change, ChangeIsSound(change),
         changing' = [changing EXCEPT ![a] = change], stored' \in [Rules -> Filter!States],
         changes' \in 0..MaxChanges
  PROVE  RuleTables'
<1>1. DOMAIN changing' = Changes /\ \A b \in Changes : changing'[b] = change \/ changing'[b] = changing[b]
  BY DEF RuleTables
<1> QED BY <1>1 DEF RuleTables, ChangeIsSound

\* Every step of a transaction keeps the types of the rows.
LEMMA RulesStep ==
  ASSUME Filter!SensitiveRulesAssumption, RuleTables, Filter!Administer \/ Filter!Finish
  PROVE  RuleTables'
<1>1. /\ stored \in [Rules -> Filter!States] /\ changes \in 0..MaxChanges
      /\ DOMAIN changing = Changes /\ \A a \in Changes : ChangeIsSound(changing[a])
      /\ MaxChanges \in Nat
  BY DEF RuleTables, Filter!SensitiveRulesAssumption
<1>2. ASSUME NEW a \in Changes, NEW here, NEW writes, Filter!Begin(a, here, writes),
             DOMAIN writes \subseteq Rules \ Kept, \A r \in DOMAIN writes : writes[r] \in Filter!States
      PROVE  RuleTables'
  <2> DEFINE change == [pc |-> "written", here |-> here, writes |-> writes]
  <2>1. /\ changing' = [changing EXCEPT ![a] = change] /\ UNCHANGED stored
        /\ changes' = changes + 1 /\ changes < MaxChanges
    BY <1>2 DEF Filter!Begin
  <2>2. changes' \in 0..MaxChanges
    BY <1>1, <2>1
  <2>3. ChangeIsSound(change)
    BY <1>2 DEF ChangeIsSound
  <2> HIDE DEF change
  <2> QED BY <1>1, <2>1, <2>2, <2>3, ChangeSound
<1>3. ASSUME NEW a \in Changes, NEW here, NEW patterns \in SUBSET (Rules \ Kept), NEW replace,
             Filter!BatchConfigure(a, here, patterns, replace)
      PROVE  RuleTables'
  <2> DEFINE others == IF replace THEN {x \in Rules \ Kept : stored[x] # "absent"} ELSE {}
             writes == [r \in patterns \cup others |-> IF r \in patterns THEN "enabled" ELSE "disabled"]
  <2>1. Filter!Begin(a, here, writes)
    BY <1>3 DEF Filter!BatchConfigure
  <2>2. others \subseteq Rules \ Kept
    OBVIOUS
  <2> HIDE DEF others
  <2>3. DOMAIN writes \subseteq Rules \ Kept /\ \A r \in DOMAIN writes : writes[r] \in Filter!States
    BY <2>2 DEF Filter!States
  <2> HIDE DEF writes
  <2> QED BY <1>2, <2>1, <2>3
<1>4. ASSUME NEW a \in Changes, NEW here, NEW r \in Rules \ Kept,
             NEW enabled \in {"enabled", "disabled", "kept"}, Filter!ReadRule(a, here, r, enabled)
      PROVE  RuleTables'
  <2> DEFINE next == IF enabled = "kept" THEN stored[r] ELSE enabled
             change == [pc |-> "read", here |-> here, writes |-> <<>>, rule |-> r, next |-> next]
  <2>1. /\ changing' = [changing EXCEPT ![a] = change] /\ UNCHANGED stored
        /\ changes' = changes + 1 /\ changes < MaxChanges
    BY <1>4 DEF Filter!ReadRule
  <2>2. next \in Filter!States
    BY <1>1 DEF Filter!States
  <2> HIDE DEF next
  <2>3. ChangeIsSound(change)
    BY <2>2 DEF ChangeIsSound
  <2>4. changes' \in 0..MaxChanges
    BY <1>1, <2>1
  <2> HIDE DEF change
  <2> QED BY <1>1, <2>1, <2>3, <2>4, ChangeSound
<1>5. ASSUME NEW a \in Changes, NEW here, NEW r \in Rules \ Kept, Filter!DeleteRule(a, here, r)
      PROVE  RuleTables'
  <2> DEFINE writes == [x \in {r} |-> "absent"]
  <2>1. Filter!Begin(a, here, writes)
    BY <1>5 DEF Filter!DeleteRule
  <2>2. DOMAIN writes \subseteq Rules \ Kept /\ \A x \in DOMAIN writes : writes[x] \in Filter!States
    BY DEF Filter!States
  <2> HIDE DEF writes
  <2> QED BY <1>2, <2>1, <2>2
<1>6. ASSUME NEW a \in Changes, Filter!PatchRule(a)
      PROVE  RuleTables'
  <2> DEFINE rule == changing[a].rule
             writes == IF stored[rule] = "absent" THEN <<>> ELSE [r \in {rule} |-> changing[a].next]
             change == [pc |-> "written", here |-> changing[a].here, writes |-> writes]
  <2>1. changing' = [changing EXCEPT ![a] = change] /\ UNCHANGED <<stored, changes>> /\ changing[a].pc = "read"
    BY <1>6 DEF Filter!PatchRule
  <2>2. rule \in Rules \ Kept /\ changing[a].next \in Filter!States
    BY <1>1, <2>1 DEF ChangeIsSound
  <2> HIDE DEF rule
  <2>3. DOMAIN writes \subseteq Rules \ Kept /\ \A x \in DOMAIN writes : writes[x] \in Filter!States
    BY <2>2
  <2> HIDE DEF writes
  <2>4. ChangeIsSound(change)
    BY <2>3 DEF ChangeIsSound
  <2> HIDE DEF change
  <2> QED BY <1>1, <2>1, <2>4, ChangeSound
<1>7. ASSUME NEW a \in Changes, Filter!InvalidateTime(a) \/ Filter!InvalidateList(a)
      PROVE  RuleTables'
  <2>1. PICK pc \in {"untimed", "invalidated"} :
          changing' = [changing EXCEPT ![a].pc = pc] /\ UNCHANGED <<stored, changes>>
    BY <1>7 DEF Filter!InvalidateTime, Filter!InvalidateList
  <2> DEFINE change == [changing[a] EXCEPT !.pc = pc]
  <2>2. changing' = [changing EXCEPT ![a] = change]
    BY <2>1
  <2>3. ChangeIsSound(change)
    <3>1. /\ DOMAIN change = DOMAIN changing[a] /\ change.pc = pc
          /\ change.writes = changing[a].writes
      BY <1>1 DEF ChangeIsSound
    <3> HIDE DEF change
    <3> QED BY <1>1, <3>1 DEF ChangeIsSound
  <2> HIDE DEF change
  <2> QED BY <1>1, <2>1, <2>2, <2>3, ChangeSound
<1>8. ASSUME NEW a \in Changes, Filter!Commit(a)
      PROVE  RuleTables'
  <2>1. /\ stored' = [r \in Rules |-> IF r \in DOMAIN changing[a].writes THEN changing[a].writes[r] ELSE stored[r]]
        /\ changing' = [changing EXCEPT ![a] = Filter!NoChange] /\ UNCHANGED changes
    BY <1>8 DEF Filter!Commit
  <2>2. ChangeIsSound(Filter!NoChange)
    BY DEF Filter!NoChange, ChangeIsSound
  <2>3. \A r \in DOMAIN changing[a].writes : changing[a].writes[r] \in Filter!States
    BY <1>1 DEF ChangeIsSound
  <2>4. stored' \in [Rules -> Filter!States]
    BY <1>1, <2>1, <2>3
  <2> QED BY <1>1, <2>1, <2>2, <2>4, ChangeSound
<1> QED BY <1>3, <1>4, <1>5, <1>6, <1>7, <1>8 DEF Filter!Administer, Filter!Finish

\* A thread enters the block when nobody is in it, and only the one that is in it leaves it.
LEMMA LoaderKeeps ==
  ASSUME Filter!SensitiveRulesAssumption, OneLoader, NEW c \in Checks,
         \A d \in Checks \ {c} : checking'[d].pc = checking[d].pc,
         \/ UNCHANGED monitor /\ (checking'[c].pc \in Inside <=> checking[c].pc \in Inside)
         \/ checking[c].pc \in Inside /\ monitor' = Nobody /\ checking'[c].pc \notin Inside
         \/ monitor = Nobody /\ monitor' = c /\ checking'[c].pc \in Inside
  PROVE  OneLoader'
<1>1. Nobody \notin Checks
  BY DEF Filter!SensitiveRulesAssumption
<1>2. CASE UNCHANGED monitor /\ (checking'[c].pc \in Inside <=> checking[c].pc \in Inside)
  BY <1>2 DEF OneLoader
<1>3. CASE checking[c].pc \in Inside /\ monitor' = Nobody /\ checking'[c].pc \notin Inside
  BY <1>1, <1>3 DEF OneLoader
<1>4. CASE monitor = Nobody /\ monitor' = c /\ checking'[c].pc \in Inside
  BY <1>1, <1>4 DEF OneLoader
<1> QED BY <1>2, <1>3, <1>4

\* One thread at most is in the synchronized block: it enters when nobody holds the monitor.
LEMMA LoaderStep ==
  ASSUME Filter!SensitiveRulesAssumption, CacheTables, OneLoader, [Filter!Next]_(Filter!vars)
  PROVE  OneLoader'
<1>1. /\ checking \in [Checks -> CheckSet] /\ \A c \in Checks : checking[c] \in CheckSet
      /\ Nobody \notin Checks
  BY DEF CacheTables, Filter!SensitiveRulesAssumption
<1>2. ASSUME UNCHANGED monitor, \A c \in Checks : checking'[c].pc = checking[c].pc
      PROVE  OneLoader'
  BY <1>2 DEF OneLoader
<1>3. ASSUME NEW c \in Checks, NEW next, checking' = [checking EXCEPT ![c] = next]
      PROVE  checking'[c] = next /\ \A d \in Checks \ {c} : checking'[d].pc = checking[d].pc
  BY <1>1, <1>3
<1>4. ASSUME NEW c \in Checks, NEW r \in Rules, Filter!AssertAllowed(c, r)
      PROVE  OneLoader'
  <2> DEFINE next == [Filter!NoCheck EXCEPT !.pc = "begun", !.prompt = r]
  <2>1. checking' = [checking EXCEPT ![c] = next] /\ UNCHANGED monitor /\ checking[c].pc = "idle"
    BY <1>4 DEF Filter!AssertAllowed, Filter!cache
  <2>2. next.pc = "begun"
    BY DEF Filter!NoCheck
  <2> HIDE DEF next
  <2> QED BY <1>3, <2>1, <2>2, LoaderKeeps DEF Inside
<1>5. ASSUME NEW c \in Checks, NEW next, checking' = [checking EXCEPT ![c] = next], UNCHANGED monitor,
             next.pc \in Inside <=> checking[c].pc \in Inside
      PROVE  OneLoader'
  BY <1>3, <1>5, LoaderKeeps
<1>6. ASSUME NEW c \in Checks, Filter!ReadList(c)
      PROVE  OneLoader'
  <2> DEFINE next == [checking[c] EXCEPT !.pc = "listed", !.list = activeRules, !.torn = emptied]
  <2>1. checking' = [checking EXCEPT ![c] = next] /\ UNCHANGED monitor /\ checking[c].pc = "begun"
    BY <1>1, <1>6 DEF Filter!ReadList, Filter!cache
  <2>2. next.pc = "listed"
    BY <1>1 DEF CheckSet
  <2> HIDE DEF next
  <2> QED BY <1>5, <2>1, <2>2 DEF Inside
<1>7. ASSUME NEW c \in Checks, Filter!CheckTime(c)
      PROVE  OneLoader'
  <2> DEFINE next == IF Filter!Fresh(c) THEN [checking[c] EXCEPT !.pc = "matching", !.early = FALSE]
                     ELSE [checking[c] EXCEPT !.pc = "waiting", !.torn = FALSE]
  <2>1. checking' = [checking EXCEPT ![c] = next] /\ UNCHANGED monitor /\ checking[c].pc = "listed"
    BY <1>1, <1>7 DEF Filter!CheckTime, Filter!cache
  <2>2. next.pc \in {"matching", "waiting"}
    BY <1>1 DEF CheckSet
  <2> HIDE DEF next
  <2> QED BY <1>5, <2>1, <2>2 DEF Inside
<1>8. ASSUME NEW c \in Checks, Filter!Synchronize(c)
      PROVE  OneLoader'
  <2> DEFINE pc == IF Filter!Fresh(c) THEN "again" ELSE "query"
             early == checking[c].early /\ Filter!Fresh(c)
             next == [checking[c] EXCEPT !.pc = pc, !.early = early]
  <2>1. checking' = [checking EXCEPT ![c] = next] /\ monitor = Nobody /\ monitor' = c
    BY <1>1, <1>8 DEF Filter!Synchronize
  <2>2. pc \in {"again", "query"}
    OBVIOUS
  <2> HIDE DEF pc, early
  <2>3. next.pc \in Inside
    BY <1>1, <2>2 DEF CheckSet, Inside
  <2> HIDE DEF next
  <2> QED BY <1>3, <2>1, <2>3, LoaderKeeps
<1>9. ASSUME NEW c \in Checks, Filter!Reread(c)
      PROVE  OneLoader'
  <2> DEFINE torn == checking[c].torn \/ emptied
             next == [checking[c] EXCEPT !.pc = "matching", !.list = activeRules, !.early = FALSE, !.torn = torn]
  <2>1. checking' = [checking EXCEPT ![c] = next] /\ monitor' = Nobody /\ checking[c].pc = "again"
    BY <1>1, <1>9 DEF Filter!Reread
  <2> HIDE DEF torn
  <2>2. next.pc = "matching"
    BY <1>1 DEF CheckSet
  <2> HIDE DEF next
  <2> QED BY <1>3, <2>1, <2>2, LoaderKeeps DEF Inside
<1>10. ASSUME NEW c \in Checks, Filter!Query(c)
       PROVE  OneLoader'
  <2> DEFINE next == [checking[c] EXCEPT !.pc = "loaded", !.list = Filter!Enabled]
  <2>1. checking' = [checking EXCEPT ![c] = next] /\ UNCHANGED monitor /\ checking[c].pc = "query"
    BY <1>1, <1>10 DEF Filter!Query, Filter!cache
  <2>2. next.pc = "loaded"
    BY <1>1 DEF CheckSet
  <2> HIDE DEF next
  <2> QED BY <1>5, <2>1, <2>2 DEF Inside
<1>11. ASSUME NEW c \in Checks, Filter!StoreList(c)
       PROVE  OneLoader'
  <2>1. checking' = [Filter!Torn(c) EXCEPT ![c].pc = "timing"] /\ UNCHANGED monitor /\ checking[c].pc = "loaded"
    BY <1>11 DEF Filter!StoreList
  <2>2. /\ Filter!Torn(c) \in [Checks -> CheckSet]
        /\ \A d \in Checks : Filter!Torn(c)[d].pc = checking[d].pc
    BY TornThreads
  <2> DEFINE next == [Filter!Torn(c)[c] EXCEPT !.pc = "timing"]
  <2>3. checking' = [Filter!Torn(c) EXCEPT ![c] = next]
    BY <2>1, <2>2
  <2>4. next.pc = "timing"
    BY <2>2 DEF CheckSet
  <2> HIDE DEF next
  <2>5. checking'[c].pc = "timing" /\ \A d \in Checks \ {c} : checking'[d].pc = checking[d].pc
    BY <2>2, <2>3, <2>4
  <2> QED BY <2>1, <2>5, LoaderKeeps DEF Inside
<1>12. ASSUME NEW c \in Checks, Filter!StoreTime(c)
       PROVE  OneLoader'
  <2> DEFINE next == [checking[c] EXCEPT !.pc = "matching"]
  <2>1. checking' = [checking EXCEPT ![c] = next] /\ monitor' = Nobody /\ checking[c].pc = "timing"
    BY <1>1, <1>12 DEF Filter!StoreTime
  <2>2. next.pc = "matching"
    BY <1>1 DEF CheckSet
  <2> HIDE DEF next
  <2> QED BY <1>3, <2>1, <2>2, LoaderKeeps DEF Inside
<1>13. ASSUME NEW c \in Checks, Filter!FirstMatch(c)
       PROVE  OneLoader'
  <2> DEFINE pc == IF checking[c].prompt \notin checking[c].list THEN "allowed"
                   ELSE IF stored[checking[c].prompt] = "absent" THEN "failed" ELSE "blocked"
             next == [checking[c] EXCEPT !.pc = pc]
  <2>1. checking' = [checking EXCEPT ![c] = next] /\ UNCHANGED monitor /\ checking[c].pc = "matching"
    BY <1>1, <1>13 DEF Filter!FirstMatch, Filter!cache
  <2>2. pc \in {"allowed", "failed", "blocked"}
    OBVIOUS
  <2> HIDE DEF pc
  <2>3. next.pc = pc
    BY <1>1 DEF CheckSet
  <2> HIDE DEF next
  <2> QED BY <1>5, <2>1, <2>2, <2>3 DEF Inside
<1>14. ASSUME NEW c \in Checks, Filter!Answer(c)
       PROVE  OneLoader'
  <2>1. /\ checking' = [checking EXCEPT ![c] = Filter!NoCheck] /\ UNCHANGED monitor
        /\ checking[c].pc \in {"allowed", "blocked", "failed"}
    BY <1>14 DEF Filter!Answer, Filter!cache, Filter!Finished
  <2>2. Filter!NoCheck.pc = "idle"
    BY DEF Filter!NoCheck
  <2> QED BY <1>5, <2>1, <2>2 DEF Inside
<1>15. CASE Filter!Expire
  <2>1. /\ UNCHANGED monitor
        /\ checking' = [c \in Checks |->
             [checking[c] EXCEPT !.early = checking[c].early \/ checking[c].pc \in Filter!Begun]]
    BY <1>15 DEF Filter!Expire
  <2>2. ASSUME NEW c \in Checks
        PROVE  checking'[c].pc = checking[c].pc
    <3> DEFINE early == checking[c].early \/ checking[c].pc \in Filter!Begun
    <3>1. checking'[c] = [checking[c] EXCEPT !.early = early]
      BY <2>1
    <3> HIDE DEF early
    <3> QED BY <1>1, <3>1 DEF CheckSet
  <2> QED BY <1>2, <2>1, <2>2
<1>16. ASSUME NEW a \in Changes, Filter!InvalidateList(a)
       PROVE  OneLoader'
  <2>1. UNCHANGED monitor /\ checking' = Filter!Torn(Nobody)
    BY <1>16 DEF Filter!InvalidateList
  <2> QED BY <1>2, <2>1, TornThreads
<1>17. CASE \/ Filter!Administer
            \/ \E a \in Changes : Filter!PatchRule(a) \/ Filter!InvalidateTime(a) \/ Filter!Commit(a)
  <2>1. UNCHANGED <<monitor, checking>>
    BY <1>17 DEF Filter!Administer, Filter!BatchConfigure, Filter!ReadRule, Filter!DeleteRule, Filter!Begin,
                 Filter!PatchRule, Filter!InvalidateTime, Filter!Commit, Filter!cache
  <2> QED BY <1>2, <2>1
<1>18. CASE UNCHANGED Filter!vars
  BY <1>2, <1>18 DEF Filter!vars, Filter!cache
<1> QED
  BY <1>4, <1>6, <1>7, <1>8, <1>9, <1>10, <1>11, <1>12, <1>13, <1>14, <1>15, <1>16, <1>17, <1>18
     DEF Filter!Next, Filter!Check, Filter!Finish

\* Checks, the cached lists they hold and transactions are what they are taken for:
\* a transaction holds rows that administrators touch, and the one thread that is in
\* the synchronized block of loadActiveRules is the one that reads the rows, and stores
\* the list and its time.
THEOREM FilterTypeCorrect ==
  ASSUME Filter!SensitiveRulesAssumption
  PROVE  Filter!Spec => []Filter!TypeOK
<1> USE DEF Filter!SensitiveRulesAssumption
<1>1. Filter!Init => RuleTables /\ OneLoader
  <2> SUFFICES ASSUME Filter!Init PROVE RuleTables /\ OneLoader
    OBVIOUS
  <2>1. ChangeIsSound(Filter!NoChange) /\ Filter!NoCheck.pc = "idle"
    BY DEF ChangeIsSound, Filter!NoChange, Filter!NoCheck
  <2> QED BY <2>1 DEF Filter!Init, RuleTables, OneLoader, Inside, Filter!States
<1>2. RulesInv /\ RuleTables /\ OneLoader /\ [Filter!Next]_(Filter!vars) => RuleTables' /\ OneLoader'
  <2> SUFFICES ASSUME RulesInv, RuleTables, OneLoader, [Filter!Next]_(Filter!vars)
               PROVE  RuleTables' /\ OneLoader'
    OBVIOUS
  <2>1. OneLoader'
    BY LoaderStep DEF RulesInv
  <2>2. CASE Filter!Administer \/ Filter!Finish
    BY <2>1, <2>2, RulesStep
  <2>3. CASE UNCHANGED Filter!rows
    BY <2>1, <2>3 DEF Filter!rows, RuleTables
  <2>4. ASSUME \/ Filter!Expire \/ UNCHANGED Filter!vars
               \/ \E c \in Checks : Filter!Check(c) \/ \E r \in Rules : Filter!AssertAllowed(c, r)
        PROVE  UNCHANGED Filter!rows
    BY <2>4 DEF Filter!Expire, Filter!Check, Filter!AssertAllowed, Filter!ReadList, Filter!CheckTime,
                Filter!Synchronize, Filter!Reread, Filter!Query, Filter!StoreList, Filter!StoreTime,
                Filter!FirstMatch, Filter!Answer, Filter!vars
  <2> QED BY <2>2, <2>3, <2>4 DEF Filter!Next
<1>3. RulesInv /\ RuleTables /\ OneLoader => Filter!TypeOK
  BY DEF RulesInv, CacheTables, CheckSet, RuleTables, ChangeIsSound, OneLoader, Inside, Filter!TypeOK
<1>4. Filter!Spec => []RulesInv
  BY CacheInvariance
<1> QED BY <1>1, <1>2, <1>3, <1>4, PTL DEF Filter!Spec

-----------------------------------------------------------------------------
(* The inductive invariant *)

Stages == {"idle", "inserting", "choosing", "replacing", "ready", "calling", "failed"}

Statuses == {"none", "queued", "processing", "ended", "deleted"}

RowSet == [made : {"yes", "no", "gone"}, enabled : BOOLEAN,
           health : {"unknown", "healthy", "degraded", "down"}, failures : Nat, cooling : BOOLEAN]

(* The tables and the two histories *)
GatewayTables ==
  /\ rows \in [Gateways -> RowSet]
  /\ tasks \in [ImageTasks -> [status : Statuses, gateway : Gateways \cup {NoGateway}]]
  /\ working \in [ImageTasks -> [pc : Stages, gateway : Gateways \cup {NoGateway}]]
  /\ streak \in [Gateways -> Nat] /\ touched \in [Gateways -> BOOLEAN]
  /\ outcomes \in Nat

(* What an administrator's request has read: the row that a patch will      *)
(* write is one of a gateway that was there.                                *)
Asked ==
  /\ DOMAIN asking = Requests
  /\ \A a \in Requests :
       /\ asking[a].pc # "idle" => asking[a].gateway \in Gateways
       /\ asking[a].pc = "patching" => asking[a].row \in RowSet /\ asking[a].row.made = "yes"

(* A task has a gateway that is there, as the foreign key demands, and who  *)
(* is about to call one, calls it or has called it uses that of the task,   *)
(* unless the task has been deleted.                                        *)
AssignedExist ==
  \A t \in ImageTasks :
    tasks[t].status \notin {"none", "deleted"} => tasks[t].gateway \in Gateways /\ Health!Exists(tasks[t].gateway)

UsesAssigned ==
  \A t \in ImageTasks :
    /\ working[t].pc \in {"ready", "calling", "failed"} =>
         /\ working[t].gateway \in Gateways /\ tasks[t].status # "none"
         /\ ~Health!Deleted(t) => working[t].gateway = tasks[t].gateway
    /\ working[t].pc \in {"inserting", "replacing"} => working[t].gateway \in Gateways
    /\ working[t].pc \in {"choosing", "replacing"} => tasks[t].status # "none"

(* A gateway that is not made yet has no history. *)
Unused == \A g \in Gateways : rows[g].made = "no" => streak[g] = 0

Assigned == AssignedExist /\ UsesAssigned
Earned == Unused /\ Health!HealthIsEarned
GatewayInv == GatewayTables /\ Asked /\ Assigned /\ Earned

-----------------------------------------------------------------------------
(* The rows *)

\* What an outcome writes is a row of the gateway that is there.
LEMMA RecordRows ==
  ASSUME GatewayTables, NEW g \in Gateways, NEW row \in RowSet, row.made = rows[g].made, NEW n \in Nat,
      Health!Record(g, row, n)
  PROVE  /\ rows' \in [Gateways -> RowSet] /\ \A h \in Gateways : rows'[h].made = rows[h].made
         /\ streak' \in [Gateways -> Nat] /\ touched' \in [Gateways -> BOOLEAN] /\ outcomes' \in Nat
         /\ Unused => Unused'
<1>1. rows \in [Gateways -> RowSet] /\ streak \in [Gateways -> Nat] /\ touched \in [Gateways -> BOOLEAN]
      /\ outcomes' \in Nat
  BY DEF GatewayTables, Health!Record
<1>2. CASE ~Health!Exists(g)
  BY <1>1, <1>2 DEF Health!Record, Unused
<1>3. CASE Health!Exists(g)
  <2>1. /\ rows' = [rows EXCEPT ![g] = row]
        /\ streak' = [streak EXCEPT ![g] = n]
        /\ touched' = [touched EXCEPT ![g] = touched[g] /\ n # 0]
    BY <1>3 DEF Health!Record
  <2>2. touched' \in [Gateways -> BOOLEAN]
    BY <1>1, <2>1, Zenon
  <2>3. rows' \in [Gateways -> RowSet] /\ \A h \in Gateways : rows'[h].made = rows[h].made
    BY <1>1, <2>1
  <2>4. Unused => Unused'
    BY <1>1, <1>3, <2>1, <2>3 DEF Unused, Health!Exists
  <2> QED BY <1>1, <2>1, <2>2, <2>3, <2>4
<1> QED BY <1>2, <1>3

\* The rows that the outcomes and the administrators write.
LEMMA OutcomeRows ==
  ASSUME NEW row \in RowSet, NEW n \in Nat
  PROVE  /\ [row EXCEPT !.health = "healthy", !.failures = 0, !.cooling = FALSE] \in RowSet
         /\ [row EXCEPT !.failures = n, !.health = "degraded"] \in RowSet
         /\ [row EXCEPT !.cooling = FALSE] \in RowSet
         /\ [row EXCEPT !.made = "gone"] \in RowSet
BY DEF RowSet

\* A recorded outcome keeps a row that tells what has happened, and makes none
\* that does not.
LEMMA RecordEarned ==
  ASSUME Health!GatewayHealthAssumption, GatewayTables, Health!HealthIsEarned, NEW g \in Gateways,
         Health!RecordSuccess(g) \/ Health!RecordFailure(g) \/ Health!RecordFailedCheck(g)
  PROVE  Health!HealthIsEarned'
<1>1. /\ rows \in [Gateways -> RowSet] /\ streak \in [Gateways -> Nat] /\ touched \in [Gateways -> BOOLEAN]
      /\ Threshold \in Nat /\ Threshold > 0 /\ rows[g] \in RowSet /\ rows[g].failures \in Nat /\ streak[g] \in Nat
  BY DEF GatewayTables, Health!GatewayHealthAssumption, RowSet
<1>2. CASE ~Health!Exists(g)
  BY <1>2 DEF Health!RecordSuccess, Health!RecordFailure, Health!RecordFailedCheck, Health!Record,
      Health!HealthIsEarned
<1>3. ASSUME NEW row \in RowSet, NEW n \in Nat, Health!Exists(g), Health!Record(g, row, n),
             n = 0 \/ ~touched[g] => row.failures = n /\ (row.cooling \/ row.health = "down" => n >= Threshold)
      PROVE  Health!HealthIsEarned'
  <2>1. /\ rows' = [rows EXCEPT ![g] = row]
        /\ streak' = [streak EXCEPT ![g] = n]
        /\ touched' = [touched EXCEPT ![g] = touched[g] /\ n # 0]
    BY <1>3 DEF Health!Record
  <2>2. rows'[g] = row /\ streak'[g] = n /\ (~touched'[g] => n = 0 \/ ~touched[g])
    BY <1>1, <2>1
  <2>3. \A h \in Gateways \ {g} : rows'[h] = rows[h] /\ streak'[h] = streak[h] /\ touched'[h] = touched[h]
    BY <1>1, <2>1
  <2>4. ASSUME NEW h \in Gateways, ~touched'[h]
        PROVE  /\ rows'[h].failures = streak'[h]
               /\ rows'[h].cooling \/ rows'[h].health = "down" => streak'[h] >= Threshold
    <3>1. CASE h = g
      BY <1>3, <2>2, <2>4, <3>1
    <3>2. CASE h # g
      BY <2>3, <2>4, <3>2 DEF Health!HealthIsEarned
    <3> QED BY <3>1, <3>2
  <2> QED BY <2>4 DEF Health!HealthIsEarned
<1>4. CASE Health!Exists(g) /\ Health!RecordSuccess(g)
  <2> DEFINE row == [rows[g] EXCEPT !.health = "healthy", !.failures = 0, !.cooling = FALSE]
  <2>1. row \in RowSet /\ row.failures = 0 /\ ~row.cooling /\ row.health # "down"
    BY <1>1 DEF RowSet
  <2>2. Health!Record(g, row, 0)
    BY <1>4 DEF Health!RecordSuccess
  <2> HIDE DEF row
  <2> QED BY <1>3, <1>4, <2>1, <2>2
<1>5. CASE Health!Exists(g) /\ Health!RecordFailure(g)
  <2> DEFINE n == rows[g].failures + 1
             health == IF n >= Threshold THEN "down" ELSE "degraded"
             cooling == n >= Threshold
             row == [rows[g] EXCEPT !.failures = n, !.health = health, !.cooling = cooling]
  <2>1. Health!Record(g, row, streak[g] + 1)
    BY <1>5 DEF Health!RecordFailure
  <2>2. n \in Nat /\ health \in {"degraded", "down"} /\ cooling \in BOOLEAN
    BY <1>1
  <2>3. /\ health = "down" => n >= Threshold
        /\ cooling => n >= Threshold
    OBVIOUS
  <2>4. ~touched[g] => n = streak[g] + 1
    BY DEF Health!HealthIsEarned
  <2>5. row = [rows[g] EXCEPT !.failures = n, !.health = health, !.cooling = cooling]
    OBVIOUS
  <2> HIDE DEF n, health, cooling, row
  <2>6. row \in RowSet /\ row.failures = n /\ row.health = health /\ (row.cooling <=> cooling)
    <3>1. rows[g] \in RowSet
      BY <1>1
    <3>2. row \in RowSet /\ row.made = rows[g].made /\ row.failures = n /\ row.health = health /\
              (row.cooling <=> cooling)
      BY <2>2, <2>5, <3>1 DEF RowSet
    <3> QED BY <3>2
  <2>7. ~touched[g] =>
          row.failures = streak[g] + 1 /\ (row.cooling \/ row.health = "down" => streak[g] + 1 >= Threshold)
    BY <2>3, <2>4, <2>6
  <2> QED BY <1>1, <1>3, <1>5, <2>1, <2>6, <2>7
<1>6. CASE Health!Exists(g) /\ Health!RecordFailedCheck(g)
  <2> DEFINE n == rows[g].failures + 1
             row == [rows[g] EXCEPT !.failures = n, !.health = "degraded"]
  <2>1. Health!Record(g, row, streak[g] + 1)
    BY <1>6 DEF Health!RecordFailedCheck
  <2>2. n \in Nat
    BY <1>1
  <2>3. ~touched[g] => n = streak[g] + 1 /\ (rows[g].cooling => streak[g] >= Threshold)
    BY DEF Health!HealthIsEarned
  <2> HIDE DEF n
  <2>4. row \in RowSet
    BY <1>1, <2>2, OutcomeRows
  <2>5. row.failures = n /\ row.cooling = rows[g].cooling /\ row.health # "down"
    BY <1>1 DEF RowSet
  <2> HIDE DEF row
  <2>6. ~touched[g] =>
          row.failures = streak[g] + 1 /\ (row.cooling \/ row.health = "down" => streak[g] + 1 >= Threshold)
    BY <1>1, <2>3, <2>5
  <2> QED BY <1>1, <1>3, <1>6, <2>1, <2>4, <2>6
<1> QED BY <1>2, <1>4, <1>5, <1>6

\* An outcome of a call or of a check keeps the rows' part of the invariant, and
\* makes and unmakes no gateway.
LEMMA OutcomeKeeps ==
  ASSUME Health!GatewayHealthAssumption, GatewayInv, NEW g \in Gateways,
         Health!RecordSuccess(g) \/ Health!RecordFailure(g) \/ Health!RecordFailedCheck(g)
  PROVE  /\ rows' \in [Gateways -> RowSet] /\ \A h \in Gateways : rows'[h].made = rows[h].made
         /\ streak' \in [Gateways -> Nat] /\ touched' \in [Gateways -> BOOLEAN] /\ outcomes' \in Nat
         /\ Earned'
<1>1. GatewayTables /\ Unused /\ Health!HealthIsEarned /\ rows[g] \in RowSet /\ rows[g].failures \in Nat /\
          streak[g] \in Nat
  BY DEF GatewayInv, Earned, GatewayTables, RowSet
<1>2. Health!HealthIsEarned'
  BY <1>1, RecordEarned
<1>3. ASSUME NEW row \in RowSet, row.made = rows[g].made, NEW n \in Nat, Health!Record(g, row, n)
      PROVE  /\ rows' \in [Gateways -> RowSet] /\ \A h \in Gateways : rows'[h].made = rows[h].made
             /\ streak' \in [Gateways -> Nat] /\ touched' \in [Gateways -> BOOLEAN] /\ outcomes' \in Nat
             /\ Unused'
  BY <1>1, <1>3, RecordRows
<1>4. CASE Health!RecordSuccess(g)
  <2> DEFINE row == [rows[g] EXCEPT !.health = "healthy", !.failures = 0, !.cooling = FALSE]
  <2>1. row \in RowSet /\ row.made = rows[g].made
    BY <1>1 DEF RowSet
  <2>2. Health!Record(g, row, 0)
    BY <1>4 DEF Health!RecordSuccess
  <2> HIDE DEF row
  <2> QED BY <1>2, <1>3, <2>1, <2>2 DEF Earned
<1>5. CASE Health!RecordFailure(g)
  <2> DEFINE n == rows[g].failures + 1
             health == IF n >= Threshold THEN "down" ELSE "degraded"
             cooling == n >= Threshold
             row == [rows[g] EXCEPT !.failures = n, !.health = health, !.cooling = cooling]
  <2>1. Health!Record(g, row, streak[g] + 1)
    BY <1>5 DEF Health!RecordFailure
  <2>2. n \in Nat /\ health \in {"degraded", "down"} /\ cooling \in BOOLEAN /\ streak[g] + 1 \in Nat
    BY <1>1
  <2>3. row = [rows[g] EXCEPT !.failures = n, !.health = health, !.cooling = cooling]
    OBVIOUS
  <2> HIDE DEF n, health, cooling, row
  <2>4. row \in RowSet /\ row.made = rows[g].made
    BY <1>1, <2>2, <2>3 DEF RowSet
  <2> QED BY <1>2, <1>3, <2>1, <2>2, <2>4 DEF Earned
<1>6. CASE Health!RecordFailedCheck(g)
  <2> DEFINE n == rows[g].failures + 1
             row == [rows[g] EXCEPT !.failures = n, !.health = "degraded"]
  <2>1. Health!Record(g, row, streak[g] + 1)
    BY <1>6 DEF Health!RecordFailedCheck
  <2>2. n \in Nat /\ streak[g] + 1 \in Nat
    BY <1>1
  <2>3. row.made = rows[g].made
    BY <1>1 DEF RowSet
  <2> HIDE DEF n
  <2>4. row \in RowSet
    BY <1>1, <2>2, OutcomeRows
  <2> HIDE DEF row
  <2> QED BY <1>2, <1>3, <2>1, <2>2, <2>3, <2>4 DEF Earned
<1> QED BY <1>4, <1>5, <1>6

-----------------------------------------------------------------------------
(* The tasks and who works on them *)

\* Gateways that are there still are.
GatewaysStay == \A g \in Gateways : Health!Exists(g) => Health!Exists(g)'

\* A step that only moves who works on t keeps what is assigned if the new place
\* is sound.
LEMMA PlaceKeeps ==
  ASSUME GatewayTables, Assigned, GatewaysStay, NEW t \in ImageTasks,
      NEW place \in [pc : Stages, gateway : Gateways \cup {NoGateway}],
         working' = [working EXCEPT ![t] = place], UNCHANGED tasks,
         place.pc \in {"ready", "calling", "failed"} =>
           /\ place.gateway \in Gateways /\ tasks[t].status # "none"
           /\ ~Health!Deleted(t) => place.gateway = tasks[t].gateway,
         place.pc \in {"inserting", "replacing"} => place.gateway \in Gateways,
         place.pc \in {"choosing", "replacing"} => tasks[t].status # "none"
  PROVE  Assigned' /\ working' \in [ImageTasks -> [pc : Stages, gateway : Gateways \cup {NoGateway}]]
<1>1. working \in [ImageTasks -> [pc : Stages, gateway : Gateways \cup {NoGateway}]]
  BY DEF GatewayTables
<1>2. AssignedExist'
  BY DEF Assigned, AssignedExist, GatewaysStay
<1>3. UsesAssigned'
  <2>1. \A u \in ImageTasks \ {t} : working'[u] = working[u]
    BY <1>1
  <2>2. working'[t] = place
    BY <1>1
  <2> QED BY <2>1, <2>2 DEF Assigned, UsesAssigned, Health!Deleted
<1> QED BY <1>1, <1>2, <1>3 DEF Assigned

\* A step that gives t a status and a gateway that is there keeps what is assigned
\* if the new place is sound.
LEMMA AssignKeeps ==
  ASSUME GatewayTables, Assigned, GatewaysStay, NEW t \in ImageTasks,
         NEW status \in {"queued", "processing", "ended"}, NEW g \in Gateways, Health!Exists(g),
         NEW place \in [pc : Stages, gateway : Gateways \cup {NoGateway}],
         Health!SetTask(t, status, g), working' = [working EXCEPT ![t] = place],
         place.pc = "idle" \/ (place.pc \in {"ready", "calling", "failed"} /\ place.gateway = g)
  PROVE  /\ Assigned' /\ working' \in [ImageTasks -> [pc : Stages, gateway : Gateways \cup {NoGateway}]]
         /\ tasks' \in [ImageTasks -> [status : Statuses, gateway : Gateways \cup {NoGateway}]]
<1>1. /\ working \in [ImageTasks -> [pc : Stages, gateway : Gateways \cup {NoGateway}]]
      /\ tasks \in [ImageTasks -> [status : Statuses, gateway : Gateways \cup {NoGateway}]]
      /\ status \in Statuses
  BY DEF GatewayTables, Statuses
<1>2. tasks' = [tasks EXCEPT ![t] = [status |-> status, gateway |-> g]]
  BY DEF Health!SetTask
<1>3. \A u \in ImageTasks \ {t} : working'[u] = working[u] /\ tasks'[u] = tasks[u]
  BY <1>1, <1>2
<1>4. working'[t] = place /\ tasks'[t].status = status /\ tasks'[t].gateway = g
  BY <1>1, <1>2
<1>5. Health!Exists(g)'
  BY DEF GatewaysStay
<1>6. AssignedExist'
  BY <1>3, <1>4, <1>5 DEF Assigned, AssignedExist, GatewaysStay
<1>7. UsesAssigned'
  BY <1>3, <1>4 DEF Assigned, UsesAssigned, Health!Deleted
<1> QED BY <1>1, <1>2, <1>6, <1>7 DEF Assigned

\* Requests that are as they were, have read what they had read.
LEMMA AskedKeeps ==
  ASSUME Asked, UNCHANGED asking
  PROVE  Asked'
BY DEF Asked

\* A step that leaves the rows and what was counted keeps what they tell.
LEMMA RowsKeep ==
  ASSUME Earned, UNCHANGED <<rows, Health!counted>>
  PROVE  Earned' /\ GatewaysStay
BY DEF Earned, Unused, Health!HealthIsEarned, Health!counted, GatewaysStay, Health!Exists

\* The task of a user who is deleted has no gateway; who works on it goes on.
LEMMA DeletionKeeps ==
  ASSUME Health!GatewayHealthAssumption, GatewayInv, NEW t \in ImageTasks, Health!DeleteUser(t)
  PROVE  GatewayInv'
<1>1. /\ UNCHANGED <<rows, working, asking, streak, touched, outcomes>>
      /\ tasks' = [tasks EXCEPT ![t] = [status |-> "deleted", gateway |-> NoGateway]]
      /\ tasks[t].status # "none"
  BY DEF Health!DeleteUser, Health!counted, Health!SetTask
<1>2. /\ tasks \in [ImageTasks -> [status : Statuses, gateway : Gateways \cup {NoGateway}]]
      /\ "deleted" \in Statuses
  BY DEF GatewayInv, GatewayTables, Statuses
<1>3. /\ tasks' \in [ImageTasks -> [status : Statuses, gateway : Gateways \cup {NoGateway}]]
      /\ tasks'[t].status = "deleted" /\ \A u \in ImageTasks \ {t} : tasks'[u] = tasks[u]
  BY <1>1, <1>2
<1>4. GatewayTables' /\ Asked' /\ Earned'
  BY <1>1, <1>3, AskedKeeps, RowsKeep DEF GatewayInv, GatewayTables, Health!counted
<1>5. AssignedExist'
  BY <1>1, <1>3 DEF GatewayInv, Assigned, AssignedExist, Health!Exists
<1>6. UsesAssigned'
  BY <1>1, <1>3 DEF GatewayInv, Assigned, UsesAssigned, Health!Deleted
<1> QED BY <1>4, <1>5, <1>6 DEF GatewayInv, Assigned

\* The requests and the workers: every step on a task keeps the invariant.
LEMMA TaskStep ==
  ASSUME Health!GatewayHealthAssumption, GatewayInv, NEW t \in ImageTasks,
         \/ \E g \in Gateways : Health!SelectGateway(t, g) \/ Health!SelectReplacement(t, g)
         \/ Health!InsertTask(t) \/ Health!ReadTask(t) \/ Health!GatewayUnavailable(t) \/ Health!Reassign(t) \/
                Health!Claim(t)
         \/ Health!Succeed(t) \/ Health!FindNoTask(t) \/ Health!DeleteUser(t)
         \/ \E counts \in BOOLEAN : Health!CallFails(t, counts)
         \/ \E status \in {"queued", "ended"} : Health!Settle(t, status)
  PROVE  GatewayInv'
<1> DEFINE Places == [pc : Stages, gateway : Gateways \cup {NoGateway}]
           TaskRows == [status : Statuses, gateway : Gateways \cup {NoGateway}]
<1>1. /\ rows \in [Gateways -> RowSet] /\ streak \in [Gateways -> Nat] /\ touched \in [Gateways -> BOOLEAN]
      /\ outcomes \in Nat
      /\ GatewayTables /\ Asked /\ Assigned /\ Earned
  BY DEF GatewayInv, GatewayTables
<1>2. /\ working \in [ImageTasks -> Places] /\ tasks \in [ImageTasks -> TaskRows]
      /\ working[t] \in Places /\ tasks[t] \in TaskRows /\ tasks[t].gateway \in Gateways \cup {NoGateway}
  BY <1>1 DEF GatewayTables
<1>3. Health!Idle \in Places /\ Health!Idle.pc = "idle"
  BY DEF Health!Idle, Stages
<1>4. ASSUME UNCHANGED <<rows, Health!counted, asking>>, Assigned', working' \in [ImageTasks -> Places],
             tasks' \in [ImageTasks -> TaskRows]
      PROVE  GatewayInv'
  <2>1. GatewayTables'
    BY <1>1, <1>4 DEF GatewayTables, Health!counted
  <2> QED BY <1>1, <1>4, <2>1, RowsKeep, AskedKeeps DEF GatewayInv
<1>5. ASSUME NEW place \in Places, working' = [working EXCEPT ![t] = place], UNCHANGED <<rows, Health!counted,
          asking, tasks>>,
             place.pc \in {"ready", "calling", "failed"} =>
               /\ place.gateway \in Gateways /\ tasks[t].status # "none"
               /\ ~Health!Deleted(t) => place.gateway = tasks[t].gateway,
             place.pc \in {"inserting", "replacing"} => place.gateway \in Gateways,
             place.pc \in {"choosing", "replacing"} => tasks[t].status # "none"
      PROVE  GatewayInv'
  <2>1. GatewaysStay
    BY <1>1, <1>5, RowsKeep
  <2>2. Assigned' /\ working' \in [ImageTasks -> Places]
    BY <1>1, <1>5, <2>1, PlaceKeeps
  <2> QED BY <1>2, <1>4, <1>5, <2>2
<1>6. ASSUME NEW place \in Places, working' = [working EXCEPT ![t] = place], UNCHANGED <<rows, Health!counted,
          asking>>,
             NEW status \in {"queued", "processing", "ended"}, NEW g \in Gateways, Health!Exists(g),
                 Health!SetTask(t, status, g),
             place.pc = "idle" \/ (place.pc \in {"ready", "calling", "failed"} /\ place.gateway = g)
      PROVE  GatewayInv'
  <2>1. GatewaysStay
    BY <1>1, <1>6, RowsKeep
  <2>2. Assigned' /\ working' \in [ImageTasks -> Places] /\ tasks' \in [ImageTasks -> TaskRows]
    BY <1>1, <1>6, <2>1, AssignKeeps
  <2> QED BY <1>4, <1>6, <2>2
<1>6a. ASSUME working' = [working EXCEPT ![t] = Health!Idle], UNCHANGED <<rows, Health!counted, asking>>,
              NEW status \in {"queued", "processing", "ended"}, NEW g \in Gateways, Health!Exists(g),
                  Health!SetTask(t, status, g)
       PROVE  GatewayInv'
  <2>1. GatewaysStay
    BY <1>1, <1>6a, RowsKeep
  <2>2. /\ Health!Idle \in [pc : Stages, gateway : Gateways \cup {NoGateway}]
        /\ Health!Idle.pc = "idle" \/ (Health!Idle.pc \in {"ready", "calling", "failed"} /\ Health!Idle.gateway = g)
    BY DEF Health!Idle, Stages
  <2>3. Assigned' /\ working' \in [ImageTasks -> Places] /\ tasks' \in [ImageTasks -> TaskRows]
    BY <1>1, <1>6a, <2>1, <2>2, AssignKeeps
  <2> QED BY <1>4, <1>6a, <2>3
<1>6b. ASSUME working' = [working EXCEPT ![t] = Health!Idle], UNCHANGED <<rows, Health!counted, asking, tasks>>
       PROVE  GatewayInv'
  <2> HIDE DEF Places
  <2> QED BY <1>3, <1>5, <1>6b
<1>7. /\ tasks[t].status \notin {"none", "deleted"} =>
           tasks[t].gateway \in Gateways /\ Health!Exists(tasks[t].gateway)
      /\ working[t].pc \in {"ready", "calling", "failed"} =>
           /\ working[t].gateway \in Gateways /\ tasks[t].status # "none"
           /\ ~Health!Deleted(t) => working[t].gateway = tasks[t].gateway
      /\ working[t].pc \in {"inserting", "replacing"} => working[t].gateway \in Gateways
      /\ working[t].pc \in {"choosing", "replacing"} => tasks[t].status # "none"
  BY <1>1 DEF Assigned, AssignedExist, UsesAssigned
<1>8. ASSUME NEW g \in Gateways, Health!SelectGateway(t, g)
      PROVE  GatewayInv'
  <2> DEFINE place == [pc |-> "inserting", gateway |-> g]
  <2>1. place \in Places /\ place.pc = "inserting" /\ place.gateway = g
    BY DEF Stages
  <2>2. working' = [working EXCEPT ![t] = place] /\ UNCHANGED <<rows, Health!counted, asking, tasks>>
    BY <1>8 DEF Health!SelectGateway
  <2> HIDE DEF place, Places
  <2> QED BY <1>5, <2>1, <2>2
<1>9. ASSUME NEW g \in Gateways, Health!SelectReplacement(t, g)
      PROVE  GatewayInv'
  <2> DEFINE place == [pc |-> "replacing", gateway |-> g]
  <2>1. place \in Places /\ place.pc = "replacing" /\ place.gateway = g
    BY DEF Stages
  <2>2. /\ working' = [working EXCEPT ![t] = place] /\ UNCHANGED <<rows, Health!counted, asking, tasks>>
        /\ tasks[t].status # "none"
    BY <1>7, <1>9 DEF Health!SelectReplacement, Health!At
  <2> HIDE DEF place, Places
  <2> QED BY <1>5, <2>1, <2>2
<1>10. CASE Health!InsertTask(t)
  <2>1. working' = [working EXCEPT ![t] = Health!Idle] /\ UNCHANGED <<rows, Health!counted,
            asking>> /\ working[t].gateway \in Gateways
    BY <1>7, <1>10 DEF Health!InsertTask, Health!At
  <2>2. CASE Health!Exists(working[t].gateway)
    <3>1. Health!SetTask(t, "queued", working[t].gateway)
      BY <1>10, <2>2 DEF Health!InsertTask
    <3> HIDE DEF Places
    <3> QED BY <1>6a, <2>1, <2>2, <3>1
  <2>3. CASE ~Health!Exists(working[t].gateway)
    <3>1. UNCHANGED <<rows, Health!counted, asking, tasks>>
      BY <1>10, <2>1, <2>3 DEF Health!InsertTask
    <3> HIDE DEF Places
    <3> QED BY <1>3, <1>5, <2>1, <3>1
  <2> QED BY <2>2, <2>3
<1>11. CASE Health!ReadTask(t)
  <2>1. UNCHANGED <<rows, Health!counted, asking, tasks>> /\ tasks[t].status # "none" /\ tasks[t].gateway \in Gateways
    BY <1>7, <1>11 DEF Health!ReadTask
  <2>2. CASE Health!Usable(tasks[t].gateway)
    <3> DEFINE place == [pc |-> "ready", gateway |-> tasks[t].gateway]
    <3>1. place \in Places /\ place.pc = "ready" /\ place.gateway = tasks[t].gateway
      BY <1>2 DEF Stages
    <3>2. working' = [working EXCEPT ![t] = place]
      BY <1>11, <2>2 DEF Health!ReadTask
    <3> HIDE DEF place, Places
    <3> QED BY <1>5, <2>1, <3>1, <3>2
  <2>3. CASE ~Health!Usable(tasks[t].gateway)
    <3> DEFINE place == [pc |-> "choosing", gateway |-> NoGateway]
    <3>1. place \in Places /\ place.pc = "choosing"
      BY DEF Stages
    <3>2. working' = [working EXCEPT ![t] = place]
      BY <1>11, <2>3 DEF Health!ReadTask
    <3> HIDE DEF place, Places
    <3> QED BY <1>5, <2>1, <3>1, <3>2
  <2> QED BY <2>2, <2>3
<1>12. CASE Health!GatewayUnavailable(t)
  <2>1. /\ working' = [working EXCEPT ![t] = Health!Idle] /\ UNCHANGED <<rows, Health!counted, asking>>
        /\ Health!UpdateTask(t, "ended", tasks[t].gateway) /\ tasks[t].status # "none"
    BY <1>7, <1>12 DEF Health!GatewayUnavailable, Health!At
  <2>2. "ended" \in {"queued", "processing", "ended"}
    OBVIOUS
  <2> HIDE DEF Places
  <2> QED BY <1>7, <1>6a, <1>6b, <2>1, <2>2 DEF Health!UpdateTask, Health!Deleted
<1>13. CASE Health!Reassign(t)
  <2> DEFINE place == [working[t] EXCEPT !.pc = "ready"]
  <2>1. place \in Places /\ place.pc = "ready" /\ place.gateway = working[t].gateway
    BY <1>2 DEF Stages
  <2>2. /\ working' = [working EXCEPT ![t] = place] /\ UNCHANGED <<rows, Health!counted, asking>>
        /\ Health!UpdateTask(t, "queued", working[t].gateway)
        /\ Health!Deleted(t) \/ Health!Exists(working[t].gateway)
        /\ working[t].gateway \in Gateways /\ tasks[t].status # "none"
    BY <1>7, <1>13 DEF Health!Reassign, Health!At, Health!Goto
  <2> HIDE DEF place, Places
  <2>3. CASE Health!Deleted(t)
    BY <1>5, <2>1, <2>2, <2>3 DEF Health!UpdateTask
  <2>4. CASE ~Health!Deleted(t)
    BY <1>6, <2>1, <2>2, <2>4 DEF Health!UpdateTask
  <2> QED BY <2>3, <2>4
<1>14. CASE Health!Claim(t)
  <2> DEFINE place == [working[t] EXCEPT !.pc = "calling"]
  <2>1. place \in Places /\ place.pc = "calling" /\ place.gateway = working[t].gateway
    BY <1>2 DEF Stages
  <2>2. /\ working' = [working EXCEPT ![t] = place] /\ UNCHANGED <<rows, Health!counted, asking>>
        /\ Health!SetTask(t, "processing", tasks[t].gateway)
        /\ tasks[t].gateway \in Gateways /\ Health!Exists(tasks[t].gateway) /\ working[t].gateway = tasks[t].gateway
    BY <1>7, <1>14 DEF Health!Claim, Health!At, Health!Goto, Health!Deleted
  <2> HIDE DEF place, Places
  <2> QED BY <1>6, <2>1, <2>2
<1>14a. CASE Health!FindNoTask(t)
  BY <1>6b, <1>14a DEF Health!FindNoTask
<1>14b. CASE Health!DeleteUser(t)
  BY <1>14b, DeletionKeeps
<1>15. ASSUME NEW status \in {"queued", "ended"}, Health!Settle(t, status)
       PROVE  GatewayInv'
  <2>1. /\ working' = [working EXCEPT ![t] = Health!Idle] /\ UNCHANGED <<rows, Health!counted, asking>>
        /\ Health!UpdateTask(t, status, tasks[t].gateway) /\ tasks[t].status # "none"
    BY <1>7, <1>15 DEF Health!Settle, Health!At
  <2>2. status \in {"queued", "processing", "ended"}
    BY <1>15
  <2> HIDE DEF Places
  <2> QED BY <1>7, <1>6a, <1>6b, <2>1, <2>2 DEF Health!UpdateTask, Health!Deleted
<1>16. ASSUME Assigned', working' \in [ImageTasks -> Places], tasks' \in [ImageTasks -> TaskRows], UNCHANGED asking,
              /\ rows' \in [Gateways -> RowSet] /\ streak' \in [Gateways -> Nat]
              /\ touched' \in [Gateways -> BOOLEAN] /\ outcomes' \in Nat,
              Earned'
       PROVE  GatewayInv'
  BY <1>1, <1>16, AskedKeeps DEF GatewayInv, GatewayTables
<1>17. CASE Health!Succeed(t)
  <2>1. /\ working' = [working EXCEPT ![t] = Health!Idle] /\ UNCHANGED asking /\ Health!SetTask(t, "ended",
               tasks[t].gateway)
        /\ tasks[t].gateway \in Gateways /\ Health!Exists(tasks[t].gateway) /\ working[t].gateway = tasks[t].gateway
    BY <1>7, <1>17 DEF Health!Succeed, Health!At, Health!Deleted
  <2>2. Health!RecordSuccess(tasks[t].gateway)
    BY <1>17, <2>1 DEF Health!Succeed
  <2>3. /\ rows' \in [Gateways -> RowSet] /\ \A h \in Gateways : rows'[h].made = rows[h].made
        /\ streak' \in [Gateways -> Nat] /\ touched' \in [Gateways -> BOOLEAN] /\ outcomes' \in Nat
        /\ Earned'
    BY <2>1, <2>2, OutcomeKeeps
  <2>4. GatewaysStay
    BY <2>3 DEF GatewaysStay, Health!Exists
  <2>5. Assigned' /\ working' \in [ImageTasks -> Places] /\ tasks' \in [ImageTasks -> TaskRows]
    <3>1. /\ Health!Idle \in [pc : Stages, gateway : Gateways \cup {NoGateway}]
          /\ Health!Idle.pc = "idle" \/ (Health!Idle.pc \in {"ready", "calling",
                 "failed"} /\ Health!Idle.gateway = tasks[t].gateway)
      BY DEF Health!Idle, Stages
    <3>2. "ended" \in {"queued", "processing", "ended"}
      OBVIOUS
    <3> QED BY <1>1, <2>1, <2>4, <3>1, <3>2, AssignKeeps
  <2> HIDE DEF Places, TaskRows
  <2> QED BY <1>16, <2>1, <2>3, <2>5
<1>18. ASSUME NEW counts \in BOOLEAN, Health!CallFails(t, counts)
       PROVE  GatewayInv'
  <2> DEFINE place == [working[t] EXCEPT !.pc = "failed"]
  <2>1. place \in Places /\ place.pc = "failed" /\ place.gateway = working[t].gateway
    BY <1>2 DEF Stages
  <2>2. /\ working' = [working EXCEPT ![t] = place] /\ UNCHANGED <<asking, tasks>>
        /\ working[t].gateway \in Gateways /\ tasks[t].status # "none"
        /\ ~Health!Deleted(t) => working[t].gateway = tasks[t].gateway
    BY <1>7, <1>18 DEF Health!CallFails, Health!At, Health!Goto
  <2>3. CASE counts
    <3>1. Health!RecordFailure(working[t].gateway)
      BY <1>18, <2>2, <2>3 DEF Health!CallFails
    <3>2. /\ rows' \in [Gateways -> RowSet] /\ \A h \in Gateways : rows'[h].made = rows[h].made
          /\ streak' \in [Gateways -> Nat] /\ touched' \in [Gateways -> BOOLEAN] /\ outcomes' \in Nat
          /\ Earned'
      BY <2>2, <3>1, OutcomeKeeps
    <3>3. GatewaysStay
      BY <3>2 DEF GatewaysStay, Health!Exists
    <3> HIDE DEF place
    <3>4. Assigned' /\ working' \in [ImageTasks -> Places]
      BY <1>1, <2>1, <2>2, <3>3, PlaceKeeps
    <3> HIDE DEF Places, TaskRows
    <3> QED BY <1>2, <1>16, <2>2, <3>2, <3>4
  <2>4. CASE ~counts
    <3>1. UNCHANGED <<rows, Health!counted>>
      BY <1>18, <2>4 DEF Health!CallFails
    <3> HIDE DEF place, Places
    <3> QED BY <1>5, <2>1, <2>2, <3>1
  <2> QED BY <2>3, <2>4
<1> QED BY <1>8, <1>9, <1>10, <1>11, <1>12, <1>13, <1>14, <1>14a, <1>14b, <1>15, <1>17, <1>18

\* The cooldowns and the administrators: every step keeps the invariant.
LEMMA AdministratorStep ==
  ASSUME Health!GatewayHealthAssumption, GatewayInv,
         \/ \E g \in Gateways : Health!CooldownEnds(g) \/ \E enabled \in BOOLEAN : Health!CreateGateway(g, enabled)
         \/ \E a \in Requests :
              \/ \E g \in Gateways : Health!BeginCheck(a, g) \/ Health!CountAttached(a,
                     g) \/ \E body \in Health!Bodies : Health!ReadGateway(a, g, body)
              \/ \E ok \in BOOLEAN : Health!EndCheck(a, ok)
              \/ Health!PatchGateway(a) \/ Health!DeleteGateway(a)
  PROVE  GatewayInv'
<1>1. /\ rows \in [Gateways -> RowSet] /\ streak \in [Gateways -> Nat] /\ touched \in [Gateways -> BOOLEAN]
      /\ outcomes \in Nat
      /\ GatewayTables /\ Asked /\ Assigned /\ AssignedExist /\ UsesAssigned /\ Earned /\ Unused /\
             Health!HealthIsEarned
  BY DEF GatewayInv, GatewayTables, Assigned, Earned
<1>2. ASSUME UNCHANGED <<tasks, working>>, Asked', GatewaysStay, Earned',
             /\ rows' \in [Gateways -> RowSet] /\ streak' \in [Gateways -> Nat]
             /\ touched' \in [Gateways -> BOOLEAN] /\ outcomes' \in Nat
      PROVE  GatewayInv'
  <2>1. GatewayTables'
    BY <1>1, <1>2 DEF GatewayTables
  <2>2. AssignedExist'
    BY <1>1, <1>2 DEF AssignedExist, GatewaysStay
  <2>3. UsesAssigned'
    BY <1>1, <1>2 DEF UsesAssigned, Health!Deleted
  <2> QED BY <1>2, <2>1, <2>2, <2>3 DEF GatewayInv, Assigned
<1>3. ASSUME NEW g \in Gateways, Health!CooldownEnds(g)
      PROVE  GatewayInv'
  <2> DEFINE row == [rows[g] EXCEPT !.cooling = FALSE]
  <2>1. /\ rows' = [rows EXCEPT ![g] = row] /\ UNCHANGED <<tasks, working, asking, streak, touched, outcomes>>
    BY <1>3 DEF Health!CooldownEnds, Health!counted
  <2>2. rows[g] \in RowSet
    BY <1>1
  <2>3. row \in RowSet /\ row.made = rows[g].made /\ row.health = rows[g].health /\ row.failures = rows[g].failures
    BY <2>2 DEF RowSet
  <2>4. ~row.cooling
    BY <2>2 DEF RowSet
  <2> HIDE DEF row
  <2>5. rows' \in [Gateways -> RowSet] /\ rows'[g] = row /\ \A h \in Gateways \ {g} : rows'[h] = rows[h]
    BY <1>1, <2>1, <2>3
  <2>6. GatewaysStay
    BY <2>3, <2>5 DEF GatewaysStay, Health!Exists
  <2>7. Unused'
    BY <1>1, <2>1, <2>3, <2>5 DEF Unused
  <2>8. Health!HealthIsEarned'
    BY <1>1, <2>1, <2>3, <2>4, <2>5 DEF Health!HealthIsEarned
  <2>9. Asked'
    BY <1>1, <2>1, AskedKeeps
  <2> QED BY <1>1, <1>2, <2>1, <2>5, <2>6, <2>7, <2>8, <2>9 DEF Earned
<1>4. ASSUME NEW g \in Gateways, NEW enabled \in BOOLEAN, Health!CreateGateway(g, enabled)
      PROVE  GatewayInv'
  <2> DEFINE row == [Health!Row EXCEPT !.enabled = enabled]
  <2>1. /\ rows' = [rows EXCEPT ![g] = row] /\ UNCHANGED <<tasks, working, asking, streak, touched, outcomes>>
        /\ rows[g].made = "no"
    BY <1>4 DEF Health!CreateGateway, Health!counted
  <2>2. row \in RowSet /\ row.made = "yes" /\ row.health = "unknown" /\ row.failures = 0
    BY DEF RowSet, Health!Row
  <2>3. ~row.cooling
    BY DEF Health!Row
  <2> HIDE DEF row
  <2>5. rows' \in [Gateways -> RowSet] /\ rows'[g] = row /\ \A h \in Gateways \ {g} : rows'[h] = rows[h]
    BY <1>1, <2>1, <2>2
  <2>6. GatewaysStay
    BY <2>2, <2>5 DEF GatewaysStay, Health!Exists
  <2>7. Unused'
    BY <1>1, <2>1, <2>2, <2>5 DEF Unused
  <2>8. streak[g] = 0
    BY <1>1, <2>1 DEF Unused
  <2>9. Health!HealthIsEarned'
    BY <1>1, <2>1, <2>2, <2>3, <2>5, <2>8 DEF Health!HealthIsEarned
  <2>10. Asked'
    BY <1>1, <2>1, AskedKeeps
  <2> QED BY <1>1, <1>2, <2>1, <2>5, <2>6, <2>7, <2>9, <2>10 DEF Earned
<1>5. ASSUME NEW a \in Requests, NEW request, Health!Ask(a, request),
             request.pc # "idle" /\ request.gateway \in Gateways,
             request.pc = "patching" => request.row \in RowSet /\ request.row.made = "yes"
      PROVE  GatewayInv'
  <2>1. asking' = [asking EXCEPT ![a] = request] /\ UNCHANGED <<rows, tasks, working, Health!counted>>
    BY <1>5 DEF Health!Ask
  <2>2. DOMAIN asking' = Requests /\ asking'[a] = request /\ \A b \in Requests \ {a} : asking'[b] = asking[b]
    BY <1>1, <2>1 DEF Asked
  <2>3. Asked'
    BY <1>1, <1>5, <2>2 DEF Asked
  <2>4. Earned' /\ GatewaysStay
    BY <1>1, <2>1, RowsKeep
  <2>5. UNCHANGED <<streak, touched, outcomes>>
    BY <2>1 DEF Health!counted
  <2> QED BY <1>1, <1>2, <2>1, <2>3, <2>4, <2>5
<1>6. ASSUME NEW a \in Requests, NEW g \in Gateways, Health!BeginCheck(a, g)
      PROVE  GatewayInv'
  <2> DEFINE request == [pc |-> "checking", gateway |-> g]
  <2>1. Health!Ask(a, request) /\ request.pc = "checking" /\ request.gateway = g
    BY <1>6 DEF Health!BeginCheck
  <2> HIDE DEF request
  <2> QED BY <1>5, <2>1
<1>7. ASSUME NEW a \in Requests, NEW g \in Gateways, Health!CountAttached(a, g)
      PROVE  GatewayInv'
  <2> DEFINE request == [pc |-> "deleting", gateway |-> g]
  <2>1. Health!Ask(a, request) /\ request.pc = "deleting" /\ request.gateway = g
    BY <1>7 DEF Health!CountAttached
  <2> HIDE DEF request
  <2> QED BY <1>5, <2>1
<1>8. ASSUME NEW a \in Requests, NEW g \in Gateways, NEW body \in Health!Bodies, Health!ReadGateway(a, g, body)
      PROVE  GatewayInv'
  <2> DEFINE request == [pc |-> "patching", gateway |-> g, row |-> rows[g], body |-> body]
  <2>1. Health!Ask(a, request) /\ request.pc = "patching" /\ request.gateway = g /\ request.row = rows[g] /\
            Health!Exists(g)
    BY <1>8 DEF Health!ReadGateway
  <2>2. rows[g] \in RowSet /\ rows[g].made = "yes"
    BY <1>1, <2>1 DEF Health!Exists
  <2> HIDE DEF request
  <2> QED BY <1>5, <2>1, <2>2
<1>9. ASSUME NEW a \in Requests, Health!Answer(a)
      PROVE  Asked'
  <2>1. asking' = [asking EXCEPT ![a] = Health!Idle] /\ Health!Idle.pc = "idle"
    BY <1>9 DEF Health!Answer, Health!Idle
  <2>2. DOMAIN asking' = Requests /\ asking'[a] = Health!Idle /\ \A b \in Requests \ {a} : asking'[b] = asking[b]
    BY <1>1, <2>1 DEF Asked
  <2> QED BY <1>1, <2>1, <2>2 DEF Asked
<1>10. ASSUME NEW a \in Requests, NEW ok \in BOOLEAN, Health!EndCheck(a, ok)
       PROVE  GatewayInv'
  <2> DEFINE g == asking[a].gateway
  <2>1. g \in Gateways
    BY <1>1, <1>10 DEF Health!EndCheck, Asked
  <2>2. Health!Answer(a) /\ UNCHANGED <<tasks, working>> /\ (Health!RecordSuccess(g) \/ Health!RecordFailedCheck(g))
    BY <1>10 DEF Health!EndCheck
  <2> HIDE DEF g
  <2>3. /\ rows' \in [Gateways -> RowSet] /\ \A h \in Gateways : rows'[h].made = rows[h].made
        /\ streak' \in [Gateways -> Nat] /\ touched' \in [Gateways -> BOOLEAN] /\ outcomes' \in Nat
        /\ Earned'
    BY <2>1, <2>2, OutcomeKeeps
  <2>4. GatewaysStay
    BY <2>3 DEF GatewaysStay, Health!Exists
  <2>5. Asked'
    BY <1>9, <2>2
  <2> QED BY <1>2, <2>2, <2>3, <2>4, <2>5
<1>11. ASSUME NEW a \in Requests, Health!PatchGateway(a)
       PROVE  GatewayInv'
  <2> DEFINE g == asking[a].gateway
             read == asking[a].row
             patch == Health!Patched(read, asking[a].body)
             row == [patch EXCEPT !.cooling = rows[g].cooling]
  <2>1. Health!Answer(a) /\ UNCHANGED <<tasks, working, streak, outcomes>>
    BY <1>11 DEF Health!PatchGateway
  <2>2. g \in Gateways /\ read \in RowSet /\ read.made = "yes" /\ rows[g] \in RowSet
    BY <1>1, <1>11 DEF Health!PatchGateway, Asked
  <2>3. patch \in RowSet /\ patch.made = "yes"
    <3>1. CASE asking[a].body = "healthy"
      BY <2>2, <3>1 DEF Health!Patched, RowSet
    <3>2. CASE asking[a].body = "columns"
      BY <2>2, <3>2 DEF Health!Patched, RowSet
    <3>3. CASE asking[a].body # "healthy" /\ asking[a].body # "columns"
      BY <2>2, <3>3 DEF Health!Patched, RowSet
    <3> QED BY <3>1, <3>2, <3>3
  <2>4. Asked'
    BY <1>9, <2>1
  <2>5. CASE ~Health!Exists(g)
    <3>1. UNCHANGED <<rows, touched>>
      BY <1>11, <2>5 DEF Health!PatchGateway
    <3>2. Earned' /\ GatewaysStay
      BY <1>1, <2>1, <3>1, RowsKeep DEF Health!counted
    <3> QED BY <1>1, <1>2, <2>1, <2>4, <3>1, <3>2
  <2>6. CASE Health!Exists(g)
    <3>1. /\ rows' = [rows EXCEPT ![g] = row]
          /\ touched' = [touched EXCEPT ![g] = touched[g] \/ patch.failures # rows[g].failures \/
                 patch.health # rows[g].health]
      BY <1>11, <2>6 DEF Health!PatchGateway
    <3> HIDE DEF g, read, patch
    <3>2. row \in RowSet /\ row.made = "yes" /\ row.failures = patch.failures /\ row.health = patch.health
      BY <2>2, <2>3 DEF RowSet
    <3>3. row.cooling = rows[g].cooling
      BY <2>2, <2>3 DEF RowSet
    <3> HIDE DEF row
    <3>4. rows' \in [Gateways -> RowSet] /\ rows'[g] = row /\ \A h \in Gateways \ {g} : rows'[h] = rows[h]
      BY <1>1, <2>2, <3>1, <3>2
    <3>5. /\ \A h \in Gateways \ {g} : touched'[h] = touched[h]
          /\ ~touched'[g] => ~touched[g] /\ row.failures = rows[g].failures /\ row.health = rows[g].health
      BY <1>1, <2>2, <3>1, <3>2
    <3>6. touched' \in [Gateways -> BOOLEAN]
      BY <1>1, <2>2, <3>1, Zenon
    <3>7. GatewaysStay
      BY <3>2, <3>4 DEF GatewaysStay, Health!Exists
    <3>8. Unused'
      BY <1>1, <2>1, <3>2, <3>4 DEF Unused
    <3>9. Health!HealthIsEarned'
      BY <1>1, <2>1, <2>2, <3>3, <3>4, <3>5 DEF Health!HealthIsEarned
    <3> QED BY <1>1, <1>2, <2>1, <2>4, <3>4, <3>6, <3>7, <3>8, <3>9 DEF Earned
  <2> QED BY <2>5, <2>6
<1>12. ASSUME NEW a \in Requests, Health!DeleteGateway(a)
       PROVE  GatewayInv'
  <2> DEFINE g == asking[a].gateway
  <2>1. Health!Answer(a) /\ UNCHANGED <<tasks, working, streak, touched, outcomes>>
    BY <1>12 DEF Health!DeleteGateway, Health!counted
  <2>2. g \in Gateways /\ rows[g] \in RowSet
    BY <1>1, <1>12 DEF Health!DeleteGateway, Asked
  <2>3. Asked'
    BY <1>9, <2>1
  <2>4. CASE Health!Referenced(g)
    <3>1. rows' = rows
      BY <1>1, <1>12, <2>2, <2>4 DEF Health!DeleteGateway, RowSet
    <3>2. Earned' /\ GatewaysStay
      BY <1>1, <2>1, <3>1, RowsKeep DEF Health!counted
    <3> QED BY <1>1, <1>2, <2>1, <2>3, <3>1, <3>2
  <2>5. CASE ~Health!Referenced(g)
    <3> DEFINE row == [rows[g] EXCEPT !.made = "gone"]
    <3>1. rows' = [rows EXCEPT ![g] = row]
      BY <1>12, <2>5 DEF Health!DeleteGateway
    <3>2. \A t \in ImageTasks : tasks[t].gateway # g
      BY <2>5 DEF Health!Referenced
    <3> HIDE DEF g
    <3>3. /\ row \in RowSet /\ row.made = "gone" /\ row.failures = rows[g].failures
          /\ row.health = rows[g].health /\ row.cooling = rows[g].cooling
      BY <2>2 DEF RowSet
    <3> HIDE DEF row
    <3>4. rows' \in [Gateways -> RowSet] /\ rows'[g] = row /\ \A h \in Gateways \ {g} : rows'[h] = rows[h]
      BY <1>1, <2>2, <3>1, <3>3
    <3>5. Unused'
      BY <1>1, <2>1, <3>3, <3>4 DEF Unused
    <3>6. Health!HealthIsEarned'
      BY <1>1, <2>1, <3>3, <3>4 DEF Health!HealthIsEarned
    <3>7. AssignedExist'
      BY <1>1, <2>1, <3>2, <3>4 DEF AssignedExist, Health!Exists
    <3>8. UsesAssigned'
      BY <1>1, <2>1 DEF UsesAssigned, Health!Deleted
    <3>9. GatewayTables'
      BY <1>1, <2>1, <3>4 DEF GatewayTables
    <3> QED BY <2>3, <3>5, <3>6, <3>7, <3>8, <3>9 DEF GatewayInv, Earned, Assigned
  <2> QED BY <2>4, <2>5
<1> QED BY <1>3, <1>4, <1>6, <1>7, <1>8, <1>10, <1>11, <1>12

-----------------------------------------------------------------------------
(* The theorems *)

\* The invariant holds initially.
LEMMA GatewaysStart ==
  ASSUME Health!GatewayHealthAssumption, Health!Init
  PROVE  GatewayInv
<1>1. Health!Row \in RowSet /\ Health!Unmade \in RowSet /\ Health!Row.failures = 0 /\ Health!Unmade.failures = 0
      /\ Health!Row.health = "unknown" /\ Health!Unmade.health = "unknown" /\ ~Health!Row.cooling /\
             ~Health!Unmade.cooling
  BY DEF Health!Row, Health!Unmade, RowSet
<1>2. Health!Idle \in [pc : Stages, gateway : Gateways \cup {NoGateway}] /\ Health!Idle.pc = "idle"
  BY DEF Health!Idle, Stages
<1>3. \A g \in Gateways : rows[g] \in {Health!Row, Health!Unmade} /\ streak[g] = 0
  BY DEF Health!Init
<1>4. GatewayTables
  BY <1>1, <1>2 DEF Health!Init, GatewayTables, Statuses
<1>5. Asked
  BY <1>2 DEF Health!Init, Asked
<1>6. Assigned
  BY <1>2 DEF Health!Init, Assigned, AssignedExist, UsesAssigned, Health!Deleted
<1>7. Earned
  BY <1>1, <1>3 DEF Earned, Unused, Health!HealthIsEarned
<1> QED BY <1>4, <1>5, <1>6, <1>7 DEF GatewayInv

\* Every step keeps it.
LEMMA GatewaySteps ==
  ASSUME Health!GatewayHealthAssumption, GatewayInv, [Health!Next]_(Health!vars)
  PROVE  GatewayInv'
<1>1. CASE Health!Next
  BY <1>1, TaskStep, AdministratorStep DEF Health!Next
<1>2. CASE UNCHANGED Health!vars
  <2>1. UNCHANGED <<rows, tasks, working, asking, Health!counted>> /\ UNCHANGED <<streak, touched, outcomes>>
    BY <1>2 DEF Health!vars, Health!counted
  <2>2. GatewayTables' /\ Assigned'
    BY <2>1 DEF GatewayInv, GatewayTables, Assigned, AssignedExist, UsesAssigned, Health!Exists, Health!Deleted
  <2> QED BY <2>1, <2>2, RowsKeep, AskedKeeps DEF GatewayInv
<1> QED BY <1>1, <1>2

\* What is assigned exists and what the rows tell is earned, whatever the order of
\* the outcomes, the saves and the deletions.
THEOREM GatewayInvariance ==
  ASSUME Health!GatewayHealthAssumption
  PROVE  Health!Spec => []GatewayInv
<1>1. Health!Init => GatewayInv
  BY GatewaysStart
<1>2. GatewayInv /\ [Health!Next]_(Health!vars) => GatewayInv'
  BY GatewaySteps
<1> QED BY <1>1, <1>2, PTL DEF Health!Spec

\* A gateway is not deleted under a worker that is about to call it or calls it,
\* as long as nobody has deleted the task.
THEOREM CalledGatewaysExist ==
  ASSUME Health!GatewayHealthAssumption
  PROVE  Health!Spec => []Health!CalledGatewayExists
<1>1. GatewayInv => Health!CalledGatewayExists
  BY DEF GatewayInv, Assigned, AssignedExist, UsesAssigned, Health!CalledGatewayExists, Health!Deleted
<1> QED BY <1>1, GatewayInvariance, PTL

\* Unless a patch wrote back what had changed, a row tells what has happened since
\* the last success, and only Threshold failures in a row cool a gateway down.
THEOREM HealthEarned ==
  ASSUME Health!GatewayHealthAssumption
  PROVE  Health!Spec => []Health!HealthIsEarned
<1>1. GatewayInv => Health!HealthIsEarned
  BY DEF GatewayInv, Earned
<1> QED BY <1>1, GatewayInvariance, PTL

-----------------------------------------------------------------------------
(* What is counted *)

\* No count exceeds the outcomes that were recorded, also in the rows that patches
\* have read and will write back.
RowCounts == \A g \in Gateways : rows[g].failures <= outcomes /\ streak[g] <= outcomes
ReadCounts == \A a \in Requests : asking[a].pc = "patching" => asking[a].row.failures <= outcomes
Counts == outcomes <= MaxOutcomes /\ requests \in 0..MaxAsked /\ RowCounts /\ ReadCounts

\* The counts are numbers.
LEMMA CountsAreNumbers ==
  ASSUME GatewayInv
  PROVE  /\ outcomes \in Nat
         /\ \A g \in Gateways : rows[g] \in RowSet /\ rows[g].failures \in Nat /\ streak[g] \in Nat
         /\ \A a \in Requests :
              asking[a].pc = "patching" => asking[a].row \in RowSet /\ asking[a].row.failures \in Nat
BY DEF GatewayInv, GatewayTables, Asked, RowSet

\* An outcome counts one at most, and none is recorded beyond the bound.
LEMMA RecordCounts ==
  ASSUME Health!GatewayHealthAssumption, GatewayInv, Counts, NEW g \in Gateways, NEW row, NEW n \in Nat,
         row.failures \in Nat, row.failures <= outcomes + 1, n <= outcomes + 1, Health!Record(g, row, n)
  PROVE  outcomes' = outcomes + 1 /\ outcomes' <= MaxOutcomes /\ RowCounts'
<1>1. /\ rows \in [Gateways -> RowSet] /\ streak \in [Gateways -> Nat] /\ MaxOutcomes \in Nat
  BY DEF GatewayInv, GatewayTables, Health!GatewayHealthAssumption
<1>2. outcomes' = outcomes + 1 /\ outcomes < MaxOutcomes
  BY DEF Health!Record
<1>3. \A h \in Gateways : rows'[h] \in {rows[h], row} /\ streak'[h] \in {streak[h], n}
  BY <1>1 DEF Health!Record
<1>4. ASSUME NEW h \in Gateways
      PROVE  rows'[h].failures <= outcomes' /\ streak'[h] <= outcomes'
  <2>1. rows[h].failures <= outcomes /\ streak[h] <= outcomes /\ rows[h].failures \in Nat /\ streak[h] \in Nat
        /\ outcomes \in Nat
    BY CountsAreNumbers DEF Counts, RowCounts
  <2>2. rows'[h].failures \in {rows[h].failures, row.failures} /\ streak'[h] \in {streak[h], n}
    BY <1>3
  <2>3. \A m \in {rows[h].failures, row.failures, streak[h], n} : m <= outcomes + 1
    BY <2>1
  <2> QED BY <1>2, <2>2, <2>3
<1>5. outcomes' <= MaxOutcomes
  BY <1>1, <1>2, CountsAreNumbers
<1> QED BY <1>2, <1>4, <1>5 DEF RowCounts

\* The three outcomes that are recorded.
LEMMA OutcomeCounts ==
  ASSUME Health!GatewayHealthAssumption, GatewayInv, Counts, NEW g \in Gateways,
         Health!RecordSuccess(g) \/ Health!RecordFailure(g) \/ Health!RecordFailedCheck(g)
  PROVE  outcomes' = outcomes + 1 /\ outcomes' <= MaxOutcomes /\ RowCounts'
<1>1. /\ rows[g] \in RowSet /\ rows[g].failures \in Nat /\ streak[g] \in Nat /\ outcomes \in Nat
      /\ rows[g].failures + 1 <= outcomes + 1 /\ streak[g] + 1 <= outcomes + 1
      /\ rows[g].failures + 1 \in Nat /\ streak[g] + 1 \in Nat
  BY CountsAreNumbers DEF Counts, RowCounts
<1>2. CASE Health!RecordSuccess(g)
  <2> DEFINE row == [rows[g] EXCEPT !.health = "healthy", !.failures = 0, !.cooling = FALSE]
  <2>1. row.failures = 0
    BY <1>1 DEF RowSet
  <2>2. Health!Record(g, row, 0)
    BY <1>2 DEF Health!RecordSuccess
  <2> HIDE DEF row
  <2>3. row.failures \in Nat /\ row.failures <= outcomes + 1 /\ 0 <= outcomes + 1
    BY <1>1, <2>1
  <2> QED BY <2>2, <2>3, RecordCounts
<1>3. CASE Health!RecordFailure(g)
  <2> DEFINE n == rows[g].failures + 1
             row == [rows[g] EXCEPT !.failures = n, !.health = IF n >= Threshold THEN "down" ELSE "degraded",
                                    !.cooling = n >= Threshold]
  <2>1. row.failures = n
    BY <1>1 DEF RowSet
  <2>2. Health!Record(g, row, streak[g] + 1)
    BY <1>3 DEF Health!RecordFailure
  <2> HIDE DEF row
  <2> QED BY <1>1, <2>1, <2>2, RecordCounts
<1>4. CASE Health!RecordFailedCheck(g)
  <2> DEFINE row == [rows[g] EXCEPT !.failures = rows[g].failures + 1, !.health = "degraded"]
  <2>1. row.failures = rows[g].failures + 1
    BY <1>1 DEF RowSet
  <2>2. Health!Record(g, row, streak[g] + 1)
    BY <1>4 DEF Health!RecordFailedCheck
  <2> HIDE DEF row
  <2> QED BY <1>1, <2>1, <2>2, RecordCounts
<1> QED BY <1>2, <1>3, <1>4

\* What a request has read stays below, as the outcomes only grow.
LEMMA ReadsKeep ==
  ASSUME GatewayInv, Counts, outcomes' \in {outcomes, outcomes + 1},
         \A a \in Requests : asking'[a] = asking[a] \/ asking'[a].pc # "patching"
  PROVE  ReadCounts'
<1>1. ASSUME NEW a \in Requests, asking'[a].pc = "patching"
      PROVE  asking'[a].row.failures <= outcomes'
  <2>1. asking'[a] = asking[a] /\ asking[a].row.failures \in Nat /\ asking[a].row.failures <= outcomes
        /\ outcomes \in Nat
    BY <1>1, CountsAreNumbers DEF Counts, ReadCounts
  <2> QED BY <2>1
<1> QED BY <1>1 DEF ReadCounts

\* The requests and the workers: only outcomes count.
LEMMA TaskCounts ==
  ASSUME Health!GatewayHealthAssumption, GatewayInv, Counts, NEW t \in ImageTasks,
         \/ \E g \in Gateways : Health!SelectGateway(t, g) \/ Health!SelectReplacement(t, g)
         \/ Health!InsertTask(t) \/ Health!ReadTask(t) \/ Health!GatewayUnavailable(t) \/ Health!Reassign(t) \/
                Health!Claim(t)
         \/ Health!Succeed(t) \/ Health!FindNoTask(t) \/ Health!DeleteUser(t)
         \/ \E counts \in BOOLEAN : Health!CallFails(t, counts)
         \/ \E status \in {"queued", "ended"} : Health!Settle(t, status)
  PROVE  Counts'
<1>0. CASE Health!DeleteUser(t)
  <2>1. UNCHANGED <<rows, asking, streak, outcomes>> /\ requests' = requests + 1 /\ requests < MaxAsked
    BY <1>0 DEF Health!DeleteUser, Health!counted
  <2>2. requests' \in 0..MaxAsked
    BY <2>1 DEF Counts, Health!GatewayHealthAssumption
  <2> QED BY <2>1, <2>2 DEF Counts, RowCounts, ReadCounts
<1>1. ~Health!DeleteUser(t) => asking' = asking /\ requests' = requests
  BY DEF Health!FindNoTask, Health!SelectGateway, Health!SelectReplacement, Health!InsertTask, Health!ReadTask,
      Health!GatewayUnavailable, Health!Reassign, Health!Claim, Health!Succeed, Health!CallFails, Health!Settle
<1>2. CASE UNCHANGED <<rows, Health!counted>> /\ ~Health!DeleteUser(t)
  BY <1>1, <1>2 DEF Counts, RowCounts, ReadCounts, Health!counted
<1>3. ASSUME ~Health!DeleteUser(t), working[t].gateway \in Gateways,
             Health!RecordSuccess(working[t].gateway) \/ Health!RecordFailure(working[t].gateway)
      PROVE  Counts'
  <2>1. outcomes' = outcomes + 1 /\ outcomes' <= MaxOutcomes /\ RowCounts'
    BY <1>3, OutcomeCounts
  <2>2. ReadCounts'
    BY <1>1, <1>3, <2>1, ReadsKeep
  <2> QED BY <1>1, <1>3, <2>1, <2>2 DEF Counts
<1>4. working[t].pc = "calling" => working[t].gateway \in Gateways
  BY DEF GatewayInv, Assigned, AssignedExist, UsesAssigned
<1>5. CASE Health!Succeed(t) /\ ~Health!DeleteUser(t)
  BY <1>3, <1>4, <1>5 DEF Health!Succeed, Health!At
<1>6. ASSUME NEW counts \in BOOLEAN, Health!CallFails(t, counts), ~Health!DeleteUser(t)
      PROVE  Counts'
  BY <1>2, <1>3, <1>4, <1>6 DEF Health!CallFails, Health!At
<1>7. \/ UNCHANGED <<rows, Health!counted>>
      \/ Health!Succeed(t)
      \/ \E counts \in BOOLEAN : Health!CallFails(t, counts)
  BY DEF Health!SelectGateway, Health!SelectReplacement, Health!InsertTask, Health!ReadTask,
      Health!GatewayUnavailable, Health!Reassign, Health!Claim, Health!Settle, Health!FindNoTask, Health!DeleteUser
<1> QED BY <1>0, <1>2, <1>5, <1>6, <1>7

\* The cooldowns and the administrators: a patch writes a count that it has read,
\* or none, and each request takes one of those there may be.
LEMMA AdministratorCounts ==
  ASSUME Health!GatewayHealthAssumption, GatewayInv, Counts,
         \/ \E g \in Gateways : Health!CooldownEnds(g) \/ \E enabled \in BOOLEAN : Health!CreateGateway(g, enabled)
         \/ \E a \in Requests :
              \/ \E g \in Gateways : Health!BeginCheck(a, g) \/ Health!CountAttached(a, g) \/
                   \E body \in Health!Bodies : Health!ReadGateway(a, g, body)
              \/ \E ok \in BOOLEAN : Health!EndCheck(a, ok)
              \/ Health!PatchGateway(a) \/ Health!DeleteGateway(a)
  PROVE  Counts'
<1>1. /\ rows \in [Gateways -> RowSet] /\ MaxOutcomes \in Nat /\ MaxAsked \in Nat /\ outcomes \in Nat
      /\ outcomes <= MaxOutcomes /\ requests \in 0..MaxAsked /\ RowCounts /\ ReadCounts /\ Asked
      /\ \A g \in Gateways : rows[g] \in RowSet /\ rows[g].failures \in Nat /\ rows[g].failures <= outcomes
  BY CountsAreNumbers DEF GatewayInv, GatewayTables, Counts, RowCounts, Health!GatewayHealthAssumption
<1>2. ASSUME UNCHANGED <<streak, outcomes>>, NEW g \in Gateways, NEW row, row.failures \in Nat,
             row.failures <= outcomes, rows' \in {rows, [rows EXCEPT ![g] = row]}
      PROVE  RowCounts' /\ outcomes' <= MaxOutcomes
  <2>1. \A h \in Gateways : rows'[h] \in {rows[h], row}
    BY <1>1, <1>2
  <2>2. \A h \in Gateways : rows'[h].failures \in {rows[h].failures, row.failures}
    BY <2>1
  <2>3. \A h \in Gateways : rows'[h].failures <= outcomes
    BY <1>1, <1>2, <2>2
  <2> QED BY <1>1, <1>2, <2>3 DEF RowCounts
<1>3. ASSUME NEW a \in Requests, Health!Answer(a)
      PROVE  \A b \in Requests : asking'[b] = asking[b] \/ asking'[b].pc # "patching"
  <2>1. asking' = [asking EXCEPT ![a] = Health!Idle] /\ Health!Idle.pc = "idle"
    BY <1>3 DEF Health!Answer, Health!Idle
  <2>2. DOMAIN asking = Requests
    BY <1>1 DEF Asked
  <2> QED BY <2>1, <2>2
<1>4. ASSUME NEW g \in Gateways, Health!CooldownEnds(g)
      PROVE  Counts'
  <2> DEFINE row == [rows[g] EXCEPT !.cooling = FALSE]
  <2>1. rows' = [rows EXCEPT ![g] = row] /\ UNCHANGED <<asking, streak, outcomes, requests>>
    BY <1>4 DEF Health!CooldownEnds, Health!counted
  <2>2. row.failures = rows[g].failures
    BY <1>1 DEF RowSet
  <2> HIDE DEF row
  <2>3. RowCounts' /\ outcomes' <= MaxOutcomes
    BY <1>1, <1>2, <2>1, <2>2
  <2>4. ReadCounts'
    BY <2>1, ReadsKeep
  <2> QED BY <1>1, <2>1, <2>3, <2>4 DEF Counts
<1>5. ASSUME NEW g \in Gateways, NEW enabled \in BOOLEAN, Health!CreateGateway(g, enabled)
      PROVE  Counts'
  <2> DEFINE row == [Health!Row EXCEPT !.enabled = enabled]
  <2>1. /\ rows' = [rows EXCEPT ![g] = row] /\ UNCHANGED <<asking, streak, outcomes>>
        /\ requests' = requests + 1 /\ requests < MaxAsked
    BY <1>5 DEF Health!CreateGateway, Health!counted
  <2>2. row.failures = 0
    BY DEF Health!Row
  <2>3. row.failures \in Nat /\ row.failures <= outcomes
    BY <1>1, <2>2
  <2> HIDE DEF row
  <2>4. RowCounts' /\ outcomes' <= MaxOutcomes
    BY <1>2, <2>1, <2>3
  <2>5. ReadCounts'
    BY <2>1, ReadsKeep
  <2> QED BY <1>1, <2>1, <2>4, <2>5 DEF Counts
<1>6. ASSUME NEW a \in Requests, NEW request, Health!Ask(a, request),
             request.pc = "patching" => request.row.failures <= outcomes
      PROVE  Counts'
  <2>1. /\ asking' = [asking EXCEPT ![a] = request] /\ UNCHANGED <<rows, streak, outcomes>>
        /\ requests' = requests + 1 /\ requests < MaxAsked
    BY <1>6 DEF Health!Ask, Health!counted
  <2>2. \A b \in Requests : asking'[b] \in {asking[b], request}
    BY <1>1, <2>1 DEF Asked
  <2>3. ReadCounts'
    BY <1>1, <1>6, <2>1, <2>2 DEF ReadCounts
  <2>4. RowCounts'
    BY <1>1, <2>1 DEF RowCounts
  <2> QED BY <1>1, <2>1, <2>3, <2>4 DEF Counts
<1>7. ASSUME NEW a \in Requests, NEW g \in Gateways, Health!BeginCheck(a, g) \/ Health!CountAttached(a, g)
      PROVE  Counts'
  <2>1. PICK pc \in {"checking", "deleting"} : Health!Ask(a, [pc |-> pc, gateway |-> g])
    BY <1>7 DEF Health!BeginCheck, Health!CountAttached
  <2>2. [pc |-> pc, gateway |-> g].pc # "patching"
    OBVIOUS
  <2> QED BY <1>6, <2>1, <2>2
<1>8. ASSUME NEW a \in Requests, NEW g \in Gateways, NEW body \in Health!Bodies, Health!ReadGateway(a, g, body)
      PROVE  Counts'
  <2> DEFINE request == [pc |-> "patching", gateway |-> g, row |-> rows[g], body |-> body]
  <2>1. Health!Ask(a, request) /\ request.row.failures <= outcomes
    BY <1>1, <1>8 DEF Health!ReadGateway
  <2> HIDE DEF request
  <2> QED BY <1>6, <2>1
<1>9. ASSUME NEW a \in Requests, NEW ok \in BOOLEAN, Health!EndCheck(a, ok)
      PROVE  Counts'
  <2>1. asking[a].gateway \in Gateways
    BY <1>1, <1>9 DEF Health!EndCheck, Asked
  <2>2. /\ Health!RecordSuccess(asking[a].gateway) \/ Health!RecordFailedCheck(asking[a].gateway)
        /\ Health!Answer(a) /\ requests' = requests
    BY <1>9 DEF Health!EndCheck
  <2>3. outcomes' = outcomes + 1 /\ outcomes' <= MaxOutcomes /\ RowCounts'
    BY <2>1, <2>2, OutcomeCounts
  <2>4. ReadCounts'
    BY <1>3, <2>2, <2>3, ReadsKeep
  <2> QED BY <1>1, <2>2, <2>3, <2>4 DEF Counts
<1>10. ASSUME NEW a \in Requests, Health!PatchGateway(a)
       PROVE  Counts'
  <2> DEFINE g == asking[a].gateway
             read == asking[a].row
             patch == Health!Patched(read, asking[a].body)
             row == [patch EXCEPT !.cooling = rows[g].cooling]
  <2>1. g \in Gateways /\ read \in RowSet /\ read.failures \in Nat /\ read.failures <= outcomes
    BY <1>1, <1>10, CountsAreNumbers DEF Health!PatchGateway, Asked, ReadCounts
  <2>2. Health!Answer(a) /\ UNCHANGED <<streak, outcomes, requests>> /\ rows' \in {rows, [rows EXCEPT ![g] = row]}
    BY <1>10 DEF Health!PatchGateway
  <2>3. row.failures \in {0, read.failures}
    BY <2>1 DEF Health!Patched, RowSet
  <2> HIDE DEF g, read, patch, row
  <2>4. row.failures \in Nat /\ row.failures <= outcomes
    BY <1>1, <2>1, <2>3
  <2>5. RowCounts' /\ outcomes' <= MaxOutcomes
    BY <1>2, <2>1, <2>2, <2>4
  <2>6. ReadCounts'
    BY <1>3, <2>2, ReadsKeep
  <2> QED BY <1>1, <2>2, <2>5, <2>6 DEF Counts
<1>11. ASSUME NEW a \in Requests, Health!DeleteGateway(a)
       PROVE  Counts'
  <2> DEFINE g == asking[a].gateway
             row == [rows[g] EXCEPT !.made = IF Health!Referenced(g) THEN rows[g].made ELSE "gone"]
  <2>1. g \in Gateways
    BY <1>1, <1>11 DEF Health!DeleteGateway, Asked
  <2>2. Health!Answer(a) /\ UNCHANGED <<streak, outcomes, requests>> /\ rows' = [rows EXCEPT ![g] = row]
    BY <1>11 DEF Health!DeleteGateway, Health!counted
  <2>3. row.failures = rows[g].failures
    BY <1>1, <2>1 DEF RowSet
  <2> HIDE DEF g, row
  <2>4. RowCounts' /\ outcomes' <= MaxOutcomes
    BY <1>1, <1>2, <2>1, <2>2, <2>3
  <2>5. ReadCounts'
    BY <1>3, <2>2, ReadsKeep
  <2> QED BY <1>1, <2>2, <2>4, <2>5 DEF Counts
<1> QED BY <1>4, <1>5, <1>7, <1>8, <1>9, <1>10, <1>11

\* What is counted of gateways that have not been used: nothing.
LEMMA CountsStart ==
  ASSUME Health!GatewayHealthAssumption, Health!Init
  PROVE  Counts
<1>1. Health!Row.failures = 0 /\ Health!Unmade.failures = 0 /\ Health!Idle.pc = "idle"
      /\ MaxOutcomes \in Nat /\ MaxAsked \in Nat
  BY DEF Health!Row, Health!Unmade, Health!Idle, Health!GatewayHealthAssumption
<1>2. outcomes = 0 /\ requests = 0 /\ \A a \in Requests : asking[a].pc = "idle"
  BY <1>1 DEF Health!Init
<1>3. \A g \in Gateways : rows[g].failures = 0 /\ streak[g] = 0
  BY <1>1 DEF Health!Init
<1> QED BY <1>1, <1>2, <1>3 DEF Counts, RowCounts, ReadCounts

\* Every step keeps the counts.
LEMMA CountSteps ==
  ASSUME Health!GatewayHealthAssumption, GatewayInv, Counts, [Health!Next]_(Health!vars)
  PROVE  Counts'
<1>1. CASE Health!Next
  BY <1>1, TaskCounts, AdministratorCounts DEF Health!Next
<1>2. CASE UNCHANGED Health!vars
  BY <1>2 DEF Health!vars, Health!counted, Counts, RowCounts, ReadCounts
<1> QED BY <1>1, <1>2

\* The rows of the gateways, the tasks, the workers and the requests have their
\* types, and no row, no patch that was prepared from an older row and no streak
\* counts more failures than outcomes were recorded.
THEOREM GatewayTypeCorrect ==
  ASSUME Health!GatewayHealthAssumption
  PROVE  Health!Spec => []Health!TypeOK
<1>1. Health!Init => GatewayInv /\ Counts
  BY GatewaysStart, CountsStart
<1>2. GatewayInv /\ Counts /\ [Health!Next]_(Health!vars) => GatewayInv' /\ Counts'
  BY GatewaySteps, CountSteps
<1>3. GatewayInv /\ Counts => Health!TypeOK
  <2> SUFFICES ASSUME GatewayInv, Counts
               PROVE  Health!TypeOK
    OBVIOUS
  <2>1. /\ outcomes \in 0..MaxOutcomes /\ requests \in 0..MaxAsked /\ MaxOutcomes \in Nat
        /\ \A g \in Gateways : rows[g].failures <= outcomes /\ streak[g] <= outcomes
    BY CountsAreNumbers DEF Counts, RowCounts, Health!GatewayHealthAssumption
  <2>2. ASSUME NEW g \in Gateways
        PROVE  /\ rows[g].made \in {"yes", "no", "gone"}
               /\ rows[g].health \in {"unknown", "healthy", "degraded", "down"}
               /\ rows[g].cooling \in BOOLEAN
    BY CountsAreNumbers DEF RowSet
  <2>3. ASSUME NEW g \in Gateways
        PROVE  rows[g].failures \in 0..MaxOutcomes /\ streak[g] \in 0..MaxOutcomes
    BY <2>1, CountsAreNumbers
  <2>4. ASSUME NEW t \in ImageTasks
        PROVE  /\ tasks[t].status \in {"none", "queued", "processing", "ended", "deleted"}
               /\ tasks[t].gateway \in Gateways \cup {NoGateway}
               /\ working[t].pc \in {"idle", "inserting", "choosing", "replacing", "ready", "calling", "failed"}
    BY DEF GatewayInv, GatewayTables, Stages, Statuses
  <2> QED BY <2>1, <2>2, <2>3, <2>4 DEF Health!TypeOK
<1> QED BY <1>1, <1>2, <1>3, PTL DEF Health!Spec
=============================================================================
