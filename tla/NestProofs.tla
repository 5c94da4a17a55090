------------------------------ MODULE NestProofs ------------------------------
(***************************************************************************)
(* The older backend: its accounts and redemption codes, which this module *)
(* EXTENDs, for any users, codes, activities and captchas and any number   *)
(* of changes by any administrators; and its generation tasks, with their  *)
(* own variables, for any tasks, prices, limits, crashes and errors.       *)
(***************************************************************************)
EXTENDS NestAccounts, Integers, FiniteSetTheorems, TLAPS

CONSTANTS
  Tasks, Count, UnitCost, Balance, Attempts, QueueLimit, Threshold,
  MaxCrashes, MaxErrors, MaxToggles

VARIABLES
  status, images, usage, wallet, refunded, gateway, deleting, request, job,
  runs, recovering, disturbed, crashes, errors, toggles

Gen == INSTANCE NestTasks

-----------------------------------------------------------------------------
(* The inductive invariant, in the three parts of the state that no step    *)
(* changes together                                                         *)

(* Who has answered a captcha has used it up: its record has gone, and no   *)
(* account and no other registration holds it.                              *)
HeldCaptcha(k) == k \in issued \ captchas

SignupTypes ==
  /\ captchas \subseteq issued /\ issued \subseteq CaptchaIds
  /\ \A r \in registering : r \in [captcha : CaptchaIds, user : Emails, looked : BOOLEAN] /\ HeldCaptcha(r.captcha)
  /\ \A a \in accounts : a \in [captcha : CaptchaIds, user : Emails] /\ HeldCaptcha(a.captcha)
  /\ bonus \in [Emails -> {0, 1}]

CaptchasLetInOne ==
  /\ \A p, q \in registering : p.captcha = q.captcha => p = q
  /\ \A r \in registering, a \in accounts : r.captcha # a.captcha
  /\ \A a, b \in accounts : a.captcha = b.captcha => a = b

OneBonus ==
  /\ \A a, b \in accounts : a.user = b.user => a = b
  /\ \A u \in Emails : bonus[u] = 1 <=> Registered(u)

SignupInv == SignupTypes /\ CaptchasLetInOne /\ OneBonus

(* The rows of codes and uses *)
RowSet == [activity : Activities, maxUses : {1, 2}, usedBy : SUBSET Emails, usable : BOOLEAN]

RedemptionTypes ==
  /\ codes \in [Codes -> RowSet \cup {NoRow, Deleted}]
  /\ uses \subseteq [code : Codes \cup {NoCode}, user : Emails, activity : Activities]
  /\ IsFiniteSet(uses)
  /\ granted \in [Emails -> Nat]
  /\ redeeming \subseteq [user : Emails, code : Codes, record : RowSet]
  /\ patching \subseteq [code : Codes, patched : RowSet \cup {Deleted}]

(* A user who is in an array that is stored, or that was read to be written *)
(* back with one more user, has a use of the code, as long as the code is   *)
(* there: a deletion leaves no number free for a second one.                *)
Holds(c, u) == \E use \in uses : use.code = c /\ use.user = u

ArraysAreTrue ==
  /\ \A c \in Codes : Exists(c) => \A u \in codes[c].usedBy : Holds(c, u)
  /\ \A r \in redeeming : codes[r.code] # NoRow
  /\ \A r \in redeeming : Exists(r.code) => \A u \in r.record.usedBy : Holds(r.code, u)

OneUsePerActivity == \A p, q \in uses : p.user = q.user /\ p.activity = q.activity => p = q

GrantedPerUse == \A u \in Emails : granted[u] = Cardinality(UsesOf(u))

RedemptionInv == RedemptionTypes /\ ArraysAreTrue /\ OneUsePerActivity /\ GrantedPerUse

(* A change that has counted, or needed no count, leaves an administrator,  *)
(* as long as no write came between the count and the write of another.     *)
AdminInv ==
  /\ active \subseteq Admins
  /\ raced \in BOOLEAN
  /\ \A d \in disabling : d \in [target : Admins, by : Admins, counted : BOOLEAN]
  /\ ~raced => active # {} /\ \A d \in disabling : d.counted => active \ {d.target} # {}

AccountsInv == SignupInv /\ RedemptionInv /\ AdminInv /\ patches \in 0..MaxPatches

-----------------------------------------------------------------------------
(* What a step leaves alone *)

LEMMA SignupStays == SignupInv /\ UNCHANGED signup => SignupInv'
  BY DEF SignupInv, SignupTypes, CaptchasLetInOne, OneBonus, signup, HeldCaptcha, Registered

LEMMA RedemptionStays == RedemptionInv /\ UNCHANGED redemption => RedemptionInv'
  BY DEF RedemptionInv, RedemptionTypes, ArraysAreTrue, OneUsePerActivity, GrantedPerUse, redemption, Exists, Holds, UsesOf

LEMMA AdminsStay == AdminInv /\ UNCHANGED admins => AdminInv'
  BY DEF AdminInv, admins

-----------------------------------------------------------------------------
(* Registration *)

\* A captcha is issued, goes, or is answered: the answer takes its record.
LEMMA CaptchaSteps ==
  ASSUME SignupInv, NEW k \in CaptchaIds,
         CreateCaptcha(k) \/ CaptchaGoes(k)
  PROVE  SignupInv'
<1>1. CASE CreateCaptcha(k)
  <2>1. \A j : HeldCaptcha(j) => HeldCaptcha(j)'
    BY <1>1 DEF CreateCaptcha, HeldCaptcha, SignupInv, SignupTypes
  <2> QED BY <1>1, <2>1 DEF CreateCaptcha, SignupInv, SignupTypes, CaptchasLetInOne, OneBonus, Registered
<1>2. CASE CaptchaGoes(k)
  <2>1. \A j : HeldCaptcha(j) => HeldCaptcha(j)'
    BY <1>2 DEF CaptchaGoes, HeldCaptcha, SignupInv, SignupTypes
  <2> QED BY <1>2, <2>1 DEF CaptchaGoes, SignupInv, SignupTypes, CaptchasLetInOne, OneBonus, Registered
<1> QED BY <1>1, <1>2

LEMMA VerifyStep ==
  ASSUME SignupInv, NEW k \in CaptchaIds, NEW u \in Emails, NEW right \in BOOLEAN, VerifyCaptcha(k, u, right)
  PROVE  SignupInv'
<1> DEFINE new == [captcha |-> k, user |-> u, looked |-> FALSE]
<1>1. new \in [captcha : CaptchaIds, user : Emails, looked : BOOLEAN] /\ new.captcha = k
  OBVIOUS
<1>2. registering' \subseteq registering \cup {new}
  BY DEF VerifyCaptcha
<1> HIDE DEF new
<1>3. \A j : HeldCaptcha(j) => HeldCaptcha(j)' /\ j # k
  BY DEF VerifyCaptcha, HeldCaptcha
<1>4. HeldCaptcha(k)'
  BY DEF VerifyCaptcha, HeldCaptcha, SignupInv, SignupTypes
<1>5. SignupTypes'
  BY <1>1, <1>2, <1>3, <1>4 DEF VerifyCaptcha, SignupInv, SignupTypes
<1>6. CaptchasLetInOne'
  <2>1. \A r \in registering : r.captcha # k
    BY <1>3 DEF SignupInv, SignupTypes
  <2>2. \A a \in accounts : a.captcha # k
    BY <1>3 DEF SignupInv, SignupTypes
  <2>3. accounts' = accounts
    BY DEF VerifyCaptcha
  <2> QED BY <1>1, <1>2, <2>1, <2>2, <2>3 DEF SignupInv, CaptchasLetInOne
<1> QED BY <1>5, <1>6 DEF VerifyCaptcha, SignupInv, OneBonus, Registered

\* The look at the email, and the account: one of two registrations of an email fails.
LEMMA LookStep ==
  ASSUME SignupInv, NEW r \in registering, LookForEmail(r)
  PROVE  SignupInv'
<1> DEFINE next == [r EXCEPT !.looked = TRUE]
<1>1. /\ next \in [captcha : CaptchaIds, user : Emails, looked : BOOLEAN]
      /\ next.captcha = r.captcha /\ HeldCaptcha(r.captcha)
  BY DEF SignupInv, SignupTypes
<1>2. registering' \subseteq (registering \ {r}) \cup {next}
  BY DEF LookForEmail
<1> HIDE DEF next
<1>3. UNCHANGED <<captchas, issued, accounts, bonus>>
  BY DEF LookForEmail
<1>4. SignupTypes'
  BY <1>1, <1>2, <1>3 DEF SignupInv, SignupTypes, HeldCaptcha
<1>5. CaptchasLetInOne'
  <2>1. \A q \in registering \ {r} : q.captcha # next.captcha
    BY <1>1 DEF SignupInv, CaptchasLetInOne
  <2>2. \A a \in accounts : a.captcha # next.captcha
    BY <1>1 DEF SignupInv, CaptchasLetInOne
  <2> QED BY <1>2, <1>3, <2>1, <2>2 DEF SignupInv, CaptchasLetInOne
<1> QED BY <1>3, <1>4, <1>5 DEF SignupInv, OneBonus, Registered

LEMMA CreateStep ==
  ASSUME SignupInv, NEW r \in registering, CreateAccount(r)
  PROVE  SignupInv'
<1> DEFINE new == [captcha |-> r.captcha, user |-> r.user]
<1>1. /\ r \in [captcha : CaptchaIds, user : Emails, looked : BOOLEAN] /\ HeldCaptcha(r.captcha)
      /\ \A q \in registering \ {r} : q.captcha # r.captcha
      /\ \A a \in accounts : a.captcha # r.captcha
  BY DEF SignupInv, SignupTypes, CaptchasLetInOne
<1>2. new \in [captcha : CaptchaIds, user : Emails] /\ new.captcha = r.captcha /\ new.user = r.user
  BY <1>1
<1>3. registering' = registering \ {r} /\ captchas' = captchas /\ issued' = issued
  BY DEF CreateAccount
<1>4. CASE Registered(r.user)
  <2>1. accounts' = accounts /\ bonus' = bonus
    BY <1>4 DEF CreateAccount
  <2> QED BY <1>3, <2>1 DEF SignupInv, SignupTypes, CaptchasLetInOne, OneBonus, HeldCaptcha, Registered
<1>5. CASE ~Registered(r.user)
  <2>1. accounts' = accounts \cup {new} /\ bonus' = [bonus EXCEPT ![r.user] = @ + 1]
    BY <1>5 DEF CreateAccount
  <2> HIDE DEF new
  <2>2. \A a \in accounts : a.user # r.user
    BY <1>5 DEF Registered
  <2>3. bonus \in [Emails -> {0, 1}] /\ bonus[r.user] = 0
    <3>1. bonus \in [Emails -> {0, 1}] /\ (bonus[r.user] = 1 <=> Registered(r.user))
      BY <1>1 DEF SignupInv, SignupTypes, OneBonus
    <3> QED BY <1>1, <1>5, <3>1
  <2>4. bonus' \in [Emails -> {0, 1}] /\ bonus'[r.user] = 1 /\ \A u \in Emails \ {r.user} : bonus'[u] = bonus[u]
    BY <1>1, <2>1, <2>3
  <2>5. SignupTypes'
    BY <1>1, <1>2, <1>3, <2>1, <2>4 DEF SignupInv, SignupTypes, HeldCaptcha
  <2>6. CaptchasLetInOne'
    BY <1>1, <1>2, <1>3, <2>1 DEF SignupInv, CaptchasLetInOne
  <2>7. OneBonus'
    <3>1. \A a, b \in accounts' : a.user = b.user => a = b
      BY <1>2, <2>1, <2>2 DEF SignupInv, OneBonus
    <3>2. \A u \in Emails : Registered(u)' <=> Registered(u) \/ u = r.user
      BY <1>2, <2>1 DEF Registered
    <3>3. \A u \in Emails : bonus'[u] = 1 <=> Registered(u)'
      BY <2>4, <3>2 DEF SignupInv, OneBonus
    <3> QED BY <3>1, <3>3 DEF OneBonus
  <2> QED BY <2>5, <2>6, <2>7 DEF SignupInv
<1> QED BY <1>4, <1>5

-----------------------------------------------------------------------------
(* Redemption *)

\* A code that is there has a row; the marks of the others have no such fields.
LEMMA Rows ==
  ASSUME RedemptionTypes, NEW c \in Codes
  PROVE  /\ Exists(c) <=> codes[c] \in RowSet
         /\ NoRow # Deleted /\ NoRow \notin RowSet /\ Deleted \notin RowSet
<1>1. codes[c] \in RowSet \cup {NoRow, Deleted}
  BY DEF RedemptionTypes
<1>2. \A row \in RowSet : DOMAIN row = {"activity", "maxUses", "usedBy", "usable"}
  BY DEF RowSet
<1>3. DOMAIN NoRow = {"activity"} /\ DOMAIN Deleted = {"activity"}
  BY DEF NoRow, Deleted
<1>4. NoRow \notin RowSet /\ Deleted \notin RowSet
  BY <1>2, <1>3
<1>5. NoRow.activity # Deleted.activity
  BY DEF NoRow, Deleted
<1> QED BY <1>1, <1>4, <1>5 DEF Exists

\* The read of a code: whoever its array names has a use of it.
LEMMA ReadStep ==
  ASSUME RedemptionInv, NEW u \in Emails, NEW c \in Codes, ReadCode(u, c)
  PROVE  RedemptionInv'
<1> DEFINE new == [user |-> u, code |-> c, record |-> codes[c]]
<1>1. codes[c] \in RowSet /\ codes[c] # NoRow
  BY Rows DEF RedemptionInv, ReadCode, Exists
<1>2. new \in [user : Emails, code : Codes, record : RowSet] /\ new.code = c /\ new.record = codes[c]
  BY <1>1
<1>3. redeeming' = redeeming \cup {new} /\ UNCHANGED <<codes, uses, granted, patching>>
  BY DEF ReadCode
<1> HIDE DEF new
<1>4. RedemptionTypes'
  BY <1>2, <1>3 DEF RedemptionInv, RedemptionTypes
<1>5. ArraysAreTrue'
  BY <1>1, <1>2, <1>3 DEF RedemptionInv, ArraysAreTrue, Exists, Holds
<1> QED BY <1>3, <1>4, <1>5 DEF RedemptionInv, OneUsePerActivity, GrantedPerUse, UsesOf

\* The transaction of a redemption: a use, its grant and the array, or none of them.
LEMMA WriteUseStep ==
  ASSUME RedemptionInv, NEW r \in redeeming, WriteUse(r)
  PROVE  RedemptionInv'
<1> DEFINE use == [code |-> r.code, user |-> r.user, activity |-> r.record.activity]
           c == r.code
           array == r.record.usedBy \cup {r.user}
<1>1. r.user \in Emails /\ c \in Codes /\ r.record \in RowSet
  BY DEF RedemptionInv, RedemptionTypes
<1>2. r.record.activity \in Activities /\ array \in SUBSET Emails
  BY <1>1 DEF RowSet
<1>3. /\ use \in [code : Codes \cup {NoCode}, user : Emails, activity : Activities]
      /\ use.code = c /\ use.user = r.user
  BY <1>1, <1>2
<1>4. redeeming' = redeeming \ {r} /\ patching' = patching
  BY DEF WriteUse
<1>5. CASE ~(Exists(c) /\ Unique(use))
  <2>1. UNCHANGED <<uses, codes, granted>>
    BY <1>5 DEF WriteUse
  <2> QED BY <1>4, <2>1 DEF RedemptionInv, RedemptionTypes, ArraysAreTrue, OneUsePerActivity, GrantedPerUse,
                            Exists, Holds, UsesOf
<1>6. CASE Exists(c) /\ Unique(use)
  <2>1. /\ uses' = uses \cup {use}
        /\ codes' = [codes EXCEPT ![c].usedBy = array]
        /\ granted' = [granted EXCEPT ![r.user] = @ + 1]
    BY <1>6 DEF WriteUse
  <2>2. \A other \in uses : other.user = use.user => other.code # use.code /\ other.activity # use.activity
    BY <1>6 DEF Unique
  <2>3. codes[c] \in RowSet /\ codes \in [Codes -> RowSet \cup {NoRow, Deleted}]
    BY <1>1, <1>6, Rows DEF RedemptionInv, RedemptionTypes
  <2> HIDE DEF use, array, c
  <2>4. /\ codes' \in [Codes -> RowSet \cup {NoRow, Deleted}]
        /\ codes'[c] \in RowSet /\ codes'[c].usedBy = array
        /\ \A d \in Codes \ {c} : codes'[d] = codes[d]
    <3>1. [codes[c] EXCEPT !.usedBy = array] \in RowSet /\ [codes[c] EXCEPT !.usedBy = array].usedBy = array
      BY <1>2, <2>3 DEF RowSet
    <3>2. codes' = [codes EXCEPT ![c] = [codes[c] EXCEPT !.usedBy = array]]
      BY <2>1
    <3> QED BY <1>1, <2>3, <3>1, <3>2
  <2>5. \A d \in Codes : Exists(d)' <=> Exists(d)
    <3>1. Exists(c)' /\ Exists(c)
      BY <1>1, <1>6, <2>4, Rows DEF Exists, RedemptionInv, c
    <3>2. \A d \in Codes \ {c} : Exists(d)' <=> Exists(d)
      BY <2>4 DEF Exists
    <3> QED BY <3>1, <3>2
  <2>6. use \notin uses
    BY <2>2
  <2>7. IsFiniteSet(uses') /\ uses' \subseteq [code : Codes \cup {NoCode}, user : Emails, activity : Activities]
    BY <1>3, <2>1, FS_AddElement DEF RedemptionInv, RedemptionTypes
  <2>8. granted' \in [Emails -> Nat] /\ granted'[r.user] = granted[r.user] + 1
        /\ \A u \in Emails \ {r.user} : granted'[u] = granted[u]
    BY <1>1, <2>1 DEF RedemptionInv, RedemptionTypes
  <2>9. RedemptionTypes'
    BY <1>4, <2>4, <2>7, <2>8 DEF RedemptionInv, RedemptionTypes
  <2>10. \A d, u : Holds(d, u) => Holds(d, u)'
    BY <2>1 DEF Holds
  <2>11. ArraysAreTrue'
    <3>1. \A u \in array : Holds(c, u)'
      <4>1. \A u \in r.record.usedBy : Holds(c, u)
        BY <1>6 DEF RedemptionInv, ArraysAreTrue, c
      <4>2. Holds(c, r.user)'
        BY <1>3, <2>1 DEF Holds
      <4> QED BY <2>10, <4>1, <4>2 DEF array
    <3>2. ASSUME NEW d \in Codes, Exists(d)', NEW u \in codes'[d].usedBy PROVE Holds(d, u)'
      BY <2>4, <2>5, <2>10, <3>1, <3>2 DEF RedemptionInv, ArraysAreTrue
    <3>3. \A q \in redeeming' : q.code \in Codes /\ codes[q.code] # NoRow
      BY <1>4 DEF RedemptionInv, RedemptionTypes, ArraysAreTrue
    <3>4. \A q \in redeeming' : codes'[q.code] # NoRow
      BY <2>4, <3>3, Rows DEF RedemptionInv
    <3>5. \A q \in redeeming' : Exists(q.code)' => \A u \in q.record.usedBy : Holds(q.code, u)'
      BY <1>4, <2>5, <2>10, <3>3 DEF RedemptionInv, ArraysAreTrue
    <3> QED BY <3>2, <3>4, <3>5 DEF ArraysAreTrue
  <2>12. OneUsePerActivity'
    BY <2>1, <2>2 DEF RedemptionInv, OneUsePerActivity
  <2>13. GrantedPerUse'
    <3> SUFFICES ASSUME NEW u \in Emails PROVE granted'[u] = Cardinality(UsesOf(u)')
      BY DEF GrantedPerUse
    <3>1. granted[u] = Cardinality(UsesOf(u)) /\ granted[u] \in Nat
      BY DEF RedemptionInv, RedemptionTypes, GrantedPerUse
    <3>2. CASE u # r.user
      <4>1. UsesOf(u)' = UsesOf(u)
        BY <1>3, <2>1, <3>2 DEF UsesOf
      <4> QED BY <2>8, <3>1, <3>2, <4>1
    <3>3. CASE u = r.user
      <4>1. UsesOf(u)' = UsesOf(u) \cup {use} /\ use \notin UsesOf(u)
        BY <1>3, <2>1, <2>6, <3>3 DEF UsesOf
      <4>2. UsesOf(u) \in SUBSET uses /\ IsFiniteSet(uses)
        BY DEF UsesOf, RedemptionInv, RedemptionTypes
      <4>3. IsFiniteSet(UsesOf(u))
        BY <4>2, FS_Subset
      <4>4. Cardinality(UsesOf(u) \cup {use}) = Cardinality(UsesOf(u)) + 1
        BY <4>1, <4>3, FS_AddElement
      <4> QED BY <2>8, <3>1, <3>3, <4>1, <4>4
    <3> QED BY <3>2, <3>3
  <2> QED BY <2>9, <2>11, <2>12, <2>13 DEF RedemptionInv
<1> QED BY <1>5, <1>6

-----------------------------------------------------------------------------
(* What administrators do to codes *)

\* A new code has been used by nobody; a number that was deleted is not free.
LEMMA CreateCodeStep ==
  ASSUME RedemptionInv, NEW c \in Codes, CreateCode(c)
  PROVE  RedemptionInv'
<1>1. PICK a \in Activities, n \in {1, 2} : codes' = [codes EXCEPT ![c] = Code(a, n)]
  BY DEF CreateCode
<1> DEFINE row == Code(a, n)
<1>2. row \in RowSet /\ row.usedBy = {}
  BY DEF Code, RowSet
<1>3. codes \in [Codes -> RowSet \cup {NoRow, Deleted}] /\ codes[c] = NoRow
  BY DEF RedemptionInv, RedemptionTypes, CreateCode
<1>4. codes' = [codes EXCEPT ![c] = row]
  BY <1>1
<1> HIDE DEF row
<1>5. codes' \in [Codes -> RowSet \cup {NoRow, Deleted}] /\ codes'[c] = row /\ \A d \in Codes \ {c} : codes'[d] = codes[d]
  BY <1>2, <1>3, <1>4
<1>6. UNCHANGED <<uses, redeeming, granted, patching>>
  BY DEF CreateCode
<1>7. RedemptionTypes'
  BY <1>5, <1>6 DEF RedemptionInv, RedemptionTypes
<1>8. ArraysAreTrue'
  <2>1. \A r \in redeeming : r.code \in Codes /\ r.code # c
    BY <1>3 DEF RedemptionInv, RedemptionTypes, ArraysAreTrue
  <2>2. \A d \in Codes \ {c} : Exists(d)' <=> Exists(d)
    BY <1>5 DEF Exists
  <2>3. \A d, u : Holds(d, u)' <=> Holds(d, u)
    BY <1>6 DEF Holds
  <2> QED BY <1>2, <1>5, <1>6, <2>1, <2>2, <2>3 DEF RedemptionInv, ArraysAreTrue
<1> QED BY <1>6, <1>7, <1>8 DEF RedemptionInv, OneUsePerActivity, GrantedPerUse, UsesOf

\* The reads of patchCode and deleteCode.
LEMMA PatchReads ==
  ASSUME RedemptionInv, NEW c \in Codes, PatchCode(c) \/ DeleteCode(c)
  PROVE  RedemptionInv'
<1>1. codes[c] \in RowSet
  BY Rows DEF RedemptionInv, PatchCode, DeleteCode
<1>2. PICK p \in RowSet \cup {Deleted} : patching' = patching \cup {[code |-> c, patched |-> p]}
  <2>1. [codes[c] EXCEPT !.usable = ~@] \in RowSet
    BY <1>1 DEF RowSet
  <2>2. \A a \in Activities : [codes[c] EXCEPT !.activity = a] \in RowSet
    BY <1>1 DEF RowSet
  <2> QED BY <2>1, <2>2 DEF PatchCode, DeleteCode
<1>3. UNCHANGED <<codes, uses, redeeming, granted>>
  BY DEF PatchCode, DeleteCode
<1>4. RedemptionTypes'
  BY <1>2, <1>3 DEF RedemptionInv, RedemptionTypes
<1> QED BY <1>3, <1>4 DEF RedemptionInv, ArraysAreTrue, OneUsePerActivity, GrantedPerUse, Exists, Holds, UsesOf

(* One to one onto what it is mapped to, a finite set has as many elements. *)
LEMMA AsMany ==
  ASSUME NEW S, IsFiniteSet(S), NEW f, DOMAIN f = S, \A x, y \in S : f[x] = f[y] => x = y
  PROVE  LET T == {f[x] : x \in S} IN IsFiniteSet(T) /\ Cardinality(T) = Cardinality(S)
<1> DEFINE T == {f[x] : x \in S}
           g == [x \in S |-> f[x]]
<1>1. g \in [S -> T] /\ (\A x, y \in S : g[x] = g[y] => x = y) /\ \A t \in T : \E x \in S : g[x] = t
  OBVIOUS
<1>2. DOMAIN g = S
  OBVIOUS
<1> HIDE DEF g, T
<1>3. g \in Bijection(S, T)
  BY <1>1, <1>2 DEF Bijection, Injection, Surjection, IsInjective
<1>4. ExistsBijection(S, T)
  BY <1>3 DEF ExistsBijection
<1>5. IsFiniteSet(T) /\ Cardinality(T) = Cardinality(S)
  BY <1>4, FS_Bijection
<1> QED BY <1>5 DEF T

\* A deletion leaves every use with its user and its activity, and so with its grant.
LEMMA DeletionWritten ==
  ASSUME RedemptionInv, NEW p \in patching, WritePatch(p), Exists(p.code), p.patched = Deleted
  PROVE  RedemptionInv'
<1> DEFINE c == p.code
           f == [use \in uses |-> IF use.code = c THEN [use EXCEPT !.code = NoCode] ELSE use]
<1>1. /\ codes' = [codes EXCEPT ![c] = Deleted] /\ uses' = {f[use] : use \in uses}
      /\ patching' = patching \ {p} /\ redeeming' = redeeming /\ granted' = granted
  BY DEF WritePatch
<1>2. c \in Codes
  BY DEF RedemptionInv, RedemptionTypes
<1>3. ASSUME NEW use \in uses
      PROVE  /\ f[use] \in [code : Codes \cup {NoCode}, user : Emails, activity : Activities]
             /\ f[use].user = use.user /\ f[use].activity = use.activity
             /\ use.code # c => f[use].code = use.code
  <2>1. use \in [code : Codes \cup {NoCode}, user : Emails, activity : Activities]
    BY DEF RedemptionInv, RedemptionTypes
  <2> QED BY <2>1
<1>4. \A v, w \in uses : f[v] = f[w] => v = w
  BY <1>3 DEF RedemptionInv, OneUsePerActivity
<1>5. DOMAIN f = uses
  OBVIOUS
<1> HIDE DEF f, c
<1>6. codes' \in [Codes -> RowSet \cup {NoRow, Deleted}] /\ codes'[c] = Deleted /\ \A d \in Codes \ {c} : codes'[d] = codes[d]
  BY <1>1, <1>2 DEF RedemptionInv, RedemptionTypes
<1>7. ~Exists(c)' /\ \A d \in Codes \ {c} : Exists(d)' <=> Exists(d)
  BY <1>6 DEF Exists
<1>8. \A d, u : d # c /\ Holds(d, u) => Holds(d, u)'
  BY <1>1, <1>3 DEF Holds
<1>9. RedemptionTypes'
  <2>1. IsFiniteSet(uses')
    BY <1>1, <1>4, <1>5, AsMany DEF RedemptionInv, RedemptionTypes
  <2>2. uses' \subseteq [code : Codes \cup {NoCode}, user : Emails, activity : Activities]
    BY <1>1, <1>3
  <2> QED BY <1>1, <1>6, <2>1, <2>2 DEF RedemptionInv, RedemptionTypes
<1>10. ArraysAreTrue'
  <2>1. \A r \in redeeming : r.code \in Codes /\ codes'[r.code] # NoRow
    <3>1. \A r \in redeeming : r.code \in Codes /\ codes[r.code] # NoRow
      BY DEF RedemptionInv, RedemptionTypes, ArraysAreTrue
    <3>2. Deleted # NoRow
      BY <1>2, Rows DEF RedemptionInv
    <3> QED BY <1>6, <3>1, <3>2
  <2> QED BY <1>1, <1>6, <1>7, <1>8, <2>1 DEF RedemptionInv, ArraysAreTrue
<1>11. OneUsePerActivity'
  BY <1>1, <1>3 DEF RedemptionInv, OneUsePerActivity
<1>12. GrantedPerUse'
  <2> SUFFICES ASSUME NEW u \in Emails PROVE Cardinality(UsesOf(u)') = Cardinality(UsesOf(u))
    BY <1>1 DEF GrantedPerUse, RedemptionInv
  <2> DEFINE S == UsesOf(u)
             h == [use \in S |-> f[use]]
  <2>1. S \in SUBSET uses /\ IsFiniteSet(uses)
    BY DEF UsesOf, RedemptionInv, RedemptionTypes
  <2>2. IsFiniteSet(S)
    BY <2>1, FS_Subset
  <2>3. DOMAIN h = S /\ \A v, w \in S : h[v] = h[w] => v = w
    BY <1>4, <2>1
  <2>4. UsesOf(u)' = {h[use] : use \in S}
    BY <1>1, <1>3 DEF UsesOf
  <2> HIDE DEF h, S
  <2>5. Cardinality({h[use] : use \in S}) = Cardinality(S)
    BY <2>2, <2>3, AsMany
  <2> QED BY <2>4, <2>5 DEF S
<1> QED BY <1>9, <1>10, <1>11, <1>12 DEF RedemptionInv

\* A change writes the activity and whether the code can be used, never the array.
LEMMA ChangeWritten ==
  ASSUME RedemptionInv, NEW p \in patching, WritePatch(p), Exists(p.code), p.patched # Deleted
  PROVE  RedemptionInv'
<1> DEFINE c == p.code
           row == [codes[c] EXCEPT !.activity = p.patched.activity, !.usable = p.patched.usable]
<1>1. c \in Codes /\ p.patched \in RowSet
  BY DEF RedemptionInv, RedemptionTypes
<1>2. codes[c] \in RowSet
  BY <1>1, Rows DEF RedemptionInv
<1>3. row \in RowSet /\ row.usedBy = codes[c].usedBy
  BY <1>1, <1>2 DEF RowSet
<1>4. codes' = [codes EXCEPT ![c] = row] /\ UNCHANGED <<uses, redeeming, granted>> /\ patching' = patching \ {p}
  BY DEF WritePatch
<1> HIDE DEF row, c
<1>5. codes' \in [Codes -> RowSet \cup {NoRow, Deleted}] /\ codes'[c] = row /\ \A d \in Codes \ {c} : codes'[d] = codes[d]
  BY <1>1, <1>3, <1>4 DEF RedemptionInv, RedemptionTypes
<1>6. RedemptionTypes'
  BY <1>4, <1>5 DEF RedemptionInv, RedemptionTypes
<1>7. Exists(c) /\ Exists(c)' /\ codes'[c] # NoRow
  BY <1>1, <1>2, <1>3, <1>5, Rows DEF Exists, RedemptionInv
<1>8. \A d \in Codes : /\ Exists(d)' <=> Exists(d)
                       /\ codes[d] # NoRow => codes'[d] # NoRow
                       /\ Exists(d) => codes'[d].usedBy = codes[d].usedBy
  BY <1>3, <1>5, <1>7 DEF Exists
<1>9. \A r \in redeeming : r.code \in Codes
  BY DEF RedemptionInv, RedemptionTypes
<1>10. \A d, u : Holds(d, u)' <=> Holds(d, u)
  BY <1>4 DEF Holds
<1>11. ArraysAreTrue'
  BY <1>4, <1>8, <1>9, <1>10 DEF RedemptionInv, ArraysAreTrue
<1> QED BY <1>4, <1>6, <1>11 DEF RedemptionInv, OneUsePerActivity, GrantedPerUse, UsesOf

\* Or the code has gone meanwhile.
LEMMA WritePatchStep ==
  ASSUME RedemptionInv, NEW p \in patching, WritePatch(p)
  PROVE  RedemptionInv'
<1>1. CASE ~Exists(p.code)
  BY <1>1 DEF WritePatch, RedemptionInv, RedemptionTypes, ArraysAreTrue, OneUsePerActivity, GrantedPerUse, Exists, Holds, UsesOf
<1> QED BY <1>1, DeletionWritten, ChangeWritten

-----------------------------------------------------------------------------
(* What administrators do to each other *)

\* More than one administrator: one of them is not the one that goes.
LEMMA AnotherIsLeft ==
  ASSUME NEW S, Cardinality(S) > 1, NEW a
  PROVE  S \ {a} # {}
<1> SUFFICES ASSUME S \ {a} = {} PROVE FALSE
  OBVIOUS
<1>1. CASE S = {}
  BY <1>1, FS_EmptySet
<1>2. CASE S = {a}
  <2>1. Cardinality({a}) = 1
    BY FS_Singleton
  <2> QED BY <1>2, <2>1
<1> QED BY <1>1, <1>2

\* Who disables another one is active and stays; who enables one takes nobody.
LEMMA PatchUserStep ==
  ASSUME AdminInv, NEW by \in Admins, NEW target \in Admins, DisableAdmin(by, target) \/ EnableAdmin(by, target)
  PROVE  AdminInv'
<1>1. CASE DisableAdmin(by, target)
  <2> DEFINE new == [target |-> target, by |-> by, counted |-> target \notin active]
  <2>1. new \in [target : Admins, by : Admins, counted : BOOLEAN] /\ new.target = target
    OBVIOUS
  <2>2. by \in active \ {target} /\ disabling' = disabling \cup {new} /\ active' = active /\ raced' = raced
    BY <1>1 DEF DisableAdmin
  <2> HIDE DEF new
  <2> QED BY <2>1, <2>2 DEF AdminInv
<1>2. CASE EnableAdmin(by, target)
  BY <1>2 DEF EnableAdmin, AdminInv
<1> QED BY <1>1, <1>2

\* The count, and the write, which another one that has counted makes a race.
LEMMA CountStep ==
  ASSUME AdminInv, NEW d \in disabling, CountAdmins(d)
  PROVE  AdminInv'
<1> DEFINE next == [d EXCEPT !.counted = TRUE]
<1>1. d \in [target : Admins, by : Admins, counted : BOOLEAN]
  BY DEF AdminInv
<1>2. next \in [target : Admins, by : Admins, counted : BOOLEAN] /\ next.target = d.target
  BY <1>1
<1>3. active' = active /\ raced' = raced
  BY DEF CountAdmins
<1>4. CASE EnoughAdmins
  <2>1. disabling' = (disabling \ {d}) \cup {next}
    BY <1>4 DEF CountAdmins
  <2>2. active \ {d.target} # {}
    BY <1>4, AnotherIsLeft DEF EnoughAdmins
  <2> HIDE DEF next
  <2> QED BY <1>2, <1>3, <2>1, <2>2 DEF AdminInv
<1>5. CASE ~EnoughAdmins
  BY <1>3, <1>5 DEF CountAdmins, AdminInv
<1> QED BY <1>4, <1>5

LEMMA WriteStatusStep ==
  ASSUME AdminInv, NEW d \in disabling, WriteStatus(d)
  PROVE  AdminInv'
<1>1. /\ d.counted /\ active' = active \ {d.target} /\ disabling' = disabling \ {d}
      /\ raced' = (raced \/ \E other \in disabling' : other.counted)
  BY DEF WriteStatus
<1> QED BY <1>1 DEF AdminInv

-----------------------------------------------------------------------------
(* The steps *)

LEMMA InitHolds == NestAccountsAssumption /\ Init => AccountsInv
<1> SUFFICES ASSUME NestAccountsAssumption, Init PROVE AccountsInv
  OBVIOUS
<1>1. SignupInv
  BY DEF Init, SignupInv, SignupTypes, CaptchasLetInOne, OneBonus, Registered
<1>2. RedemptionInv
  <2>1. uses = {} /\ redeeming = {} /\ patching = {} /\ granted = [u \in Emails |-> 0] /\ codes = [c \in Codes |-> NoRow]
    BY DEF Init
  <2>2. IsFiniteSet(uses) /\ \A u \in Emails : UsesOf(u) = {} /\ Cardinality(UsesOf(u)) = 0
    BY <2>1, FS_EmptySet DEF UsesOf
  <2>3. \A c \in Codes : ~Exists(c)
    BY <2>1 DEF Exists
  <2>4. granted \in [Emails -> Nat]
    BY <2>1
  <2> QED BY <2>1, <2>2, <2>3, <2>4 DEF RedemptionInv, RedemptionTypes, ArraysAreTrue, OneUsePerActivity, GrantedPerUse
<1>3. AdminInv
  BY DEF Init, AdminInv, NestAccountsAssumption
<1> QED BY <1>1, <1>2, <1>3 DEF AccountsInv, Init, NestAccountsAssumption

LEMMA StepHolds == NestAccountsAssumption /\ AccountsInv /\ [Next]_vars => AccountsInv'
<1> SUFFICES ASSUME NestAccountsAssumption, AccountsInv, [Next]_vars PROVE AccountsInv'
  OBVIOUS
<1> USE DEF AccountsInv
<1>1. CASE UNCHANGED vars
  BY <1>1, SignupStays, RedemptionStays, AdminsStay DEF vars
<1>2. CASE \E k \in CaptchaIds : CreateCaptcha(k) \/ CaptchaGoes(k)
  <2>1. UNCHANGED <<redemption, admins, patches>> /\ SignupInv'
    BY <1>2, CaptchaSteps DEF CreateCaptcha, CaptchaGoes
  <2> QED BY <2>1, RedemptionStays, AdminsStay
<1>3. CASE \E k \in CaptchaIds, u \in Emails, right \in BOOLEAN : VerifyCaptcha(k, u, right)
  <2>1. UNCHANGED <<redemption, admins, patches>> /\ SignupInv'
    BY <1>3, VerifyStep DEF VerifyCaptcha
  <2> QED BY <2>1, RedemptionStays, AdminsStay
<1>4. CASE \E r \in registering : LookForEmail(r) \/ CreateAccount(r)
  <2>1. UNCHANGED <<redemption, admins, patches>> /\ SignupInv'
    BY <1>4, LookStep, CreateStep DEF LookForEmail, CreateAccount
  <2> QED BY <2>1, RedemptionStays, AdminsStay
<1>5. CASE \E c \in Codes, u \in Emails : ReadCode(u, c)
  <2>1. UNCHANGED <<signup, admins, patches>> /\ RedemptionInv'
    BY <1>5, ReadStep DEF ReadCode
  <2> QED BY <2>1, SignupStays, AdminsStay
<1>6. CASE \E r \in redeeming : WriteUse(r)
  <2>1. UNCHANGED <<signup, admins, patches>> /\ RedemptionInv'
    BY <1>6, WriteUseStep DEF WriteUse
  <2> QED BY <2>1, SignupStays, AdminsStay
<1>7. Acts => patches' \in 0..MaxPatches
  BY DEF Acts, NestAccountsAssumption
<1>8. CASE \E c \in Codes : CreateCode(c) \/ PatchCode(c) \/ DeleteCode(c)
  <2>1. UNCHANGED <<signup, admins>> /\ Acts /\ RedemptionInv'
    BY <1>8, CreateCodeStep, PatchReads DEF CreateCode, PatchCode, DeleteCode
  <2> QED BY <1>7, <2>1, SignupStays, AdminsStay
<1>9. CASE \E p \in patching : WritePatch(p)
  <2>1. UNCHANGED <<signup, admins, patches>> /\ RedemptionInv'
    BY <1>9, WritePatchStep DEF WritePatch
  <2> QED BY <2>1, SignupStays, AdminsStay
<1>10. CASE \E by, target \in Admins : DisableAdmin(by, target) \/ EnableAdmin(by, target)
  <2>1. UNCHANGED <<signup, redemption>> /\ Acts /\ AdminInv'
    BY <1>10, PatchUserStep DEF DisableAdmin, EnableAdmin
  <2> QED BY <1>7, <2>1, SignupStays, RedemptionStays
<1>11. CASE \E d \in disabling : CountAdmins(d) \/ WriteStatus(d)
  <2>1. UNCHANGED <<signup, redemption, patches>> /\ AdminInv'
    BY <1>11, CountStep, WriteStatusStep DEF CountAdmins, WriteStatus
  <2> QED BY <2>1, SignupStays, RedemptionStays
<1> QED BY <1>1, <1>2, <1>3, <1>4, <1>5, <1>6, <1>8, <1>9, <1>10, <1>11 DEF Next

-----------------------------------------------------------------------------
(* The theorems *)

LEMMA InvariantHolds ==
  ASSUME NestAccountsAssumption
  PROVE  Spec => []AccountsInv
  BY InitHolds, StepHolds, PTL DEF Spec

\* A user has one bonus per account, and one account.
LEMMA BonusPerAccount ==
  ASSUME SignupInv, NEW u \in Emails
  PROVE  bonus[u] = Cardinality({a \in accounts : a.user = u}) /\ bonus[u] <= 1
<1>1. bonus[u] \in {0, 1} /\ (bonus[u] = 1 <=> Registered(u)) /\ \A a, b \in accounts : a.user = b.user => a = b
  BY DEF SignupInv, SignupTypes, OneBonus
<1>2. CASE Registered(u)
  <2>1. PICK a \in accounts : a.user = u
    BY <1>2 DEF Registered
  <2>2. {b \in accounts : b.user = u} = {a}
    BY <1>1, <2>1
  <2>3. Cardinality({a}) = 1
    BY FS_Singleton
  <2> QED BY <1>1, <1>2, <2>2, <2>3
<1>3. CASE ~Registered(u)
  <2>1. {b \in accounts : b.user = u} = {}
    BY <1>3 DEF Registered
  <2> QED BY <1>1, <1>3, <2>1, FS_EmptySet
<1> QED BY <1>2, <1>3

\* A user has one grant per use, one use per activity and one bonus, and a captcha has
\* let in one account at most; a code is refused as used only to who has redeemed it.
THEOREM GrantedOnceAlways ==
  ASSUME NestAccountsAssumption
  PROVE  Spec => []GrantedOnce
<1>1. AccountsInv => GrantedOnce
  <2> SUFFICES ASSUME AccountsInv PROVE GrantedOnce
    OBVIOUS
  <2>1. ASSUME NEW u \in Emails
        PROVE  /\ granted[u] = Cardinality(UsesOf(u))
               /\ \A p, q \in UsesOf(u) : p.activity = q.activity => p = q
    BY DEF AccountsInv, RedemptionInv, GrantedPerUse, OneUsePerActivity, UsesOf
  <2>2. \A u \in Emails : bonus[u] = Cardinality({a \in accounts : a.user = u}) /\ bonus[u] <= 1
    BY BonusPerAccount DEF AccountsInv
  <2>3. \A a, b \in accounts : a.captcha = b.captcha => a = b
    BY DEF AccountsInv, SignupInv, CaptchasLetInOne
  <2>4. \A c \in Codes : Exists(c) => \A u \in codes[c].usedBy : \E use \in uses : use.code = c /\ use.user = u
    BY DEF AccountsInv, RedemptionInv, ArraysAreTrue, Holds
  <2> QED BY <2>1, <2>2, <2>3, <2>4 DEF GrantedOnce
<1> QED BY <1>1, InvariantHolds, PTL

\* An administrator is left, unless a change was written between the count and the
\* write of another one.
THEOREM LockoutsAreRaces ==
  ASSUME NestAccountsAssumption
  PROVE  Spec => []OnlyRacesLockOut
<1>1. AccountsInv => OnlyRacesLockOut
  BY DEF AccountsInv, AdminInv, OnlyRacesLockOut
<1> QED BY <1>1, InvariantHolds, PTL

\* Rows of accounts, codes and uses, and the calls under way.
THEOREM TypeCorrect ==
  ASSUME NestAccountsAssumption
  PROVE  Spec => []TypeOK
<1>1. AccountsInv => TypeOK
  <2> SUFFICES ASSUME AccountsInv PROVE TypeOK
    OBVIOUS
  <2>1. captchas \subseteq issued /\ issued \subseteq CaptchaIds
        /\ \A a \in accounts : a.user \in Emails /\ a.captcha \in issued \ captchas
    BY DEF AccountsInv, SignupInv, SignupTypes, HeldCaptcha
  <2>2. \A c \in Codes : Exists(c) => codes[c].activity \in Activities /\ codes[c].usedBy \subseteq Emails
    <3>1. \A c \in Codes : Exists(c) => codes[c] \in RowSet
      BY Rows DEF AccountsInv, RedemptionInv
    <3> QED BY <3>1 DEF RowSet
  <2>3. \A u \in uses : u.user \in Emails /\ u.code \in Codes \cup {NoCode} /\ u.activity \in Activities
    BY DEF AccountsInv, RedemptionInv, RedemptionTypes
  <2> QED BY <2>1, <2>2, <2>3 DEF AccountsInv, AdminInv, TypeOK
<1> QED BY <1>1, InvariantHolds, PTL

-----------------------------------------------------------------------------
(* The generation tasks: the inductive invariant                            *)

RunsOf(t) == {r \in runs : r.task = t}

RequestPlaces == {"new", "checked", "created", "stored", "running", "abandoned", "counted",
                  "answered", "failing", "refunding", "refunded", "refused", "gone"}

JobSet == [place : Gen!Places, made : 0..Attempts, stalls : 0..1]

RunSet == [task : Tasks, attempt : 1..Attempts, max : Nat,
           stage : {"start", "claim", "calling", "error", "retry", "failing", "refund"},
           failures : Nat, refunded : BOOLEAN]

GatewaySet == [exists : BOOLEAN, enabled : BOOLEAN, failures : Nat, cooling : BOOLEAN]

RecoverySet == {"no", "look", "queued", "processing", "adding"}

RecordTypes ==
  /\ status \in [Tasks -> {"none", "queued", "processing", "success", "failed"}]
  /\ images \in [Tasks -> 0..(Count + 1)]
  /\ usage \in [Tasks -> {"none", "success", "failed"}]
  /\ wallet \in [of : [Tasks -> Int], rest : Int]
  /\ refunded \in [Tasks -> BOOLEAN]

CallTypes ==
  /\ gateway \in GatewaySet
  /\ request \in [Tasks -> RequestPlaces]
  /\ job \in [Tasks -> JobSet]
  /\ runs \subseteq RunSet
  /\ recovering \in [Tasks -> RecoverySet]

TaskTypes == RecordTypes /\ CallTypes

BoundTypes == crashes \in 0..MaxCrashes /\ errors \in 0..MaxErrors /\ toggles \in 0..MaxToggles

Underway(t) == status[t] \in {"queued", "processing"}

(* One worker has a task at a time: the request that runs it itself, and    *)
(* then there is no job, or the one to whom the queue has given its job.    *)
RunsAlone(t) ==
  /\ \A r, s \in RunsOf(t) : r = s
  /\ \A r \in RunsOf(t) :
       /\ status[t] # "none"
       /\ \/ request[t] = "running" /\ job[t] = Gen!NoJob
          \/ request[t] # "running" /\ job[t].place = "active" /\ r.attempt = job[t].made + 1

(* A job is added only by the request that has counted the jobs and by a    *)
(* start, for a task that is there, and it is delivered Attempts times.     *)
JobIsOfTask(t) ==
  /\ request[t] \in {"new", "checked"} => status[t] = "none"
  /\ status[t] = "none" =>
       request[t] \in {"new", "checked", "refused", "gone"} /\ job[t] = Gen!NoJob /\ usage[t] = "none"
  /\ request[t] \in {"created", "stored", "counted", "running"} => job[t] = Gen!NoJob
  /\ job[t].place \in {"waiting", "delayed", "active"} => job[t].made < Attempts
  /\ usage[t] = "none" => images[t] = 0

(* What has been entered and recorded of a task follows from its status: a *)
(* task that is not settled has no refund, no usage and no image.           *)
Accounted(t) ==
  /\ status[t] = "none" \/ Underway(t) => ~refunded[t] /\ usage[t] = "none"
  /\ wallet.of[t] = Gen!Worth(t)
  /\ status[t] = "success" <=> usage[t] = "success"
  /\ images[t] > 0 <=> status[t] = "success"

(* While a start recovers the tasks, no request is under way, and a task    *)
(* that was read as not settled is there.                                   *)
RecoveryKnows(t) ==
  /\ recovering[t] # "no" => request[t] \in {"new", "gone"}
  /\ recovering[t] \in {"queued", "processing", "adding"} => status[t] # "none"

(* Where no call that added a job was reported as failed, a request that    *)
(* is to fail its task is alone with it, who is past the first read of      *)
(* processTask has a task that is not settled, and a task that was settled  *)
(* after the recovery had read it has a job that has ended.                 *)
Undisturbed(t) ==
  /\ request[t] \in {"created", "stored", "counted", "failing", "refunding"} =>
       status[t] = "queued" /\ job[t] = Gen!NoJob
  /\ request[t] # "refunded"
  /\ Gen!Stranded(t) \/ Accounted(t)
  /\ recovering[t] = "processing" /\ ~Underway(t) => job[t].place = "completed"
  /\ \A r \in RunsOf(t) : /\ r.stage # "start" => Underway(t)
                          /\ r.stage = "refund" => ~r.refunded

TaskInv(t) == RunsAlone(t) /\ JobIsOfTask(t) /\ RecoveryKnows(t) /\ (t \notin disturbed => Undisturbed(t))

GenerationInv == TaskTypes /\ BoundTypes /\ \A t \in Tasks : TaskInv(t)

-----------------------------------------------------------------------------
(* A step of one task *)

(* What the invariant says of a task depends on this. *)
SameFor(t) ==
  /\ status'[t] = status[t] /\ images'[t] = images[t] /\ usage'[t] = usage[t]
  /\ wallet'.of[t] = wallet.of[t] /\ refunded'[t] = refunded[t]
  /\ request'[t] = request[t] /\ job'[t] = job[t] /\ RunsOf(t)' = RunsOf(t)
  /\ recovering'[t] = recovering[t]

\* The other tasks keep their invariants.
LEMMA SameInv ==
  ASSUME NEW t, TaskInv(t), SameFor(t), disturbed \subseteq disturbed'
  PROVE  TaskInv(t)'
BY DEF TaskInv, RunsAlone, JobIsOfTask, RecoveryKnows, Undisturbed, Accounted, SameFor, Underway, Gen!Worth, Gen!NoJob,
       Gen!Stranded

LEMMA OneTask ==
  ASSUME GenerationInv, NEW t, TaskTypes', BoundTypes', TaskInv(t)',
         \A s \in Tasks \ {t} : SameFor(s), disturbed \subseteq disturbed'
  PROVE  GenerationInv'
BY SameInv DEF GenerationInv

\* The price is a number, and an answer with too few images gives the rest of it back.
LEMMA Prices ==
  ASSUME Gen!NestTasksAssumption
  PROVE  /\ Gen!Cost \in Nat
         /\ \A n \in Nat : /\ Gen!Shortfall(n) * UnitCost \in Int
                           /\ Gen!Shortfall(n) * UnitCost - Gen!Cost = -((IF n < Count THEN n ELSE Count) * UnitCost)
<1>1. Count \in Nat /\ UnitCost \in Nat
  BY DEF Gen!NestTasksAssumption
<1>2. \A n \in Int : (Count - n) * UnitCost = Count * UnitCost - n * UnitCost /\ n * UnitCost \in Int
  BY <1>1, SMT
<1> QED BY <1>1, <1>2 DEF Gen!Cost, Gen!Shortfall

\* An entry of a task in the wallet.
LEMMA EntryMade ==
  ASSUME wallet \in [of : [Tasks -> Int], rest : Int], NEW t \in Tasks, NEW n \in Int, Gen!Entry(t, n)
  PROVE  /\ wallet' \in [of : [Tasks -> Int], rest : Int]
         /\ wallet'.of[t] = wallet.of[t] + n
         /\ \A s \in Tasks \ {t} : wallet'.of[s] = wallet.of[s]
<1> DEFINE of == [wallet.of EXCEPT ![t] = @ + n]
           rest == wallet.rest + n
<1>1. wallet.of \in [Tasks -> Int] /\ wallet.rest \in Int
  OBVIOUS
<1>2. /\ of \in [Tasks -> Int] /\ of[t] = wallet.of[t] + n
      /\ \A s \in Tasks \ {t} : of[s] = wallet.of[s]
  BY <1>1
<1>3. wallet' = [wallet EXCEPT !.of = of, !.rest = rest]
  BY DEF Gen!Entry
<1>4. rest \in Int
  BY <1>1
<1> HIDE DEF of, rest
<1>5. wallet' \in [of : [Tasks -> Int], rest : Int] /\ wallet'.of = of
  BY <1>2, <1>3, <1>4
<1> QED BY <1>2, <1>5

\* A request goes on.
LEMMA RequestMoves ==
  ASSUME CallTypes, NEW t \in Tasks, NEW at \in RequestPlaces, Gen!To(t, at)
  PROVE  request' \in [Tasks -> RequestPlaces] /\ request'[t] = at /\ \A s \in Tasks \ {t} : request'[s] = request[s]
BY DEF CallTypes, Gen!To

\* A run of a task goes on, begins or ends: the others keep theirs.
LEMMA RunMoves ==
  ASSUME NEW r \in runs, RunsAlone(r.task), NEW s, s.task = r.task, Gen!Replaced(r, s)
  PROVE  RunsOf(r.task)' = {s} /\ \A t : t # r.task => RunsOf(t)' = RunsOf(t)
BY DEF RunsOf, Gen!Replaced, RunsAlone

-----------------------------------------------------------------------------
(* createTask and queueTask *)

\* A step that moves the request only.
LEMMA RequestOnly ==
  ASSUME GenerationInv, NEW t \in Tasks, NEW at \in RequestPlaces, Gen!To(t, at), BoundTypes',
         UNCHANGED <<status, images, usage, wallet, refunded, gateway, job, runs, recovering, disturbed>>,
         TaskInv(t)'
  PROVE  GenerationInv'
<1>1. request' \in [Tasks -> RequestPlaces] /\ \A s \in Tasks \ {t} : request'[s] = request[s]
  BY RequestMoves DEF GenerationInv, TaskTypes
<1>2. TaskTypes'
  BY <1>1 DEF GenerationInv, TaskTypes, RecordTypes, CallTypes
<1>3. \A s \in Tasks \ {t} : SameFor(s)
  BY <1>1 DEF SameFor, RunsOf
<1> QED BY <1>2, <1>3, OneTask

\* The same for a task of which no run is known.
LEMMA TaskMoves ==
  ASSUME GenerationInv, NEW t \in Tasks, NEW at \in RequestPlaces, Gen!To(t, at),
         UNCHANGED <<status, images, usage, wallet, refunded, job, runs, recovering, disturbed>>,
         recovering[t] = "no", request[t] # "running", at \notin {"new", "running", "refunded"} \/ (t \in disturbed /\ at = "refunded"),
         at = "checked" => request[t] = "new",
         at \notin {"checked", "refused"} => status[t] # "none",
         at \in {"created", "stored", "counted"} => job[t] = Gen!NoJob,
         at \in {"created", "stored", "counted", "failing", "refunding"} /\ t \notin disturbed => status[t] = "queued" /\ job[t] = Gen!NoJob
  PROVE  TaskInv(t)'
<1>1. request'[t] = at
  BY RequestMoves DEF GenerationInv, TaskTypes
<1>2. TaskInv(t)
  BY DEF GenerationInv
<1>3. RunsOf(t)' = RunsOf(t)
  BY DEF RunsOf
<1>4. RunsAlone(t)'
  BY <1>1, <1>2, <1>3 DEF TaskInv, RunsAlone
<1>5. JobIsOfTask(t)'
  BY <1>1, <1>2 DEF TaskInv, JobIsOfTask
<1>6. t \notin disturbed => Undisturbed(t)'
  BY <1>1, <1>2, <1>3 DEF TaskInv, Undisturbed, Accounted, Underway, Gen!Worth, Gen!Stranded
<1>7. RecoveryKnows(t)'
  BY DEF RecoveryKnows
<1> QED BY <1>4, <1>5, <1>6, <1>7 DEF TaskInv

\* Where a request is under way, no start is recovering its task.
LEMMA NotRecovering ==
  ASSUME GenerationInv, NEW t \in Tasks, request[t] \notin {"new", "gone"}
  PROVE  recovering[t] = "no"
BY DEF GenerationInv, TaskInv, RecoveryKnows

LEMMA CheckBalanceStep ==
  ASSUME GenerationInv, NEW t \in Tasks, Gen!CheckBalance(t)
  PROVE  GenerationInv'
<1>1. PICK at \in {"checked", "refused"} : Gen!To(t, at)
  BY DEF Gen!CheckBalance
<1>2. /\ request[t] = "new" /\ at \in RequestPlaces /\ BoundTypes'
      /\ UNCHANGED <<status, images, usage, wallet, refunded, gateway, job, runs, recovering, disturbed>>
  BY DEF Gen!CheckBalance, Gen!records, Gen!bounds, GenerationInv, BoundTypes, RequestPlaces
<1>3. recovering[t] = "no"
  BY DEF Gen!CheckBalance, Gen!Serving
<1>4. TaskInv(t)'
  BY <1>1, <1>2, <1>3, TaskMoves
<1> QED BY <1>1, <1>2, <1>4, RequestOnly

\* A request that is answered with an error after its task was made leaves the task.
LEMMA StoreFailsStep ==
  ASSUME Gen!NestTasksAssumption, GenerationInv, NEW t \in Tasks, Gen!StoreFails(t)
  PROVE  GenerationInv'
<1>1. /\ request[t] = "created" /\ Gen!To(t, "abandoned") /\ "abandoned" \in RequestPlaces
      /\ UNCHANGED <<status, images, usage, wallet, refunded, gateway, job, runs, recovering, disturbed>>
  BY DEF Gen!StoreFails, Gen!records, RequestPlaces
<1>2. BoundTypes'
  BY DEF Gen!StoreFails, GenerationInv, BoundTypes, Gen!NestTasksAssumption
<1>3. status[t] # "none"
  BY <1>1 DEF GenerationInv, TaskInv, JobIsOfTask
<1>4. TaskInv(t)'
  BY <1>1, <1>3, NotRecovering, TaskMoves
<1> QED BY <1>1, <1>2, <1>4, RequestOnly

LEMMA CountJobsStep ==
  ASSUME GenerationInv, NEW t \in Tasks, Gen!CountJobs(t)
  PROVE  GenerationInv'
<1>1. PICK at \in {"failing", "counted"} : Gen!To(t, at)
  BY DEF Gen!CountJobs
<1>2. /\ request[t] = "stored" /\ at \in RequestPlaces /\ BoundTypes'
      /\ UNCHANGED <<status, images, usage, wallet, refunded, gateway, job, runs, recovering, disturbed>>
  BY DEF Gen!CountJobs, Gen!records, Gen!bounds, GenerationInv, BoundTypes, RequestPlaces
<1>3. status[t] # "none" /\ job[t] = Gen!NoJob /\ (t \notin disturbed => status[t] = "queued")
  BY <1>2 DEF GenerationInv, TaskInv, JobIsOfTask, Undisturbed
<1>4. TaskInv(t)'
  BY <1>1, <1>2, <1>3, NotRecovering, TaskMoves
<1> QED BY <1>1, <1>2, <1>4, RequestOnly

\* The look for a refund: there is none yet of a task that is not disturbed.
LEMMA RequestLooksStep ==
  ASSUME GenerationInv, NEW t \in Tasks, Gen!RequestLooksForRefund(t)
  PROVE  GenerationInv'
<1>1. PICK at \in {"refunded", "refunding"} : Gen!To(t, at) /\ (at = "refunded" => refunded[t])
  BY DEF Gen!RequestLooksForRefund
<1>2. /\ request[t] = "failing" /\ at \in RequestPlaces /\ BoundTypes'
      /\ UNCHANGED <<status, images, usage, wallet, refunded, gateway, job, runs, recovering, disturbed>>
  BY DEF Gen!RequestLooksForRefund, Gen!records, Gen!bounds, GenerationInv, BoundTypes, RequestPlaces
<1>3. status[t] # "none" /\ (t \notin disturbed => status[t] = "queued" /\ job[t] = Gen!NoJob /\ ~refunded[t])
  BY <1>2 DEF GenerationInv, TaskInv, JobIsOfTask, Undisturbed, Accounted, Underway, Gen!Stranded, Gen!NoJob
<1>4. TaskInv(t)'
  BY <1>1, <1>2, <1>3, NotRecovering, TaskMoves
<1> QED BY <1>1, <1>2, <1>4, RequestOnly

-----------------------------------------------------------------------------
(* A step of processTask *)

RecordsOfOthers(t) ==
  \A s \in Tasks \ {t} : /\ status'[s] = status[s] /\ images'[s] = images[s] /\ usage'[s] = usage[s]
                         /\ wallet'.of[s] = wallet.of[s] /\ refunded'[s] = refunded[s]

\* Who runs a task runs it alone.
LEMMA RunKnown ==
  ASSUME GenerationInv, NEW r \in runs
  PROVE  /\ r \in RunSet /\ r.task \in Tasks /\ TaskInv(r.task) /\ RunsOf(r.task) = {r}
         /\ status[r.task] # "none" /\ ~Gen!Stranded(r.task)
         /\ \/ request[r.task] = "running" /\ job[r.task] = Gen!NoJob
            \/ /\ request[r.task] # "running" /\ job[r.task] # Gen!NoJob
               /\ job[r.task].place = "active" /\ r.attempt = job[r.task].made + 1
<1>1. r \in RunSet /\ r.task \in Tasks
  BY DEF GenerationInv, TaskTypes, CallTypes, RunSet
<1>2. TaskInv(r.task) /\ r \in RunsOf(r.task)
  BY <1>1 DEF GenerationInv, RunsOf
<1> QED BY <1>1, <1>2 DEF TaskInv, RunsAlone, Gen!NoJob, Gen!Stranded

\* A run that goes on leaves the request and the job as they were.
LEMMA RunGoesOn ==
  ASSUME GenerationInv, NEW r \in runs, NEW s \in RunSet, s.task = r.task, s.attempt = r.attempt,
         Gen!Replaced(r, s), UNCHANGED <<request, job, recovering, disturbed>>, s.stage # "start",
         RecordTypes', gateway' \in GatewaySet, BoundTypes', RecordsOfOthers(r.task),
         status'[r.task] # "none", usage'[r.task] = "none" => images'[r.task] = 0,
         r.task \notin disturbed => /\ Accounted(r.task)'
                                    /\ Underway(r.task)'
                                    /\ s.stage = "refund" => ~s.refunded
  PROVE  GenerationInv'
<1> DEFINE t == r.task
<1>1. /\ t \in Tasks /\ TaskInv(t) /\ status[t] # "none"
      /\ \/ request[t] = "running" /\ job[t] = Gen!NoJob
         \/ /\ request[t] # "running" /\ job[t] # Gen!NoJob
            /\ job[t].place = "active" /\ r.attempt = job[t].made + 1
  BY RunKnown
<1>2. RunsOf(t)' = {s} /\ \A u : u # t => RunsOf(u)' = RunsOf(u)
  BY <1>1, RunMoves DEF TaskInv
<1>3. TaskTypes'
  BY DEF GenerationInv, TaskTypes, CallTypes, Gen!Replaced
<1>4. RunsAlone(t)'
  BY <1>1, <1>2 DEF RunsAlone
<1>5. JobIsOfTask(t)'
  BY <1>1 DEF TaskInv, JobIsOfTask
<1>6. t \notin disturbed => Undisturbed(t)'
  BY <1>1, <1>2 DEF TaskInv, Undisturbed
<1>7. \A u \in Tasks \ {t} : SameFor(u)
  BY <1>2 DEF SameFor, RecordsOfOthers
<1>8. RecoveryKnows(t)'
  BY <1>1 DEF TaskInv, RecoveryKnows
<1> QED BY <1>3, <1>4, <1>5, <1>6, <1>7, <1>8, OneTask DEF TaskInv

\* A run that ends gives its request or its job the outcome.
LEMMA Outcome ==
  ASSUME Gen!NestTasksAssumption, GenerationInv, NEW r \in runs, NEW thrown \in BOOLEAN, Gen!Finished(r, thrown)
  PROVE  /\ request' \in [Tasks -> RequestPlaces] /\ job' \in [Tasks -> JobSet] /\ runs' \subseteq RunSet
         /\ RunsOf(r.task)' = {} /\ \A u : u # r.task => RunsOf(u)' = RunsOf(u)
         /\ \A u \in Tasks \ {r.task} : request'[u] = request[u] /\ job'[u] = job[u]
         /\ \/ /\ request[r.task] = "running" /\ request'[r.task] \in {"answered", "abandoned"}
               /\ job'[r.task] = Gen!NoJob
            \/ /\ request[r.task] # "running" /\ request'[r.task] = request[r.task] /\ job[r.task] # Gen!NoJob
               /\ job'[r.task].place \in {"completed", "delayed", "failed"}
               /\ job'[r.task].place = "delayed" => job'[r.task].made < Attempts
               /\ ~thrown => job'[r.task].place = "completed"
<1> DEFINE t == r.task
<1>1. /\ r \in RunSet /\ t \in Tasks /\ TaskInv(t) /\ RunsOf(t) = {r}
      /\ \/ request[t] = "running" /\ job[t] = Gen!NoJob
         \/ /\ request[t] # "running" /\ job[t] # Gen!NoJob
            /\ job[t].place = "active" /\ r.attempt = job[t].made + 1
  BY RunKnown
<1>2. RunsOf(t)' = {} /\ (\A u : u # t => RunsOf(u)' = RunsOf(u)) /\ runs' \subseteq RunSet
  BY <1>1 DEF Gen!Finished, RunsOf, GenerationInv, TaskTypes, CallTypes
<1>3. request \in [Tasks -> RequestPlaces] /\ job \in [Tasks -> JobSet]
  BY DEF GenerationInv, TaskTypes, CallTypes
<1>4. CASE request[t] = "running"
  <2>1. PICK at \in {"abandoned", "answered"} : Gen!To(t, at)
    BY <1>4 DEF Gen!Finished
  <2>2. job' = job /\ at \in RequestPlaces
    BY <1>4 DEF Gen!Finished, RequestPlaces
  <2> QED BY <1>1, <1>2, <1>3, <1>4, <2>1, <2>2 DEF Gen!To
<1>5. CASE request[t] # "running"
  <2>1. PICK at \in {"completed", "delayed", "failed"} :
          /\ job' = [job EXCEPT ![t].made = @ + 1, ![t].place = at]
          /\ at = "delayed" => r.attempt < Attempts
          /\ ~thrown => at = "completed"
    BY <1>5 DEF Gen!Finished
  <2>2. request' = request
    BY <1>5 DEF Gen!Finished
  <2>3. job[t] \in JobSet /\ job[t].made < Attempts /\ at \in Gen!Places
    BY <1>1, <1>3, <1>5 DEF TaskInv, JobIsOfTask, Gen!Places
  <2> DEFINE n == job[t].made + 1
  <2> DEFINE j == [job[t] EXCEPT !.made = n, !.place = at]
  <2>4. Attempts \in Int
    BY DEF Gen!NestTasksAssumption
  <2>5. n \in 0..Attempts
    BY <2>3, <2>4 DEF JobSet
  <2>6. job' = [job EXCEPT ![t] = j]
    BY <2>1, <1>3, <1>1
  <2>8. r.attempt = n
    BY <1>1, <1>5
  <2> HIDE DEF n
  <2>9. j \in JobSet /\ j.place = at /\ j.made = n
    BY <2>3, <2>5 DEF JobSet
  <2> HIDE DEF j
  <2>7. job'[t] = j /\ job' \in [Tasks -> JobSet] /\ \A u \in Tasks \ {t} : job'[u] = job[u]
    BY <1>1, <1>3, <2>6, <2>9
  <2> QED BY <1>1, <1>2, <1>3, <1>5, <2>1, <2>2, <2>5, <2>7, <2>8, <2>9
<1> QED BY <1>4, <1>5

LEMMA RunEnds ==
  ASSUME Gen!NestTasksAssumption, GenerationInv, NEW r \in runs, NEW thrown \in BOOLEAN, Gen!Finished(r, thrown),
         disturbed' = disturbed, recovering' = recovering,
         RecordTypes', gateway' \in GatewaySet, BoundTypes', RecordsOfOthers(r.task),
         status'[r.task] # "none", usage'[r.task] = "none" => images'[r.task] = 0,
         r.task \notin disturbed => Accounted(r.task)' /\ (thrown => Underway(r.task)')
  PROVE  GenerationInv'
<1> DEFINE t == r.task
<1>1. t \in Tasks /\ TaskInv(t) /\ status[t] # "none"
  BY RunKnown
<1>2. /\ request' \in [Tasks -> RequestPlaces] /\ job' \in [Tasks -> JobSet] /\ runs' \subseteq RunSet
      /\ RunsOf(t)' = {} /\ \A u : u # t => RunsOf(u)' = RunsOf(u)
      /\ \A u \in Tasks \ {t} : request'[u] = request[u] /\ job'[u] = job[u]
      /\ \/ request[t] = "running" /\ request'[t] \in {"answered", "abandoned"} /\ job'[t] = Gen!NoJob
         \/ /\ request[t] # "running" /\ request'[t] = request[t] /\ job[t] # Gen!NoJob
            /\ job'[t].place \in {"completed", "delayed", "failed"}
            /\ job'[t].place = "delayed" => job'[t].made < Attempts
            /\ ~thrown => job'[t].place = "completed"
  BY Outcome
<1>3. TaskTypes'
  BY <1>2 DEF TaskTypes, CallTypes, GenerationInv
<1>4. RunsAlone(t)'
  BY <1>2 DEF RunsAlone
<1>5. JobIsOfTask(t)'
  BY <1>1, <1>2 DEF TaskInv, JobIsOfTask, Gen!NoJob
<1>6. t \notin disturbed => Undisturbed(t)'
  <2>1. request[t] = "running" => recovering[t] = "no"
    BY <1>1 DEF TaskInv, RecoveryKnows
  <2>2. recovering[t] = "processing" /\ ~thrown => job'[t].place = "completed"
    BY <1>2, <2>1
  <2> QED BY <1>1, <1>2, <2>2 DEF TaskInv, JobIsOfTask, Undisturbed
<1>7. \A u \in Tasks \ {t} : SameFor(u)
  BY <1>2 DEF SameFor, RecordsOfOthers
<1>8. RecoveryKnows(t)'
  BY <1>1, <1>2 DEF TaskInv, RecoveryKnows
<1> QED BY <1>3, <1>4, <1>5, <1>6, <1>7, <1>8, OneTask DEF TaskInv

\* The records are what they were.
LEMMA RecordsStay ==
  ASSUME GenerationInv, NEW t \in Tasks, Gen!records' = Gen!records, status[t] # "none", ~Gen!Stranded(t)
  PROVE  /\ RecordTypes' /\ RecordsOfOthers(t) /\ status'[t] # "none"
         /\ usage'[t] = "none" => images'[t] = 0
         /\ t \notin disturbed => Accounted(t)'
<1>1. UNCHANGED <<status, images, usage, wallet, refunded>>
  BY DEF Gen!records
<1>2. TaskInv(t)
  BY DEF GenerationInv
<1>3. RecordTypes' /\ RecordsOfOthers(t)
  BY <1>1 DEF GenerationInv, TaskTypes, RecordTypes, RecordsOfOthers
<1>4. usage'[t] = "none" => images'[t] = 0
  BY <1>1, <1>2 DEF TaskInv, JobIsOfTask
<1>5. t \notin disturbed => Accounted(t)'
  BY <1>1, <1>2 DEF TaskInv, Undisturbed, Accounted, Underway, Gen!Worth
<1> QED BY <1>1, <1>3, <1>4, <1>5

\* What an action that leaves bounds and gateway alone keeps.
LEMMA BoundsStay ==
  ASSUME GenerationInv, Gen!bounds' = Gen!bounds
  PROVE  BoundTypes'
BY DEF Gen!bounds, GenerationInv, BoundTypes

LEMMA ReadTaskStep ==
  ASSUME Gen!NestTasksAssumption, GenerationInv, NEW r \in runs, Gen!Read(r)
  PROVE  GenerationInv'
<1>0. UNCHANGED <<gateway, disturbed, recovering>> /\ Gen!bounds' = Gen!bounds
  BY DEF Gen!Read
<1>0a. gateway \in GatewaySet /\ gateway.failures \in Nat
  BY DEF GenerationInv, TaskTypes, CallTypes, GatewaySet
<1>1. /\ r \in RunSet /\ r.task \in Tasks /\ status[r.task] # "none" /\ TaskInv(r.task) /\ ~Gen!Stranded(r.task)
      /\ gateway' \in GatewaySet /\ gateway.failures \in Nat /\ UNCHANGED <<disturbed, recovering>> /\ BoundTypes'
  BY <1>0, <1>0a, RunKnown, BoundsStay
<1>2. /\ RecordTypes' /\ RecordsOfOthers(r.task) /\ status'[r.task] # "none"
      /\ usage'[r.task] = "none" => images'[r.task] = 0
      /\ r.task \notin disturbed => Accounted(r.task)'
  BY <1>1, RecordsStay DEF Gen!Read
<1>3. CASE status[r.task] \in Gen!Settled
  <2>1. Gen!Finished(r, FALSE)
    BY <1>3 DEF Gen!Read
  <2> QED BY <1>1, <1>2, <2>1, RunEnds
<1>4. CASE status[r.task] \notin Gen!Settled
  <2>1. PICK at \in {"claim", "failing"} :
          Gen!Replaced(r, [r EXCEPT !.stage = at, !.failures = gateway.failures])
    BY <1>4 DEF Gen!Read
  <2> DEFINE s == [r EXCEPT !.stage = at, !.failures = gateway.failures]
  <2>2. s \in RunSet /\ s.task = r.task /\ s.attempt = r.attempt /\ s.stage \notin {"start", "refund"}
    BY <1>1 DEF RunSet
  <2>3. UNCHANGED <<request, job, status>>
    BY <1>4 DEF Gen!Read, Gen!records
  <2>4. status'[r.task] \in {"queued", "processing"}
    BY <1>1, <1>4, <2>3 DEF Gen!Settled, GenerationInv, TaskTypes, RecordTypes
  <2> HIDE DEF s
  <2>5. Gen!Replaced(r, s)
    BY <2>1 DEF s
  <2>6. Underway(r.task)'
    BY <2>4 DEF Underway
  <2> QED BY <1>1, <1>2, <2>2, <2>3, <2>5, <2>6, RunGoesOn
<1> QED BY <1>3, <1>4

\* A run that goes on and leaves the records alone.
LEMMA StageStep ==
  ASSUME GenerationInv, NEW r \in runs, NEW s \in RunSet, s.task = r.task, s.attempt = r.attempt,
         Gen!Replaced(r, s), Gen!records' = Gen!records, UNCHANGED <<request, job, recovering, disturbed>>,
         gateway' \in GatewaySet, BoundTypes',
         r.stage # "start", s.stage # "start", r.task \notin disturbed /\ s.stage = "refund" => ~s.refunded
  PROVE  GenerationInv'
<1>1. /\ r.task \in Tasks /\ status[r.task] # "none" /\ TaskInv(r.task) /\ RunsOf(r.task) = {r}
      /\ ~Gen!Stranded(r.task)
  BY RunKnown
<1>2. /\ RecordTypes' /\ RecordsOfOthers(r.task) /\ status'[r.task] # "none"
      /\ usage'[r.task] = "none" => images'[r.task] = 0
      /\ r.task \notin disturbed => Accounted(r.task)'
  BY <1>1, RecordsStay
<1>3. r.task \notin disturbed => Underway(r.task)'
  BY <1>1 DEF TaskInv, Undisturbed, Underway, Gen!records
<1> QED BY <1>1, <1>2, <1>3, RunGoesOn

LEMMA CallFailsStep ==
  ASSUME Gen!NestTasksAssumption, GenerationInv, NEW r \in runs, Gen!CallFails(r)
  PROVE  GenerationInv'
<1> DEFINE s == [r EXCEPT !.stage = "error"]
<1>1. s \in RunSet /\ s.task = r.task /\ s.attempt = r.attempt /\ s.stage = "error"
  BY RunKnown DEF RunSet
<1>2. BoundTypes'
  BY DEF Gen!CallFails, GenerationInv, BoundTypes, Gen!NestTasksAssumption
<1>3. /\ Gen!Replaced(r, s) /\ Gen!records' = Gen!records /\ UNCHANGED <<request, job, recovering, disturbed>>
      /\ gateway' \in GatewaySet /\ r.stage # "start"
  BY DEF Gen!CallFails, GenerationInv, TaskTypes, CallTypes
<1> HIDE DEF s
<1> QED BY <1>1, <1>2, <1>3, StageStep

LEMMA RunLooksStep ==
  ASSUME GenerationInv, NEW r \in runs, Gen!RunLooksForRefund(r)
  PROVE  GenerationInv'
<1> DEFINE s == [r EXCEPT !.stage = "refund", !.refunded = refunded[r.task]]
<1>1. r \in RunSet /\ TaskInv(r.task) /\ RunsOf(r.task) = {r} /\ r.task \in Tasks /\ ~Gen!Stranded(r.task)
  BY RunKnown
<1>2. refunded[r.task] \in BOOLEAN
  BY <1>1 DEF GenerationInv, TaskTypes, RecordTypes
<1>3. /\ s \in RunSet /\ s.task = r.task /\ s.attempt = r.attempt /\ (s.refunded <=> refunded[r.task])
      /\ s.stage # "start"
  BY <1>1, <1>2 DEF RunSet
<1>4. r.task \notin disturbed => ~refunded[r.task]
  BY <1>1 DEF TaskInv, Undisturbed, Accounted, Gen!RunLooksForRefund
<1>5. /\ Gen!Replaced(r, s) /\ Gen!records' = Gen!records /\ UNCHANGED <<request, job, recovering, disturbed>>
      /\ gateway' \in GatewaySet /\ r.stage # "start" /\ BoundTypes'
  BY BoundsStay DEF Gen!RunLooksForRefund, GenerationInv, TaskTypes, CallTypes
<1> HIDE DEF s
<1> QED BY <1>3, <1>4, <1>5, StageStep

\* A failure counts on from the number that was read with the task.
LEMMA RecordFailureStep ==
  ASSUME Gen!NestTasksAssumption, GenerationInv, NEW r \in runs, Gen!RecordFailure(r)
  PROVE  GenerationInv'
<1>1. /\ r \in RunSet /\ r.task \in Tasks /\ status[r.task] # "none" /\ gateway \in GatewaySet
      /\ ~Gen!Stranded(r.task) /\ TaskInv(r.task) /\ RunsOf(r.task) = {r}
      /\ UNCHANGED <<disturbed, recovering>> /\ BoundTypes' /\ Gen!records' = Gen!records
  BY RunKnown, BoundsStay DEF Gen!RecordFailure, GenerationInv, TaskTypes, CallTypes
<1>2. CASE gateway.exists
  <2>1. PICK at \in {"retry", "failing"} : Gen!Replaced(r, [r EXCEPT !.stage = at])
    BY <1>2 DEF Gen!RecordFailure
  <2> DEFINE s == [r EXCEPT !.stage = at]
  <2>2. s \in RunSet /\ s.task = r.task /\ s.attempt = r.attempt /\ s.stage \notin {"start", "refund"}
    BY <1>1 DEF RunSet
  <2>3. r.failures + 1 \in Nat
    BY <1>1 DEF RunSet
  <2> DEFINE cooling == r.failures + 1 >= Threshold
  <2>4. gateway' = [gateway EXCEPT !.failures = r.failures + 1, !.cooling = cooling] /\ cooling \in BOOLEAN
    BY <1>2 DEF Gen!RecordFailure
  <2> HIDE DEF cooling
  <2>4a. gateway' \in GatewaySet
    BY <1>1, <2>3, <2>4 DEF GatewaySet
  <2>5. UNCHANGED <<request, job>> /\ r.stage # "start"
    BY <1>2 DEF Gen!RecordFailure
  <2> HIDE DEF s
  <2>6. Gen!Replaced(r, s)
    BY <2>1 DEF s
  <2> QED BY <1>1, <2>2, <2>4a, <2>5, <2>6, StageStep
<1>3. CASE ~gateway.exists
  <2>1. Gen!Finished(r, TRUE) /\ gateway' \in GatewaySet
    BY <1>1, <1>3 DEF Gen!RecordFailure
  <2>2. /\ RecordTypes' /\ RecordsOfOthers(r.task) /\ status'[r.task] # "none"
        /\ usage'[r.task] = "none" => images'[r.task] = 0
        /\ r.task \notin disturbed => Accounted(r.task)'
    BY <1>1, RecordsStay
  <2>3. r.task \notin disturbed => Underway(r.task)'
    BY <1>1 DEF TaskInv, Undisturbed, Underway, Gen!records, Gen!RecordFailure
  <2> QED BY <1>1, <2>1, <2>2, <2>3, RunEnds
<1> QED BY <1>2, <1>3

\* A change of the status of a task that stays on its way.
LEMMA StatusMoves ==
  ASSUME GenerationInv, NEW t \in Tasks, NEW st \in {"queued", "processing"},
         status' = [status EXCEPT ![t] = st], UNCHANGED <<images, usage, wallet, refunded>>,
         t \notin disturbed => Underway(t), ~Gen!Stranded(t)
  PROVE  /\ RecordTypes' /\ RecordsOfOthers(t) /\ status'[t] # "none"
         /\ usage'[t] = "none" => images'[t] = 0
         /\ t \notin disturbed => Accounted(t)' /\ Underway(t)'
<1>1. TaskInv(t)
  BY DEF GenerationInv
<1>2. status \in [Tasks -> {"none", "queued", "processing", "success", "failed"}]
  BY DEF GenerationInv, TaskTypes, RecordTypes
<1>3. status'[t] = st /\ \A s \in Tasks \ {t} : status'[s] = status[s]
  BY <1>2
<1>4. RecordTypes'
  BY <1>2 DEF GenerationInv, TaskTypes, RecordTypes
<1>5. usage'[t] = "none" => images'[t] = 0
  BY <1>1 DEF TaskInv, JobIsOfTask
<1>6. t \notin disturbed => Accounted(t)' /\ Underway(t)'
  BY <1>1, <1>3 DEF TaskInv, Undisturbed, Accounted, Underway, Gen!Worth
<1> QED BY <1>3, <1>4, <1>5, <1>6 DEF RecordsOfOthers

LEMMA ClaimStep ==
  ASSUME Gen!NestTasksAssumption, GenerationInv, NEW r \in runs, Gen!Claim(r)
  PROVE  GenerationInv'
<1>1. r \in RunSet /\ r.task \in Tasks /\ status[r.task] # "none" /\ ~Gen!Stranded(r.task)
  BY RunKnown
<1>2. /\ gateway' \in GatewaySet /\ UNCHANGED <<disturbed, recovering>> /\ Gen!bounds' = Gen!bounds
      /\ r.stage = "claim"
  BY DEF Gen!Claim, GenerationInv, TaskTypes, CallTypes
<1>3. BoundTypes'
  BY <1>2, BoundsStay
<1>4. CASE Gen!Claimable(r.task)
  <2> DEFINE s == [r EXCEPT !.stage = "calling"]
  <2>1. s \in RunSet /\ s.task = r.task /\ s.attempt = r.attempt /\ s.stage = "calling"
    BY <1>1 DEF RunSet
  <2>2. Gen!Replaced(r, s) /\ UNCHANGED <<request, job>>
    BY <1>4 DEF Gen!Claim
  <2>3. /\ status' = [status EXCEPT ![r.task] = "processing"]
        /\ UNCHANGED <<images, usage, wallet, refunded>> /\ Underway(r.task)
    BY <1>4 DEF Gen!Claim, Gen!Claimable, Underway
  <2> HIDE DEF s
  <2>4. /\ RecordTypes' /\ RecordsOfOthers(r.task) /\ status'[r.task] # "none"
        /\ usage'[r.task] = "none" => images'[r.task] = 0
        /\ r.task \notin disturbed => Accounted(r.task)' /\ Underway(r.task)'
    BY <1>1, <2>3, StatusMoves
  <2> QED BY <1>2, <1>3, <2>1, <2>2, <2>4, RunGoesOn
<1>5. CASE ~Gen!Claimable(r.task)
  <2>1. Gen!Finished(r, FALSE) /\ Gen!records' = Gen!records
    BY <1>5 DEF Gen!Claim, Gen!records
  <2>2. /\ RecordTypes' /\ RecordsOfOthers(r.task) /\ status'[r.task] # "none"
        /\ usage'[r.task] = "none" => images'[r.task] = 0
        /\ r.task \notin disturbed => Accounted(r.task)'
    BY <1>1, <2>1, RecordsStay
  <2> QED BY <1>2, <1>3, <2>1, <2>2, RunEnds
<1> QED BY <1>4, <1>5

LEMMA RetryStep ==
  ASSUME Gen!NestTasksAssumption, GenerationInv, NEW r \in runs, Gen!Retry(r)
  PROVE  GenerationInv'
<1>1. r.task \in Tasks /\ TaskInv(r.task) /\ RunsOf(r.task) = {r} /\ ~Gen!Stranded(r.task)
  BY RunKnown
<1>2. /\ gateway' \in GatewaySet /\ UNCHANGED <<disturbed, recovering>> /\ Gen!bounds' = Gen!bounds /\ r.stage = "retry"
      /\ Gen!Finished(r, TRUE)
  BY DEF Gen!Retry, GenerationInv, TaskTypes, CallTypes
<1>3. BoundTypes'
  BY <1>2, BoundsStay
<1>4. r.task \notin disturbed => Underway(r.task)
  BY <1>1, <1>2 DEF TaskInv, Undisturbed
<1>5. status' = [status EXCEPT ![r.task] = "queued"] /\ UNCHANGED <<images, usage, wallet, refunded>>
  BY DEF Gen!Retry
<1>6. /\ RecordTypes' /\ RecordsOfOthers(r.task) /\ status'[r.task] # "none"
      /\ usage'[r.task] = "none" => images'[r.task] = 0
      /\ r.task \notin disturbed => Accounted(r.task)' /\ Underway(r.task)'
  BY <1>1, <1>4, <1>5, StatusMoves
<1> QED BY <1>2, <1>3, <1>6, RunEnds

-----------------------------------------------------------------------------
(* The two ends of a task *)

\* failTask gives back what a task that is not settled has cost.
LEMMA TaskFails ==
  ASSUME Gen!NestTasksAssumption, GenerationInv, NEW t \in Tasks, NEW existing \in BOOLEAN,
         Gen!FailTask(t, existing), t \notin disturbed => ~existing /\ Underway(t) /\ ~Gen!Stranded(t)
  PROVE  /\ RecordTypes' /\ RecordsOfOthers(t) /\ status'[t] = "failed" /\ usage'[t] = "failed"
         /\ t \notin disturbed => Accounted(t)'
<1>1. TaskInv(t)
  BY DEF GenerationInv
<1>2. /\ status \in [Tasks -> {"none", "queued", "processing", "success", "failed"}]
      /\ images \in [Tasks -> 0..(Count + 1)]
      /\ usage \in [Tasks -> {"none", "success", "failed"}]
      /\ wallet \in [of : [Tasks -> Int], rest : Int] /\ refunded \in [Tasks -> BOOLEAN]
  BY DEF GenerationInv, TaskTypes, RecordTypes
<1>3. /\ status' = [status EXCEPT ![t] = "failed"] /\ usage' = [usage EXCEPT ![t] = "failed"]
      /\ images' = images
  BY DEF Gen!FailTask
<1>4. Gen!Cost \in Int
  BY Prices
<1>5. /\ wallet' \in [of : [Tasks -> Int], rest : Int] /\ refunded' \in [Tasks -> BOOLEAN]
      /\ wallet'.of[t] = IF existing THEN wallet.of[t] ELSE wallet.of[t] + Gen!Cost
      /\ \A s \in Tasks \ {t} : wallet'.of[s] = wallet.of[s] /\ refunded'[s] = refunded[s]
  <2>1. CASE existing
    BY <1>2, <2>1 DEF Gen!FailTask
  <2>2. CASE ~existing
    <3>1. Gen!Entry(t, Gen!Cost) /\ refunded' = [refunded EXCEPT ![t] = TRUE]
      BY <2>2 DEF Gen!FailTask
    <3>2. /\ wallet' \in [of : [Tasks -> Int], rest : Int] /\ wallet'.of[t] = wallet.of[t] + Gen!Cost
          /\ \A s \in Tasks \ {t} : wallet'.of[s] = wallet.of[s]
      BY <1>2, <1>4, <3>1, EntryMade
    <3>3. refunded' \in [Tasks -> BOOLEAN] /\ \A s \in Tasks \ {t} : refunded'[s] = refunded[s]
      BY <1>2, <3>1
    <3> QED BY <2>2, <3>2, <3>3
  <2> QED BY <2>1, <2>2
<1>6. /\ status'[t] = "failed" /\ usage'[t] = "failed"
      /\ \A s \in Tasks \ {t} : status'[s] = status[s] /\ usage'[s] = usage[s] /\ images'[s] = images[s]
  BY <1>2, <1>3
<1>7. RecordTypes'
  BY <1>2, <1>3, <1>5 DEF RecordTypes
<1>8. ASSUME t \notin disturbed
      PROVE  Accounted(t)'
  <2>1. Underway(t) /\ ~existing /\ wallet.of[t] = Gen!Worth(t) /\ usage[t] = "none"
    BY <1>1, <1>8 DEF TaskInv, Undisturbed, Accounted
  <2>2. wallet.of[t] = -Gen!Cost /\ images[t] = 0
    BY <1>1, <2>1 DEF Underway, Gen!Worth, TaskInv, JobIsOfTask
  <2>3. wallet'.of[t] = 0
    BY <1>4, <1>5, <2>1, <2>2
  <2>4. Gen!Worth(t)' = 0
    BY <1>6 DEF Gen!Worth
  <2> QED BY <1>3, <1>6, <2>2, <2>3, <2>4 DEF Accounted, Underway
<1> QED BY <1>5, <1>6, <1>7, <1>8 DEF RecordsOfOthers

LEMMA RunFailsStep ==
  ASSUME Gen!NestTasksAssumption, GenerationInv, NEW r \in runs, Gen!RunFails(r)
  PROVE  GenerationInv'
<1>1. r \in RunSet /\ r.task \in Tasks /\ TaskInv(r.task) /\ RunsOf(r.task) = {r} /\ ~Gen!Stranded(r.task)
  BY RunKnown
<1>2. /\ gateway' \in GatewaySet /\ UNCHANGED <<disturbed, recovering>> /\ Gen!bounds' = Gen!bounds /\ r.stage = "refund"
      /\ Gen!Finished(r, FALSE) /\ Gen!FailTask(r.task, r.refunded)
  BY DEF Gen!RunFails, GenerationInv, TaskTypes, CallTypes
<1>3. BoundTypes'
  BY <1>2, BoundsStay
<1>4. r.task \notin disturbed => ~r.refunded /\ Underway(r.task)
  BY <1>1, <1>2 DEF TaskInv, Undisturbed
<1>5. r.refunded \in BOOLEAN
  BY <1>1 DEF RunSet
<1>6. /\ RecordTypes' /\ RecordsOfOthers(r.task) /\ status'[r.task] = "failed" /\ usage'[r.task] = "failed"
      /\ r.task \notin disturbed => Accounted(r.task)'
  BY <1>1, <1>2, <1>4, <1>5, TaskFails
<1> QED BY <1>2, <1>3, <1>6, RunEnds

\* A success: its images are recorded once, and the rest of the hold given back.
LEMMA TaskSucceeds ==
  ASSUME Gen!NestTasksAssumption, GenerationInv, NEW r \in runs, NEW n \in Gen!Answers,
         Gen!Complete(r, n), usage[r.task] = "none", gateway.exists
  PROVE  /\ RecordTypes' /\ RecordsOfOthers(r.task) /\ status'[r.task] = "success" /\ usage'[r.task] = "success"
         /\ r.task \notin disturbed => Accounted(r.task)'
<1> DEFINE t == r.task
           rest == Gen!Shortfall(n) * UnitCost
<1>1. t \in Tasks /\ TaskInv(t) /\ RunsOf(t) = {r} /\ ~Gen!Stranded(t)
  BY RunKnown
<1>2. /\ status \in [Tasks -> {"none", "queued", "processing", "success", "failed"}]
      /\ images \in [Tasks -> 0..(Count + 1)]
      /\ usage \in [Tasks -> {"none", "success", "failed"}]
      /\ wallet \in [of : [Tasks -> Int], rest : Int] /\ refunded \in [Tasks -> BOOLEAN]
  BY DEF GenerationInv, TaskTypes, RecordTypes
<1>3. r.stage = "calling" /\ Gen!Entry(t, rest)
  BY DEF Gen!Complete
<1>4. /\ images' = [images EXCEPT ![t] = @ + n]
      /\ refunded' = [refunded EXCEPT ![t] = @ \/ n < Count]
      /\ usage' = [usage EXCEPT ![t] = "success"]
      /\ status' = [status EXCEPT ![t] = "success"]
  BY DEF Gen!Complete
<1>5. Count \in Nat /\ n \in Nat /\ n > 0 /\ n \in 0..(Count + 1)
  BY DEF Gen!Answers, Gen!NestTasksAssumption
<1>6. Gen!Cost \in Int /\ rest \in Int /\ rest - Gen!Cost = -((IF n < Count THEN n ELSE Count) * UnitCost)
  BY <1>5, Prices
<1> HIDE DEF rest
<1>7. /\ wallet' \in [of : [Tasks -> Int], rest : Int] /\ wallet'.of[t] = wallet.of[t] + rest
      /\ \A s \in Tasks \ {t} : wallet'.of[s] = wallet.of[s]
  BY <1>1, <1>2, <1>3, <1>6, EntryMade
<1>8. images[t] = 0
  BY <1>1 DEF TaskInv, JobIsOfTask
<1>9. images'[t] = n /\ images' \in [Tasks -> 0..(Count + 1)] /\ \A s \in Tasks \ {t} : images'[s] = images[s]
  BY <1>1, <1>2, <1>4, <1>5, <1>8
<1>10. refunded' \in [Tasks -> BOOLEAN] /\ \A s \in Tasks \ {t} : refunded'[s] = refunded[s]
  <2> DEFINE b == refunded[t] \/ n < Count
  <2>1. b \in BOOLEAN /\ refunded' = [refunded EXCEPT ![t] = b]
    BY <1>4
  <2> HIDE DEF b
  <2> QED BY <1>1, <1>2, <2>1
<1>11. /\ status'[t] = "success" /\ usage'[t] = "success"
       /\ \A s \in Tasks \ {t} : status'[s] = status[s] /\ usage'[s] = usage[s]
  BY <1>1, <1>2, <1>4
<1>12. RecordTypes'
  BY <1>2, <1>4, <1>7, <1>9, <1>10 DEF RecordTypes
<1>13. ASSUME t \notin disturbed
       PROVE  Accounted(t)'
  <2>1. Underway(t) /\ wallet.of[t] = Gen!Worth(t)
    BY <1>1, <1>3, <1>13 DEF TaskInv, Undisturbed, Accounted
  <2>2. wallet.of[t] = -Gen!Cost
    BY <2>1 DEF Underway, Gen!Worth
  <2>3. wallet'.of[t] = rest - Gen!Cost
    BY <1>6, <1>7, <2>2
  <2>4. Gen!Worth(t)' = -((IF n < Count THEN n ELSE Count) * UnitCost)
    BY <1>9, <1>11 DEF Gen!Worth
  <2>5. wallet'.of[t] = Gen!Worth(t)'
    BY <1>6, <2>3, <2>4
  <2> QED BY <1>5, <1>9, <1>11, <2>5 DEF Accounted, Underway
<1> QED BY <1>7, <1>9, <1>10, <1>11, <1>12, <1>13 DEF RecordsOfOthers

LEMMA CompleteStep ==
  ASSUME Gen!NestTasksAssumption, GenerationInv, NEW r \in runs, NEW n \in Gen!Answers, Gen!Complete(r, n)
  PROVE  GenerationInv'
<1>1. /\ UNCHANGED <<disturbed, recovering>> /\ Gen!bounds' = Gen!bounds /\ r.stage = "calling" /\ gateway \in GatewaySet
  BY DEF Gen!Complete, GenerationInv, TaskTypes, CallTypes
<1>2. BoundTypes'
  BY <1>1, BoundsStay
<1>3. CASE usage[r.task] = "none" /\ gateway.exists
  <2>1. /\ RecordTypes' /\ RecordsOfOthers(r.task) /\ status'[r.task] = "success" /\ usage'[r.task] = "success"
        /\ r.task \notin disturbed => Accounted(r.task)'
    BY <1>3, TaskSucceeds
  <2>2. Gen!Finished(r, FALSE) /\ gateway' = [gateway EXCEPT !.failures = 0, !.cooling = FALSE]
    BY <1>3 DEF Gen!Complete
  <2>3. gateway' \in GatewaySet
    BY <1>1, <2>2 DEF GatewaySet
  <2> QED BY <1>1, <1>2, <2>1, <2>2, <2>3, RunEnds
<1>4. CASE ~(usage[r.task] = "none" /\ gateway.exists)
  <2> DEFINE s == [r EXCEPT !.stage = "error"]
  <2>1. s \in RunSet /\ s.task = r.task /\ s.attempt = r.attempt /\ s.stage = "error"
    BY RunKnown DEF RunSet
  <2>2. Gen!Replaced(r, s) /\ Gen!records' = Gen!records /\ UNCHANGED <<request, job, gateway>>
    BY <1>4 DEF Gen!Complete
  <2> HIDE DEF s
  <2> QED BY <1>1, <1>2, <2>1, <2>2, StageStep
<1> QED BY <1>3, <1>4

-----------------------------------------------------------------------------
(* The requests that write records or jobs *)

LEMMA RequestFailsStep ==
  ASSUME Gen!NestTasksAssumption, GenerationInv, NEW t \in Tasks, Gen!RequestFails(t)
  PROVE  GenerationInv'
<1>1. /\ request[t] \in {"refunding", "refunded"} /\ Gen!To(t, "refused") /\ "refused" \in RequestPlaces
      /\ UNCHANGED <<job, runs, recovering, disturbed, gateway>> /\ Gen!bounds' = Gen!bounds
  BY DEF Gen!RequestFails, RequestPlaces
<1>2. PICK existing \in BOOLEAN : Gen!FailTask(t, existing) /\ (existing <=> request[t] = "refunded")
  BY DEF Gen!RequestFails
<1>3. TaskInv(t) /\ request \in [Tasks -> RequestPlaces]
  BY DEF GenerationInv, TaskTypes, CallTypes
<1>4. t \notin disturbed => ~existing /\ Underway(t) /\ job[t] = Gen!NoJob
  BY <1>1, <1>2, <1>3 DEF TaskInv, Undisturbed, Underway
<1>4a. t \notin disturbed => ~Gen!Stranded(t)
  BY <1>4 DEF Gen!Stranded, Gen!NoJob
<1>4b. recovering[t] = "no"
  BY <1>1, NotRecovering
<1>5. /\ RecordTypes' /\ RecordsOfOthers(t) /\ status'[t] = "failed" /\ usage'[t] = "failed"
      /\ t \notin disturbed => Accounted(t)'
  BY <1>2, <1>4, <1>4a, TaskFails
<1>6. request' \in [Tasks -> RequestPlaces] /\ request'[t] = "refused" /\ \A s \in Tasks \ {t} : request'[s] = request[s]
  BY <1>1, RequestMoves DEF GenerationInv, TaskTypes
<1>7. \A s : RunsOf(s)' = RunsOf(s)
  BY <1>1 DEF RunsOf
<1>8. TaskTypes' /\ BoundTypes'
  BY <1>1, <1>5, <1>6, BoundsStay DEF GenerationInv, TaskTypes, CallTypes
<1>9. RunsAlone(t)'
  BY <1>1, <1>3, <1>5, <1>6, <1>7 DEF TaskInv, RunsAlone
<1>10. JobIsOfTask(t)'
  BY <1>1, <1>3, <1>5, <1>6 DEF TaskInv, JobIsOfTask
<1>11. t \notin disturbed => Undisturbed(t)'
  <2>1. t \notin disturbed => RunsOf(t) = {}
    BY <1>1, <1>3, <1>4 DEF TaskInv, RunsAlone, Gen!NoJob
  <2> QED BY <1>1, <1>4b, <1>5, <1>6, <1>7, <2>1 DEF Undisturbed
<1>12. \A s \in Tasks \ {t} : SameFor(s)
  BY <1>1, <1>5, <1>6, <1>7 DEF SameFor, RecordsOfOthers
<1>13. RecoveryKnows(t)'
  BY <1>1, <1>4b DEF RecoveryKnows
<1> QED BY <1>1, <1>8, <1>9, <1>10, <1>11, <1>12, <1>13, OneTask DEF TaskInv

LEMMA CreateTaskStep ==
  ASSUME Gen!NestTasksAssumption, GenerationInv, NEW t \in Tasks, Gen!CreateTask(t)
  PROVE  GenerationInv'
<1>1. /\ request[t] = "checked" /\ Gen!bounds' = Gen!bounds
      /\ UNCHANGED <<images, usage, refunded, job, runs, recovering, disturbed, gateway>>
  BY DEF Gen!CreateTask
<1>2. BoundTypes'
  BY <1>1, BoundsStay
<1>3. TaskInv(t) /\ request \in [Tasks -> RequestPlaces]
  BY DEF GenerationInv, TaskTypes, CallTypes
<1>4. status[t] = "none" /\ job[t] = Gen!NoJob /\ usage[t] = "none" /\ RunsOf(t) = {}
  BY <1>1, <1>3 DEF TaskInv, JobIsOfTask, RunsAlone
<1>5. \A s : RunsOf(s)' = RunsOf(s)
  BY <1>1 DEF RunsOf
<1>5a. recovering[t] = "no"
  BY <1>1, NotRecovering
<1>6. CASE gateway.exists
  <2>1. Gen!Entry(t, -Gen!Cost) /\ Gen!To(t, "created") /\ status' = [status EXCEPT ![t] = "queued"]
    BY <1>6 DEF Gen!CreateTask
  <2>2. Gen!Cost \in Int /\ -Gen!Cost \in Int
    BY Prices
  <2>3. /\ status \in [Tasks -> {"none", "queued", "processing", "success", "failed"}]
        /\ wallet \in [of : [Tasks -> Int], rest : Int]
    BY DEF GenerationInv, TaskTypes, RecordTypes
  <2>4. /\ wallet' \in [of : [Tasks -> Int], rest : Int] /\ wallet'.of[t] = wallet.of[t] + (-Gen!Cost)
        /\ \A s \in Tasks \ {t} : wallet'.of[s] = wallet.of[s]
    BY <2>1, <2>2, <2>3, EntryMade
  <2>5. status'[t] = "queued" /\ \A s \in Tasks \ {t} : status'[s] = status[s]
    BY <2>1, <2>3
  <2>6. RecordTypes'
    BY <1>1, <2>1, <2>3, <2>4 DEF GenerationInv, TaskTypes, RecordTypes
  <2>7. "created" \in RequestPlaces
    BY DEF RequestPlaces
  <2>8. /\ request' \in [Tasks -> RequestPlaces] /\ request'[t] = "created"
        /\ \A s \in Tasks \ {t} : request'[s] = request[s]
    BY <2>1, <2>7, RequestMoves DEF GenerationInv, TaskTypes
  <2>9. TaskTypes'
    BY <1>1, <2>6, <2>8 DEF GenerationInv, TaskTypes, CallTypes
  <2>10. RunsAlone(t)'
    BY <1>4, <1>5 DEF RunsAlone
  <2>11. JobIsOfTask(t)'
    BY <1>1, <1>3, <1>4, <2>5, <2>8 DEF TaskInv, JobIsOfTask, Gen!NoJob
  <2>12. ASSUME t \notin disturbed
         PROVE  Undisturbed(t)'
    <3>1. Accounted(t) /\ wallet.of[t] = 0
      BY <1>3, <1>4, <2>12 DEF TaskInv, Undisturbed, Accounted, Gen!Worth, Gen!Stranded
    <3>2. wallet'.of[t] = -Gen!Cost
      BY <2>2, <2>4, <3>1
    <3>3. Accounted(t)'
      BY <1>1, <1>4, <2>5, <3>1, <3>2 DEF Accounted, Underway, Gen!Worth
    <3> QED BY <1>1, <1>4, <1>5, <1>5a, <2>5, <2>8, <3>3 DEF Undisturbed
  <2>13. \A s \in Tasks \ {t} : SameFor(s)
    BY <1>1, <1>5, <2>4, <2>5, <2>8 DEF SameFor
  <2>14. RecoveryKnows(t)'
    BY <1>1, <1>5a DEF RecoveryKnows
  <2> QED BY <1>1, <1>2, <2>9, <2>10, <2>11, <2>12, <2>13, <2>14, OneTask DEF TaskInv
<1>7. CASE ~gateway.exists
  <2>1. UNCHANGED <<status, wallet>> /\ Gen!To(t, "refused") /\ "refused" \in RequestPlaces
    BY <1>7 DEF Gen!CreateTask, RequestPlaces
  <2>2. TaskInv(t)'
    BY <1>1, <1>5a, <2>1, TaskMoves
  <2> QED BY <1>1, <1>2, <2>1, <2>2, RequestOnly
<1> QED BY <1>6, <1>7

-----------------------------------------------------------------------------
(* The jobs of the queue *)

\* A step of one task that leaves its records alone.
LEMMA JobMoves ==
  ASSUME GenerationInv, NEW t \in Tasks, NEW j \in JobSet, NEW at \in RequestPlaces,
         job' = [job EXCEPT ![t] = j], request' = [request EXCEPT ![t] = at],
         UNCHANGED <<status, images, usage, wallet, refunded>>,
         gateway' \in GatewaySet, BoundTypes', disturbed \subseteq disturbed',
         runs' \subseteq RunSet, \A s \in Tasks \ {t} : RunsOf(s)' = RunsOf(s),
         recovering' \in [Tasks -> RecoverySet], \A s \in Tasks \ {t} : recovering'[s] = recovering[s],
         recovering'[t] = "no" \/ (recovering'[t] = recovering[t] /\ at = request[t]),
         job[t].place = "completed" => j.place = "completed",
         status[t] # "none", at \notin {"new", "checked"},
         at \in {"created", "stored", "counted", "running"} => j = Gen!NoJob,
         j.place \in {"waiting", "delayed", "active"} => j.made < Attempts,
         RunsAlone(t)',
         t \notin disturbed' =>
           /\ at \notin {"created", "stored", "counted", "failing", "refunding", "refunded"}
           /\ \A r \in RunsOf(t)' : r.stage = "start"
  PROVE  GenerationInv'
<1>1. job \in [Tasks -> JobSet] /\ request \in [Tasks -> RequestPlaces] /\ TaskInv(t)
  BY DEF GenerationInv, TaskTypes, CallTypes
<1>2. /\ job' \in [Tasks -> JobSet] /\ request' \in [Tasks -> RequestPlaces]
      /\ job'[t] = j /\ request'[t] = at
      /\ \A s \in Tasks \ {t} : job'[s] = job[s] /\ request'[s] = request[s]
  BY <1>1
<1>3. TaskTypes'
  BY <1>2 DEF GenerationInv, TaskTypes, RecordTypes, CallTypes
<1>4. JobIsOfTask(t)'
  BY <1>1, <1>2 DEF TaskInv, JobIsOfTask
<1>5. t \notin disturbed' => Undisturbed(t)'
  <2>1. t \notin disturbed' => (Gen!Stranded(t) \/ Accounted(t))'
    BY <1>1, <1>2 DEF TaskInv, Undisturbed, Accounted, Underway, Gen!Worth, Gen!Stranded
  <2>2. t \notin disturbed' => (recovering[t] = "processing" /\ ~Underway(t) => job[t].place = "completed")'
    BY <1>1, <1>2 DEF TaskInv, Undisturbed, Underway
  <2> QED BY <1>2, <2>1, <2>2 DEF Undisturbed
<1>6. \A s \in Tasks \ {t} : SameFor(s)
  BY <1>2 DEF SameFor
<1>7. RecoveryKnows(t)'
  BY <1>1, <1>2 DEF TaskInv, RecoveryKnows
<1> QED BY <1>3, <1>4, <1>5, <1>6, <1>7, OneTask DEF TaskInv

\* What is known of a task whose job is there, and of one that has none.
LEMMA JobKnown ==
  ASSUME GenerationInv, NEW t \in Tasks
  PROVE  /\ job[t] \in JobSet /\ request[t] \in RequestPlaces /\ TaskInv(t) /\ runs \subseteq RunSet
         /\ job \in [Tasks -> JobSet] /\ request \in [Tasks -> RequestPlaces] /\ gateway \in GatewaySet
         /\ recovering \in [Tasks -> RecoverySet]
         /\ job[t] # Gen!NoJob =>
              /\ status[t] # "none" /\ request[t] \notin {"new", "checked", "created", "stored", "counted", "running"}
              /\ t \notin disturbed => request[t] \notin {"failing", "refunding", "refunded"}
              /\ job[t].place # "active" => RunsOf(t) = {}
         /\ job[t] = Gen!NoJob /\ request[t] # "running" => RunsOf(t) = {}
<1>1. /\ job \in [Tasks -> JobSet] /\ request \in [Tasks -> RequestPlaces] /\ TaskInv(t) /\ runs \subseteq RunSet
      /\ gateway \in GatewaySet /\ recovering \in [Tasks -> RecoverySet]
  BY DEF GenerationInv, TaskTypes, CallTypes
<1>2. job[t] # Gen!NoJob =>
        /\ status[t] # "none" /\ request[t] \notin {"new", "checked", "created", "stored", "counted", "running"}
        /\ t \notin disturbed => request[t] \notin {"failing", "refunding", "refunded"}
  BY <1>1 DEF TaskInv, JobIsOfTask, Undisturbed
<1>3. /\ job[t] # Gen!NoJob /\ job[t].place # "active" => RunsOf(t) = {}
      /\ job[t] = Gen!NoJob /\ request[t] # "running" => RunsOf(t) = {}
  BY <1>1 DEF TaskInv, RunsAlone, Gen!NoJob
<1> QED BY <1>1, <1>2, <1>3

\* A new run of a task that nobody runs.
LEMMA RunAdded ==
  ASSUME NEW t \in Tasks, RunsOf(t) = {}, NEW s, s.task = t, runs' = runs \cup {s}
  PROVE  RunsOf(t)' = {s} /\ \A u \in Tasks \ {t} : RunsOf(u)' = RunsOf(u)
BY DEF RunsOf

LEMMA DeliverStep ==
  ASSUME Gen!NestTasksAssumption, GenerationInv, NEW t \in Tasks, Gen!Deliver(t)
  PROVE  GenerationInv'
<1> DEFINE s == Gen!Run(t, job[t].made + 1, Attempts)
           j == [job[t] EXCEPT !.place = "active"]
<1>1. /\ job[t].place = "waiting" /\ job' = [job EXCEPT ![t].place = "active"] /\ runs' = runs \cup {s}
      /\ Gen!bounds' = Gen!bounds /\ UNCHANGED <<status, images, usage, wallet, refunded, gateway, request, recovering, disturbed>>
  BY DEF Gen!Deliver, Gen!records
<1>2. BoundTypes'
  BY <1>1, BoundsStay
<1>3. /\ job[t] \in JobSet /\ request[t] \in RequestPlaces /\ TaskInv(t) /\ runs \subseteq RunSet
      /\ job \in [Tasks -> JobSet] /\ request \in [Tasks -> RequestPlaces] /\ gateway \in GatewaySet
      /\ recovering \in [Tasks -> RecoverySet]
  BY JobKnown
<1>4. job[t] # Gen!NoJob
  BY <1>1 DEF Gen!NoJob
<1>5. /\ RunsOf(t) = {} /\ status[t] # "none"
      /\ request[t] \notin {"new", "checked", "created", "stored", "counted", "running"}
      /\ t \notin disturbed => request[t] \notin {"failing", "refunding", "refunded"}
  BY <1>1, <1>4, JobKnown
<1>6. Attempts \in Nat /\ job[t].made \in Nat /\ job[t].made < Attempts
  BY <1>1, <1>3 DEF Gen!NestTasksAssumption, JobSet, TaskInv, JobIsOfTask
<1>7. s \in RunSet /\ s.task = t /\ s.attempt = job[t].made + 1 /\ s.stage = "start"
  BY <1>6 DEF RunSet, Gen!Run
<1>8. j \in JobSet /\ j.place = "active" /\ j.made = job[t].made /\ j # Gen!NoJob
  BY <1>3 DEF JobSet, Gen!Places, Gen!NoJob
<1>9. job' = [job EXCEPT ![t] = j] /\ request' = [request EXCEPT ![t] = request[t]]
  BY <1>1, <1>3
<1> HIDE DEF s, j
<1>10. RunsOf(t)' = {s} /\ \A u \in Tasks \ {t} : RunsOf(u)' = RunsOf(u)
  BY <1>1, <1>5, <1>7, RunAdded
<1>11. job'[t] = j /\ request'[t] = request[t]
  BY <1>3, <1>9
<1>12. RunsAlone(t)'
  BY <1>1, <1>5, <1>7, <1>8, <1>10, <1>11 DEF RunsAlone
<1>13. runs' \subseteq RunSet
  BY <1>1, <1>3, <1>7
<1>14. /\ request[t] \notin {"new", "checked", "created", "stored", "counted", "running"} /\ j.made < Attempts
       /\ recovering' \in [Tasks -> RecoverySet] /\ job[t].place # "completed"
       /\ gateway' \in GatewaySet /\ disturbed \subseteq disturbed' /\ \A r \in RunsOf(t)' : r.stage = "start"
       /\ t \notin disturbed' => request[t] \notin {"created", "stored", "counted", "failing", "refunding", "refunded"}
  BY <1>1, <1>3, <1>5, <1>6, <1>7, <1>8, <1>10
<1>15. request[t] \in {"created", "stored", "counted", "running"} => j = Gen!NoJob
  BY <1>14
<1> QED BY <1>1, <1>2, <1>3, <1>5, <1>8, <1>9, <1>10, <1>12, <1>13, <1>14, <1>15, JobMoves

\* A job that is moved while nobody runs its task.
LEMMA IdleJobMoves ==
  ASSUME Gen!NestTasksAssumption, GenerationInv, NEW t \in Tasks, job[t] # Gen!NoJob, job[t].place # "completed", RunsOf(t) = {},
         NEW j \in JobSet, job' = [job EXCEPT ![t] = j],
         j.place \in {"waiting", "delayed", "active"} => j.made < Attempts,
         Gen!bounds' = Gen!bounds,
         UNCHANGED <<status, images, usage, wallet, refunded, gateway, request, runs, recovering, disturbed>>
  PROVE  GenerationInv'
<1>1. BoundTypes'
  BY BoundsStay
<1>2. /\ request[t] \in RequestPlaces /\ runs \subseteq RunSet /\ gateway \in GatewaySet /\ status[t] # "none"
      /\ recovering \in [Tasks -> RecoverySet]
      /\ request \in [Tasks -> RequestPlaces]
      /\ request[t] \notin {"new", "checked", "created", "stored", "counted", "running"}
      /\ t \notin disturbed => request[t] \notin {"failing", "refunding", "refunded"}
  BY JobKnown
<1>3. request' = [request EXCEPT ![t] = request[t]]
  BY <1>2
<1>4. RunsOf(t)' = {} /\ \A u \in Tasks \ {t} : RunsOf(u)' = RunsOf(u)
  BY DEF RunsOf
<1>5. RunsAlone(t)'
  BY <1>4 DEF RunsAlone
<1> QED BY <1>1, <1>2, <1>3, <1>4, <1>5, JobMoves

LEMMA BackoffEndsStep ==
  ASSUME Gen!NestTasksAssumption, GenerationInv, NEW t \in Tasks, Gen!BackoffEnds(t)
  PROVE  GenerationInv'
<1> DEFINE j == [job[t] EXCEPT !.place = "waiting"]
<1>1. /\ job[t].place = "delayed" /\ job' = [job EXCEPT ![t].place = "waiting"] /\ Gen!bounds' = Gen!bounds
      /\ UNCHANGED <<status, images, usage, wallet, refunded, gateway, request, runs, recovering, disturbed>>
  BY DEF Gen!BackoffEnds, Gen!records
<1>2. job[t] # Gen!NoJob
  BY <1>1 DEF Gen!NoJob
<1>3. job[t] \in JobSet /\ job \in [Tasks -> JobSet] /\ TaskInv(t) /\ RunsOf(t) = {}
  BY <1>1, <1>2, JobKnown
<1>4. j \in JobSet /\ j.made = job[t].made /\ job[t].made < Attempts
  BY <1>1, <1>3 DEF JobSet, Gen!Places, TaskInv, JobIsOfTask
<1>5. job' = [job EXCEPT ![t] = j]
  BY <1>1, <1>3
<1> HIDE DEF j
<1> QED BY <1>1, <1>2, <1>3, <1>4, <1>5, IdleJobMoves

LEMMA StallsStep ==
  ASSUME Gen!NestTasksAssumption, GenerationInv, NEW t \in Tasks, Gen!Stalls(t)
  PROVE  GenerationInv'
<1>1. /\ job[t].place = "active" /\ Gen!bounds' = Gen!bounds
      /\ UNCHANGED <<status, images, usage, wallet, refunded, gateway, request, runs, recovering, disturbed>>
  BY DEF Gen!Stalls, Gen!records
<1>2. job[t] # Gen!NoJob
  BY <1>1 DEF Gen!NoJob
<1>3. job[t] \in JobSet /\ job \in [Tasks -> JobSet] /\ TaskInv(t)
  BY JobKnown
<1>4. RunsOf(t) = {}
  BY DEF RunsOf, Gen!Stalls
<1>5. job[t].made < Attempts
  BY <1>1, <1>3 DEF TaskInv, JobIsOfTask
<1>6. CASE job[t].stalls = 0
  <2> DEFINE j == [job[t] EXCEPT !.place = "waiting", !.stalls = 1]
  <2>1. j \in JobSet /\ j.made = job[t].made
    <3>1. "waiting" \in Gen!Places /\ 1 \in 0..1
      BY DEF Gen!Places
    <3> QED BY <1>3, <3>1 DEF JobSet
  <2>2. job' = [job EXCEPT ![t] = j]
    BY <1>3, <1>6 DEF Gen!Stalls
  <2> HIDE DEF j
  <2> QED BY <1>1, <1>2, <1>4, <1>5, <2>1, <2>2, IdleJobMoves
<1>7. CASE job[t].stalls # 0
  <2> DEFINE j == [job[t] EXCEPT !.place = "failed"]
  <2>1. j \in JobSet /\ j.place = "failed"
    BY <1>3 DEF JobSet, Gen!Places
  <2>2. job' = [job EXCEPT ![t] = j]
    BY <1>3, <1>7 DEF Gen!Stalls
  <2> HIDE DEF j
  <2> QED BY <1>1, <1>2, <1>4, <2>1, <2>2, IdleJobMoves
<1> QED BY <1>6, <1>7

\* A job that is added has not been delivered.
LEMMA JobAdded ==
  ASSUME Gen!NestTasksAssumption, GenerationInv, NEW t \in Tasks, Gen!AddJob(t), job[t] = Gen!NoJob
  PROVE  \E j \in JobSet : /\ job' = [job EXCEPT ![t] = j]
                           /\ j.place = "waiting" /\ j.made < Attempts /\ j # Gen!NoJob
<1> DEFINE j == [job[t] EXCEPT !.place = "waiting"]
<1>1. job[t] \in JobSet /\ job \in [Tasks -> JobSet]
  BY JobKnown
<1>2. j \in JobSet /\ j.place = "waiting" /\ j # Gen!NoJob
  BY <1>1 DEF JobSet, Gen!Places, Gen!NoJob
<1>3. j.made < Attempts
  BY DEF Gen!NoJob, Gen!NestTasksAssumption
<1>4. job' = [job EXCEPT ![t] = j]
  BY <1>1 DEF Gen!AddJob
<1> QED BY <1>2, <1>3, <1>4

LEMMA EnqueueStep ==
  ASSUME Gen!NestTasksAssumption, GenerationInv, NEW t \in Tasks, Gen!Enqueue(t)
  PROVE  GenerationInv'
<1>1. /\ request[t] = "counted" /\ Gen!AddJob(t) /\ Gen!To(t, "answered") /\ Gen!bounds' = Gen!bounds
      /\ UNCHANGED <<status, images, usage, wallet, refunded, gateway, runs, recovering, disturbed>>
  BY DEF Gen!Enqueue, Gen!records
<1>2. BoundTypes'
  BY <1>1, BoundsStay
<1>3. /\ TaskInv(t) /\ runs \subseteq RunSet /\ gateway \in GatewaySet /\ request \in [Tasks -> RequestPlaces]
      /\ recovering \in [Tasks -> RecoverySet]
  BY JobKnown
<1>4. job[t] = Gen!NoJob /\ status[t] # "none"
  BY <1>1, <1>3 DEF TaskInv, JobIsOfTask
<1>5. RunsOf(t) = {} /\ recovering[t] = "no" /\ job[t].place # "completed"
  BY <1>1, <1>4, JobKnown, NotRecovering DEF Gen!NoJob
<1>6. PICK j \in JobSet : /\ job' = [job EXCEPT ![t] = j]
                          /\ j.place = "waiting" /\ j.made < Attempts /\ j # Gen!NoJob
  BY <1>1, <1>4, JobAdded
<1>7. RunsOf(t)' = {} /\ \A u \in Tasks \ {t} : RunsOf(u)' = RunsOf(u)
  BY <1>1, <1>5 DEF RunsOf
<1>8. RunsAlone(t)'
  BY <1>7 DEF RunsAlone
<1>9. request' = [request EXCEPT ![t] = "answered"] /\ "answered" \in RequestPlaces
  BY <1>1 DEF Gen!To, RequestPlaces
<1> QED BY <1>1, <1>2, <1>3, <1>4, <1>5, <1>6, <1>7, <1>8, <1>9, JobMoves

\* The queue may have taken the job of a call that has failed: its task is disturbed.
LEMMA EnqueueFailsStep ==
  ASSUME Gen!NestTasksAssumption, GenerationInv, NEW t \in Tasks, Gen!EnqueueFails(t)
  PROVE  GenerationInv'
<1>1. /\ request[t] = "counted" /\ Gen!To(t, "failing")
      /\ UNCHANGED <<status, images, usage, wallet, refunded, gateway, runs, recovering>>
  BY DEF Gen!EnqueueFails, Gen!records
<1>2. BoundTypes'
  BY DEF Gen!EnqueueFails, GenerationInv, BoundTypes, Gen!NestTasksAssumption
<1>3. /\ TaskInv(t) /\ runs \subseteq RunSet /\ gateway \in GatewaySet /\ request \in [Tasks -> RequestPlaces]
      /\ recovering \in [Tasks -> RecoverySet]
  BY JobKnown
<1>4. job[t] = Gen!NoJob /\ status[t] # "none"
  BY <1>1, <1>3 DEF TaskInv, JobIsOfTask
<1>5. RunsOf(t) = {} /\ recovering[t] = "no" /\ job[t].place # "completed"
  BY <1>1, <1>4, JobKnown, NotRecovering DEF Gen!NoJob
<1>6. "failing" \in RequestPlaces
  BY DEF RequestPlaces
<1>7. CASE UNCHANGED <<job, disturbed>>
  <2>1. t \notin disturbed => status[t] = "queued"
    BY <1>1, <1>3 DEF TaskInv, Undisturbed
  <2>2. TaskInv(t)'
    BY <1>1, <1>4, <1>5, <1>6, <1>7, <2>1, TaskMoves
  <2> QED BY <1>1, <1>2, <1>6, <1>7, <2>2, RequestOnly
<1>8. CASE Gen!AddJob(t) /\ disturbed' = disturbed \cup {t}
  <2>1. PICK j \in JobSet : /\ job' = [job EXCEPT ![t] = j]
                            /\ j.place = "waiting" /\ j.made < Attempts /\ j # Gen!NoJob
    BY <1>4, <1>8, JobAdded
  <2>2. RunsOf(t)' = {} /\ \A u \in Tasks \ {t} : RunsOf(u)' = RunsOf(u)
    BY <1>1, <1>5 DEF RunsOf
  <2>3. RunsAlone(t)'
    BY <2>2 DEF RunsAlone
  <2>4. request' = [request EXCEPT ![t] = "failing"]
    BY <1>1 DEF Gen!To
  <2>5. t \in disturbed' /\ disturbed \subseteq disturbed'
    BY <1>8
  <2> QED BY <1>1, <1>2, <1>3, <1>4, <1>5, <1>6, <2>1, <2>2, <2>3, <2>4, <2>5, JobMoves
<1> QED BY <1>7, <1>8 DEF Gen!EnqueueFails

\* A request that is not asynchronous runs its task itself, as the only one: there is no job.
LEMMA StoreReferencesStep ==
  ASSUME Gen!NestTasksAssumption, GenerationInv, NEW t \in Tasks, Gen!StoreReferences(t)
  PROVE  GenerationInv'
<1>1. /\ request[t] = "created" /\ Gen!bounds' = Gen!bounds
      /\ UNCHANGED <<status, images, usage, wallet, refunded, gateway, job, recovering, disturbed>>
  BY DEF Gen!StoreReferences, Gen!records
<1>2. BoundTypes'
  BY <1>1, BoundsStay
<1>3. /\ TaskInv(t) /\ runs \subseteq RunSet /\ gateway \in GatewaySet /\ request \in [Tasks -> RequestPlaces]
      /\ recovering \in [Tasks -> RecoverySet]
      /\ job[t] \in JobSet /\ job \in [Tasks -> JobSet]
  BY JobKnown
<1>4. job[t] = Gen!NoJob /\ status[t] # "none" /\ (t \notin disturbed => status[t] = "queued")
  BY <1>1, <1>3 DEF TaskInv, JobIsOfTask, Undisturbed
<1>5. RunsOf(t) = {} /\ recovering[t] = "no" /\ job[t].place # "completed"
  BY <1>1, <1>4, JobKnown, NotRecovering DEF Gen!NoJob
<1>6. CASE Gen!To(t, "stored") /\ UNCHANGED runs
  <2>1. "stored" \in RequestPlaces
    BY DEF RequestPlaces
  <2>2. TaskInv(t)'
    BY <1>1, <1>4, <1>5, <1>6, <2>1, TaskMoves
  <2> QED BY <1>1, <1>2, <1>6, <2>1, <2>2, RequestOnly
<1>7. CASE Gen!To(t, "running") /\ runs' = runs \cup {Gen!Run(t, 1, 1)}
  <2> DEFINE s == Gen!Run(t, 1, 1)
  <2>1. s \in RunSet /\ s.task = t /\ s.stage = "start"
    BY DEF RunSet, Gen!Run, Gen!NestTasksAssumption
  <2> HIDE DEF s
  <2>2. RunsOf(t)' = {s} /\ \A u \in Tasks \ {t} : RunsOf(u)' = RunsOf(u)
    BY <1>5, <1>7, <2>1, RunAdded DEF s
  <2>3. request' = [request EXCEPT ![t] = "running"] /\ "running" \in RequestPlaces
    BY <1>7 DEF Gen!To, RequestPlaces
  <2>4. request'[t] = "running" /\ job' = [job EXCEPT ![t] = job[t]]
    BY <1>1, <1>3, <2>3
  <2>5. RunsAlone(t)'
    BY <1>1, <1>4, <2>2, <2>4 DEF RunsAlone
  <2>6. runs' \subseteq RunSet /\ \A r \in RunsOf(t)' : r.stage = "start"
    BY <1>3, <1>7, <2>1, <2>2 DEF s
  <2>7. job[t].place \notin {"waiting", "delayed", "active"}
    BY <1>4 DEF Gen!NoJob
  <2>8. gateway' \in GatewaySet /\ disturbed \subseteq disturbed'
    BY <1>1, <1>3
  <2> QED BY <1>1, <1>2, <1>3, <1>4, <1>5, <2>2, <2>3, <2>4, <2>5, <2>6, <2>7, <2>8, JobMoves
<1> QED BY <1>6, <1>7 DEF Gen!StoreReferences

-----------------------------------------------------------------------------
(* The instance and the gateway *)

\* A start leaves no request and no run, and will look for the tasks.
LEMMA RestartStep ==
  ASSUME Gen!NestTasksAssumption, GenerationInv, Gen!Restart
  PROVE  GenerationInv'
<1>1. /\ runs' = {} /\ UNCHANGED <<status, images, usage, wallet, refunded, gateway, job, disturbed>>
      /\ request' = [t \in Tasks |-> IF request[t] = "new" THEN "new" ELSE "gone"]
      /\ recovering' = [t \in Tasks |-> "look"]
  BY DEF Gen!Restart, Gen!records
<1>2. BoundTypes'
  BY DEF Gen!Restart, GenerationInv, BoundTypes, Gen!NestTasksAssumption
<1>3. TaskTypes'
  BY <1>1 DEF GenerationInv, TaskTypes, RecordTypes, CallTypes, RequestPlaces, RecoverySet
<1>4. ASSUME NEW t \in Tasks
      PROVE  TaskInv(t)'
  <2>1. TaskInv(t)
    BY DEF GenerationInv
  <2>2. request'[t] = (IF request[t] = "new" THEN "new" ELSE "gone") /\ recovering'[t] = "look"
    BY <1>1
  <2>3. RunsOf(t)' = {}
    BY <1>1 DEF RunsOf
  <2>4. RunsAlone(t)' /\ RecoveryKnows(t)'
    BY <2>2, <2>3 DEF RunsAlone, RecoveryKnows
  <2>5. JobIsOfTask(t)'
    BY <1>1, <2>1, <2>2 DEF TaskInv, JobIsOfTask
  <2>6. t \notin disturbed => Undisturbed(t)'
    <3>1. t \notin disturbed => (Gen!Stranded(t) \/ Accounted(t))'
      BY <1>1, <2>1 DEF TaskInv, Undisturbed, Accounted, Underway, Gen!Worth, Gen!Stranded
    <3> QED BY <2>2, <2>3, <3>1 DEF Undisturbed
  <2> QED BY <1>1, <2>4, <2>5, <2>6 DEF TaskInv
<1> QED BY <1>2, <1>3, <1>4 DEF GenerationInv

\* Nothing is written before the tasks have been read.
LEMMA FindPendingStep ==
  ASSUME GenerationInv, Gen!FindPending
  PROVE  GenerationInv'
<1>1. /\ UNCHANGED <<status, images, usage, wallet, refunded, gateway, request, job, runs, disturbed>>
      /\ \A t \in Tasks : recovering[t] = "look"
      /\ recovering' = [t \in Tasks |-> IF Underway(t) THEN status[t] ELSE "no"]
      /\ Gen!bounds' = Gen!bounds
  BY DEF Gen!FindPending, Gen!records, Gen!Recovered, Underway
<1>2. BoundTypes'
  BY <1>1, BoundsStay
<1>3. TaskTypes'
  BY <1>1 DEF GenerationInv, TaskTypes, RecordTypes, CallTypes, RecoverySet, Underway
<1>4. ASSUME NEW t \in Tasks
      PROVE  TaskInv(t)'
  <2>1. TaskInv(t)
    BY DEF GenerationInv
  <2>2. recovering[t] = "look" /\ recovering'[t] = (IF Underway(t) THEN status[t] ELSE "no")
    BY <1>1
  <2>3. RunsOf(t)' = RunsOf(t)
    BY <1>1 DEF RunsOf
  <2>4. RunsAlone(t)' /\ JobIsOfTask(t)'
    BY <1>1, <2>1, <2>3 DEF TaskInv, RunsAlone, JobIsOfTask
  <2>5. RecoveryKnows(t)'
    BY <1>1, <2>1, <2>2 DEF TaskInv, RecoveryKnows, Underway
  <2>6. t \notin disturbed => Undisturbed(t)'
    BY <1>1, <2>1, <2>2, <2>3 DEF TaskInv, Undisturbed, Accounted, Underway, Gen!Worth, Gen!Stranded
  <2> QED BY <1>1, <2>4, <2>5, <2>6 DEF TaskInv
<1> QED BY <1>2, <1>3, <1>4 DEF GenerationInv

\* What the recovery does to a task that it has read, but for a job that it adds.
LEMMA RecoveryMoves ==
  ASSUME GenerationInv, NEW t \in Tasks, NEW at \in {"no", "adding"}, recovering' = [recovering EXCEPT ![t] = at],
         NEW st, status' = [status EXCEPT ![t] = st],
         recovering[t] \in {"queued", "processing", "adding"},
         st = status[t] \/ (st = "queued" /\ recovering[t] = "processing"),
         UNCHANGED <<images, usage, wallet, refunded, gateway, request, job, runs, disturbed>>,
         Gen!bounds' = Gen!bounds
  PROVE  GenerationInv'
<1>1. BoundTypes'
  BY BoundsStay
<1>2. TaskInv(t) /\ status \in [Tasks -> {"none", "queued", "processing", "success", "failed"}]
      /\ recovering \in [Tasks -> RecoverySet]
  BY DEF GenerationInv, TaskTypes, RecordTypes, CallTypes
<1>3. /\ status'[t] = st /\ recovering'[t] = at
      /\ \A s \in Tasks \ {t} : status'[s] = status[s] /\ recovering'[s] = recovering[s]
  BY <1>2
<1>4. TaskTypes'
  <2>1. st \in {"none", "queued", "processing", "success", "failed"} /\ at \in RecoverySet
    BY <1>2 DEF RecoverySet
  <2> QED BY <1>2, <2>1 DEF GenerationInv, TaskTypes, RecordTypes, CallTypes
<1>5. RunsOf(t)' = RunsOf(t) /\ \A s \in Tasks \ {t} : SameFor(s)
  BY <1>3 DEF SameFor, RunsOf
<1>6. request[t] = "gone" /\ status[t] # "none" /\ st # "none"
  BY <1>2 DEF TaskInv, RecoveryKnows, JobIsOfTask
<1>7. RunsAlone(t)' /\ JobIsOfTask(t)' /\ RecoveryKnows(t)'
  <2>1. RunsAlone(t)'
    BY <1>2, <1>3, <1>5, <1>6 DEF TaskInv, RunsAlone
  <2>2. JobIsOfTask(t)'
    BY <1>2, <1>3, <1>6 DEF TaskInv, JobIsOfTask
  <2> QED BY <1>3, <1>6, <2>1, <2>2 DEF RecoveryKnows
<1>8. ASSUME t \notin disturbed
      PROVE  Undisturbed(t)'
  <2>1. Undisturbed(t)
    BY <1>2, <1>8 DEF TaskInv
  <2>2. (Gen!Stranded(t) \/ Accounted(t))'
    <3>1. CASE st = status[t]
      BY <1>3, <2>1, <3>1 DEF Undisturbed, Accounted, Underway, Gen!Worth, Gen!Stranded
    <3>2. CASE st = "queued" /\ (Gen!Stranded(t) \/ ~Underway(t)) /\ recovering[t] = "processing"
      BY <1>3, <2>1, <3>2 DEF Undisturbed, Gen!Stranded
    <3>3. CASE st = "queued" /\ ~Gen!Stranded(t) /\ Underway(t)
      BY <1>3, <2>1, <3>3 DEF Undisturbed, Accounted, Underway, Gen!Worth
    <3> QED BY <3>1, <3>2, <3>3
  <2>3. \A r \in RunsOf(t) : r.stage # "start" => Underway(t)'
    BY <1>3, <2>1 DEF Undisturbed, Underway
  <2> QED BY <1>3, <1>5, <1>6, <2>1, <2>2, <2>3 DEF Undisturbed
<1> QED BY <1>1, <1>4, <1>5, <1>7, <1>8, OneTask DEF TaskInv

\* A task is set to "queued" without a look at what has become of it.
LEMMA ResetTaskStep ==
  ASSUME GenerationInv, NEW t \in Tasks, Gen!ResetTask(t)
  PROVE  GenerationInv'
<1>1. /\ recovering[t] = "processing" /\ status' = [status EXCEPT ![t] = "queued"]
      /\ recovering' = [recovering EXCEPT ![t] = "adding"] /\ Gen!bounds' = Gen!bounds
      /\ UNCHANGED <<images, usage, wallet, refunded, gateway, request, job, runs, disturbed>>
  BY DEF Gen!ResetTask, Gen!Comes
<1> QED BY <1>1, RecoveryMoves

\* A job is added where there is none.
LEMMA AddRecoveredStep ==
  ASSUME Gen!NestTasksAssumption, GenerationInv, NEW t \in Tasks, Gen!AddRecovered(t)
  PROVE  GenerationInv'
<1>1. /\ recovering[t] \in {"queued", "adding"} /\ Gen!AddJob(t) /\ Gen!bounds' = Gen!bounds
      /\ recovering' = [recovering EXCEPT ![t] = "no"]
      /\ UNCHANGED <<status, images, usage, wallet, refunded, gateway, request, runs, disturbed>>
  BY DEF Gen!AddRecovered, Gen!Comes, Gen!records
<1>2. /\ TaskInv(t) /\ runs \subseteq RunSet /\ gateway \in GatewaySet /\ request \in [Tasks -> RequestPlaces]
      /\ recovering \in [Tasks -> RecoverySet] /\ request[t] \in RequestPlaces
  BY JobKnown
<1>3. request[t] = "gone" /\ status[t] # "none"
  BY <1>1, <1>2 DEF TaskInv, RecoveryKnows, JobIsOfTask
<1>4. CASE job[t] = Gen!NoJob
  <2>1. PICK j \in JobSet : /\ job' = [job EXCEPT ![t] = j]
                            /\ j.place = "waiting" /\ j.made < Attempts /\ j # Gen!NoJob
    BY <1>1, <1>4, JobAdded
  <2>2. RunsOf(t) = {} /\ job[t].place # "completed"
    BY <1>3, <1>4, JobKnown DEF Gen!NoJob
  <2>3. RunsOf(t)' = {} /\ \A u \in Tasks \ {t} : RunsOf(u)' = RunsOf(u)
    BY <1>1, <2>2 DEF RunsOf
  <2>4. RunsAlone(t)'
    BY <2>3 DEF RunsAlone
  <2>5. request' = [request EXCEPT ![t] = "gone"] /\ BoundTypes'
    BY <1>1, <1>2, <1>3, BoundsStay
  <2>6. /\ recovering' \in [Tasks -> RecoverySet] /\ recovering'[t] = "no"
        /\ \A u \in Tasks \ {t} : recovering'[u] = recovering[u]
    BY <1>1, <1>2 DEF RecoverySet
  <2> QED BY <1>1, <1>2, <1>3, <2>1, <2>2, <2>3, <2>4, <2>5, <2>6, JobMoves
<1>5. CASE job[t] # Gen!NoJob
  <2>1. job' = job
    BY <1>1, <1>5 DEF Gen!AddJob
  <2>2. status' = [status EXCEPT ![t] = status[t]]
    BY <1>1 DEF GenerationInv, TaskTypes, RecordTypes
  <2> QED BY <1>1, <2>1, <2>2, RecoveryMoves
<1> QED BY <1>4, <1>5

\* What administrators, health checks and time do to the gateway.
LEMMA GatewaySteps ==
  ASSUME Gen!NestTasksAssumption, GenerationInv,
         Gen!Switch \/ Gen!HealthCheck \/ Gen!FindUnused \/ Gen!DeleteGateway \/ Gen!CooldownEnds
  PROVE  GenerationInv'
<1>1. gateway \in GatewaySet
  BY DEF GenerationInv, TaskTypes, CallTypes
<1>2. /\ UNCHANGED <<status, images, usage, wallet, refunded, request, job, runs, recovering, disturbed>>
      /\ BoundTypes'
  BY DEF Gen!Switch, Gen!HealthCheck, Gen!FindUnused, Gen!DeleteGateway, Gen!CooldownEnds, Gen!Administer,
         Gen!records, Gen!bounds, GenerationInv, BoundTypes, Gen!NestTasksAssumption
<1>3. gateway' \in GatewaySet
  <2>1. CASE Gen!Switch
    BY <1>1, <2>1 DEF Gen!Switch, GatewaySet
  <2>2. CASE Gen!HealthCheck
    <3>1. gateway.failures + 1 \in Nat
      BY <1>1 DEF GatewaySet
    <3>2. CASE gateway' = [gateway EXCEPT !.failures = 0, !.cooling = FALSE]
      BY <1>1, <3>2 DEF GatewaySet
    <3>3. CASE gateway' = [gateway EXCEPT !.failures = @ + 1]
      BY <1>1, <3>1, <3>3 DEF GatewaySet
    <3> QED BY <2>2, <3>2, <3>3 DEF Gen!HealthCheck
  <2>3. CASE Gen!FindUnused
    BY <1>1, <2>3 DEF Gen!FindUnused
  <2>4. CASE Gen!DeleteGateway
    BY <1>1, <2>4 DEF Gen!DeleteGateway, GatewaySet
  <2>5. CASE Gen!CooldownEnds
    BY <1>1, <2>5 DEF Gen!CooldownEnds, GatewaySet
  <2> QED BY <2>1, <2>2, <2>3, <2>4, <2>5
<1>4. TaskTypes'
  BY <1>2, <1>3 DEF GenerationInv, TaskTypes, RecordTypes, CallTypes
<1>5. \A t \in Tasks : SameFor(t)
  BY <1>2 DEF SameFor, RunsOf
<1>6. \A t \in Tasks : TaskInv(t)'
  BY <1>2, <1>5, SameInv DEF GenerationInv
<1> QED BY <1>2, <1>4, <1>6 DEF GenerationInv

-----------------------------------------------------------------------------
(* The theorems of the generation tasks *)

LEMMA GenerationStarts ==
  ASSUME Gen!NestTasksAssumption, Gen!Init
  PROVE  GenerationInv
<1>1. 0 \in 0..MaxCrashes /\ 0 \in 0..MaxErrors /\ 0 \in 0..MaxToggles /\ 0 \in 0..Attempts /\ 0 \in 0..(Count + 1)
  BY DEF Gen!NestTasksAssumption
<1>2. Gen!NoJob \in JobSet
  BY <1>1 DEF JobSet, Gen!NoJob, Gen!Places
<1>3. RecordTypes
  <2> DEFINE of == [t \in Tasks |-> 0]
  <2>1. of \in [Tasks -> Int] /\ wallet = [of |-> of, rest |-> 0]
    BY DEF Gen!Init
  <2> HIDE DEF of
  <2>2. wallet \in [of : [Tasks -> Int], rest : Int]
    BY <2>1
  <2> QED BY <1>1, <2>2 DEF Gen!Init, RecordTypes
<1>4. CallTypes
  BY <1>2 DEF Gen!Init, CallTypes, RequestPlaces, GatewaySet, RecoverySet
<1>5. ASSUME NEW t \in Tasks
      PROVE  TaskInv(t)
  <2>1. /\ status[t] = "none" /\ images[t] = 0 /\ usage[t] = "none" /\ wallet.of[t] = 0 /\ ~refunded[t]
        /\ request[t] = "new" /\ job[t] = Gen!NoJob /\ recovering[t] = "no"
    BY <1>5 DEF Gen!Init
  <2>2. RunsOf(t) = {}
    BY DEF Gen!Init, RunsOf
  <2> QED BY <2>1, <2>2 DEF TaskInv, RunsAlone, JobIsOfTask, RecoveryKnows, Undisturbed, Accounted, Underway, Gen!Worth,
                          Gen!NoJob
<1> QED BY <1>1, <1>3, <1>4, <1>5 DEF GenerationInv, TaskTypes, BoundTypes, Gen!Init

LEMMA GenerationSteps ==
  ASSUME Gen!NestTasksAssumption, GenerationInv, [Gen!Next]_(Gen!vars)
  PROVE  GenerationInv'
<1>1. ASSUME NEW t \in Tasks, Gen!Requests(t)
      PROVE  GenerationInv'
  BY <1>1, CheckBalanceStep, CreateTaskStep, StoreReferencesStep, CountJobsStep, EnqueueStep,
     RequestLooksStep, RequestFailsStep DEF Gen!Requests
<1>2. ASSUME NEW t \in Tasks, Gen!Queue(t)
      PROVE  GenerationInv'
  BY <1>2, DeliverStep, BackoffEndsStep, StallsStep DEF Gen!Queue
<1>3. ASSUME NEW r \in runs, Gen!Worker(r)
      PROVE  GenerationInv'
  BY <1>3, ReadTaskStep, ClaimStep, CompleteStep, RecordFailureStep, RetryStep, RunLooksStep, RunFailsStep
     DEF Gen!Worker
<1>3a. ASSUME Gen!Recovery
       PROVE  GenerationInv'
  BY <1>3a, FindPendingStep, ResetTaskStep, AddRecoveredStep DEF Gen!Recovery
<1>4. CASE Gen!Work
  BY <1>1, <1>2, <1>3, <1>3a, <1>4 DEF Gen!Work
<1>5. CASE \E t \in Tasks : Gen!StoreFails(t) \/ Gen!EnqueueFails(t)
  BY <1>5, StoreFailsStep, EnqueueFailsStep
<1>6. CASE \E r \in runs : Gen!CallFails(r)
  BY <1>6, CallFailsStep
<1>7. CASE Gen!Restart
  BY <1>7, RestartStep
<1>8. CASE Gen!Switch \/ Gen!HealthCheck \/ Gen!FindUnused \/ Gen!DeleteGateway \/ Gen!CooldownEnds
  BY <1>8, GatewaySteps
<1>9. CASE UNCHANGED Gen!vars
  <2>1. /\ UNCHANGED <<status, images, usage, wallet, refunded, request, job, runs, recovering, disturbed, gateway>>
        /\ Gen!bounds' = Gen!bounds
    BY <1>9 DEF Gen!vars, Gen!records
  <2>2. TaskTypes' /\ BoundTypes'
    BY <2>1, BoundsStay DEF GenerationInv, TaskTypes, RecordTypes, CallTypes
  <2>3. \A t \in Tasks : SameFor(t)
    BY <2>1 DEF SameFor, RunsOf
  <2>4. \A t \in Tasks : TaskInv(t)'
    BY <2>1, <2>3, SameInv DEF GenerationInv
  <2> QED BY <2>2, <2>4 DEF GenerationInv
<1> QED BY <1>4, <1>5, <1>6, <1>7, <1>8, <1>9 DEF Gen!Next

\* The invariant holds in every state.
LEMMA GenerationHolds ==
  ASSUME Gen!NestTasksAssumption
  PROVE  Gen!Spec => []GenerationInv
<1>1. Gen!Init => GenerationInv
  BY GenerationStarts
<1>2. GenerationInv /\ [Gen!Next]_(Gen!vars) => GenerationInv'
  BY GenerationSteps
<1> QED BY <1>1, <1>2, PTL DEF Gen!Spec

\* What a task has cost follows from its status at every moment, and its
\* usage record and its images with it, for any number of tasks, retries,
\* stalls, crashes, recoveries that run beside the worker and errors, and
\* whatever is done to the gateway; but for the tasks whose job was added by a
\* call that was reported as failed, and those that are stranded: put back by
\* a recovery after their job had ended.
THEOREM MoneyAlwaysFollows ==
  ASSUME Gen!NestTasksAssumption
  PROVE  Gen!Spec => []Gen!MoneyFollowsStatus
<1>1. GenerationInv => Gen!MoneyFollowsStatus
  BY DEF GenerationInv, TaskInv, Undisturbed, Accounted, Gen!MoneyFollowsStatus
<1> QED BY <1>1, GenerationHolds, PTL

\* The rows of each task, its job and what runs for it keep their types, and
\* no task is ever run by two workers.
THEOREM TasksTypeCorrect ==
  ASSUME Gen!NestTasksAssumption
  PROVE  Gen!Spec => []Gen!TypeOK
<1>1. ASSUME GenerationInv
      PROVE  Gen!TypeOK
  <2>1. RecordTypes /\ CallTypes /\ BoundTypes
    BY <1>1 DEF GenerationInv, TaskTypes
  <2>2. /\ status \in [Tasks -> Gen!Settled \cup {"none", "queued", "processing"}]
        /\ images \in [Tasks -> 0..(Count + 1)] /\ usage \in [Tasks -> Gen!Settled \cup {"none"}]
    BY <2>1 DEF RecordTypes, Gen!Settled
  <2>3. \A t \in Tasks : job[t].place \in Gen!Places /\ job[t].made \in 0..Attempts /\ job[t].stalls \in 0..1
    BY <2>1 DEF CallTypes, JobSet
  <2>4. \A r, s \in runs : r.task = s.task => r = s
    BY <1>1, <2>1 DEF GenerationInv, TaskInv, RunsAlone, RunsOf, CallTypes, RunSet
  <2>5. gateway.failures \in Nat /\ recovering \in [Tasks -> {"no", "look", "queued", "processing", "adding"}]
    BY <2>1 DEF CallTypes, GatewaySet, RecoverySet
  <2> QED BY <2>1, <2>2, <2>3, <2>4, <2>5 DEF Gen!TypeOK, BoundTypes
<1> QED BY <1>1, GenerationHolds, PTL
=============================================================================
