----------------------------- MODULE NestAccounts -----------------------------
(***************************************************************************)
(* Accounts and redemption codes of the older backend (backend/src):       *)
(* registration behind a captcha, redemption, and what administrators do   *)
(* to codes and to each other.  A handler is one step from an await to the *)
(* next; a transaction reads in one step and writes in another, because    *)
(* nothing is locked between.                                              *)
(***************************************************************************)
EXTENDS Naturals, FiniteSets

CONSTANTS
  Emails,       \* users, before and after they have registered
  Codes, NoCode,
  Activities,
  Admins,
  CaptchaIds,
  MaxPatches    \* bound of the model on what administrators do

(* What is assumed of the constants, by the module that gives their values *)
NestAccountsAssumption ==
  NoCode \notin Codes /\ Admins # {} /\ MaxPatches \in Nat

VARIABLES
  captchas,    \* the records of CaptchaService
  issued,
  registering, \* registrations past the captcha, with their captcha
  accounts,    \* each account's captcha
  bonus,       \* entries "signup_bonus" of each user
  codes,       \* the codes there are
  uses,        \* RedemptionUse: rows keep their activity when their code is deleted
  redeeming,   \* redemptions that have read the code
  granted,     \* entries "redeem_code" of each user
  patching,    \* changes and deletions that have read the code
  active,      \* administrators that are active
  disabling,   \* changes of an administrator's status under way
  raced,       \* history: one was written while another had counted
  patches

signup == <<captchas, issued, registering, accounts, bonus>>
redemption == <<codes, uses, redeeming, granted, patching>>
admins == <<active, disabling, raced>>
vars == <<signup, redemption, admins, patches>>

NoRow == [activity |-> "none"]
Deleted == [activity |-> "deleted"]
Code(activity, maxUses) == [activity |-> activity, maxUses |-> maxUses, usedBy |-> {}, usable |-> TRUE]
Exists(c) == codes[c] \notin {NoRow, Deleted}

Init ==
  /\ captchas = {} /\ issued = {} /\ registering = {} /\ accounts = {}
  /\ bonus = [u \in Emails |-> 0]
  /\ codes = [c \in Codes |-> NoRow]
  /\ uses = {} /\ redeeming = {} /\ patching = {}
  /\ granted = [u \in Emails |-> 0]
  /\ active = Admins /\ disabling = {} /\ raced = FALSE
  /\ patches = 0

-----------------------------------------------------------------------------
(* Registration *)

CreateCaptcha(k) ==
  /\ k \notin issued
  /\ issued' = issued \cup {k} /\ captchas' = captchas \cup {k}
  /\ UNCHANGED <<registering, accounts, bonus, redemption, admins, patches>>

(* A captcha expires, or its record goes with a restart of the instance. *)
CaptchaGoes(k) ==
  /\ k \in captchas
  /\ captchas' = captchas \ {k}
  /\ UNCHANGED <<issued, registering, accounts, bonus, redemption, admins, patches>>

(* verify: the record goes with the first answer, right or wrong. *)
VerifyCaptcha(k, u, right) ==
  /\ k \in captchas
  /\ captchas' = captchas \ {k}
  /\ registering' = IF right THEN registering \cup {[captcha |-> k, user |-> u, looked |-> FALSE]}
                    ELSE registering
  /\ UNCHANGED <<issued, accounts, bonus, redemption, admins, patches>>

Registered(u) == \E a \in accounts : a.user = u

LookForEmail(r) ==
  /\ ~r.looked
  /\ registering' = (registering \ {r}) \cup (IF Registered(r.user) THEN {} ELSE {[r EXCEPT !.looked = TRUE]})
  /\ UNCHANGED <<captchas, issued, accounts, bonus, redemption, admins, patches>>

(* The email is unique: the second of two registrations fails. *)
CreateAccount(r) ==
  /\ r.looked
  /\ registering' = registering \ {r}
  /\ IF Registered(r.user) THEN UNCHANGED <<accounts, bonus>>
     ELSE /\ accounts' = accounts \cup {[captcha |-> r.captcha, user |-> r.user]}
          /\ bonus' = [bonus EXCEPT ![r.user] = @ + 1]
  /\ UNCHANGED <<captchas, issued, redemption, admins, patches>>

-----------------------------------------------------------------------------
(* redeem *)

ReadCode(u, c) ==
  /\ Registered(u) /\ Exists(c)
  /\ codes[c].usable /\ u \notin codes[c].usedBy
  /\ Cardinality(codes[c].usedBy) < codes[c].maxUses
  /\ redeeming' = redeeming \cup {[user |-> u, code |-> c, record |-> codes[c]]}
  /\ UNCHANGED <<signup, codes, uses, granted, patching, admins, patches>>

(* Variant: a user may use each code once, whatever its activity. *)
Unique_PerCode(use) ==
  \A other \in uses : other.user = use.user => other.code # use.code

(* The two unique indices of RedemptionUse *)
Unique(use) ==
  \A other \in uses :
    other.user = use.user => other.code # use.code /\ other.activity # use.activity

(* The transaction writes all of it or, when a row is there already or the  *)
(* code has gone, nothing; it writes back the users it has read.            *)
WriteUse(r) ==
  LET use == [code |-> r.code, user |-> r.user, activity |-> r.record.activity]
  IN  /\ redeeming' = redeeming \ {r}
      /\ IF Exists(r.code) /\ Unique(use)
         THEN /\ uses' = uses \cup {use}
              /\ codes' = [codes EXCEPT ![r.code].usedBy = r.record.usedBy \cup {r.user}]
              /\ granted' = [granted EXCEPT ![r.user] = @ + 1]
         ELSE UNCHANGED <<uses, codes, granted>>
      /\ UNCHANGED <<signup, patching, admins, patches>>

-----------------------------------------------------------------------------
(* What administrators do *)

Acts == /\ patches < MaxPatches /\ patches' = patches + 1
        /\ active # {}

CreateCode(c) ==
  /\ Acts
  /\ codes[c] = NoRow
  /\ \E a \in Activities, n \in {1, 2} : codes' = [codes EXCEPT ![c] = Code(a, n)]
  /\ UNCHANGED <<signup, uses, redeeming, granted, patching, admins>>

(* The read of patchCode and deleteCode, with their guards on the uses *)
PatchCode(c) ==
  /\ Acts /\ Exists(c)
  /\ \E patched \in {[codes[c] EXCEPT !.usable = ~@]}
                    \cup {[codes[c] EXCEPT !.activity = a] : a \in IF codes[c].usedBy = {} THEN Activities ELSE {}} :
       patching' = patching \cup {[code |-> c, patched |-> patched]}
  /\ UNCHANGED <<signup, codes, uses, redeeming, granted, admins>>

DeleteCode(c) ==
  /\ Acts /\ Exists(c) /\ codes[c].usedBy # {}
  /\ patching' = patching \cup {[code |-> c, patched |-> Deleted]}
  /\ UNCHANGED <<signup, codes, uses, redeeming, granted, admins>>

(* Only the patched columns are written; a deletion takes the code from its *)
(* uses.                                                                    *)
WritePatch(p) ==
  /\ patching' = patching \ {p}
  /\ CASE ~Exists(p.code) -> UNCHANGED <<codes, uses>>
       [] Exists(p.code) /\ p.patched = Deleted ->
            /\ codes' = [codes EXCEPT ![p.code] = Deleted]
            /\ uses' = {IF u.code = p.code THEN [u EXCEPT !.code = NoCode] ELSE u : u \in uses}
       [] OTHER ->
            /\ codes' = [codes EXCEPT ![p.code].activity = p.patched.activity, ![p.code].usable = p.patched.usable]
            /\ uses' = uses
  /\ UNCHANGED <<signup, redeeming, granted, admins, patches>>

(* patchUser: the session is looked up when the call comes in, and only one *)
(* that is active when it is read is counted.                               *)
DisableAdmin(by, target) ==
  /\ Acts
  /\ by \in active /\ by # target
  /\ disabling' = disabling \cup {[target |-> target, by |-> by, counted |-> target \notin active]}
  /\ UNCHANGED <<signup, redemption, active, raced>>

EnableAdmin(by, target) ==
  /\ Acts
  /\ by \in active /\ active' = active \cup {target}
  /\ UNCHANGED <<signup, redemption, disabling, raced>>

EnoughAdmins == Cardinality(active) > 1

CountAdmins(d) ==
  /\ ~d.counted
  /\ disabling' = (disabling \ {d}) \cup (IF EnoughAdmins THEN {[d EXCEPT !.counted = TRUE]} ELSE {})
  /\ UNCHANGED <<signup, redemption, active, raced, patches>>

WriteStatus(d) ==
  /\ d.counted
  /\ active' = active \ {d.target}
  /\ disabling' = disabling \ {d}
  /\ raced' = (raced \/ \E other \in disabling' : other.counted)
  /\ UNCHANGED <<signup, redemption, patches>>

-----------------------------------------------------------------------------

Next ==
  \/ \E k \in CaptchaIds :
       \/ CreateCaptcha(k) \/ CaptchaGoes(k)
       \/ \E u \in Emails, right \in BOOLEAN : VerifyCaptcha(k, u, right)
  \/ \E r \in registering : LookForEmail(r) \/ CreateAccount(r)
  \/ \E c \in Codes :
       \/ \E u \in Emails : ReadCode(u, c)
       \/ CreateCode(c) \/ PatchCode(c) \/ DeleteCode(c)
  \/ \E r \in redeeming : WriteUse(r)
  \/ \E p \in patching : WritePatch(p)
  \/ \E by, target \in Admins : DisableAdmin(by, target) \/ EnableAdmin(by, target)
  \/ \E d \in disabling : CountAdmins(d) \/ WriteStatus(d)

Spec == Init /\ [][Next]_vars

-----------------------------------------------------------------------------
(* Properties *)

(* Rows of accounts, codes and uses, and the calls under way. *)
TypeOK ==
  /\ captchas \subseteq issued /\ issued \subseteq CaptchaIds
  /\ \A a \in accounts : a.user \in Emails /\ a.captcha \in issued \ captchas
  /\ \A c \in Codes : Exists(c) => codes[c].activity \in Activities /\ codes[c].usedBy \subseteq Emails
  /\ \A u \in uses : u.user \in Emails /\ u.code \in Codes \cup {NoCode} /\ u.activity \in Activities
  /\ active \subseteq Admins
  /\ patches \in 0..MaxPatches

UsesOf(u) == {use \in uses : use.user = u}

(* A user has one grant per use, one use per activity and one bonus, and a  *)
(* captcha has let in one account at most, whatever registrations and       *)
(* redemptions overlap and whichever codes are changed or deleted under     *)
(* them; a code is refused as used only to users who have redeemed it.      *)
GrantedOnce ==
  /\ \A u \in Emails :
       /\ granted[u] = Cardinality(UsesOf(u))
       /\ \A p, q \in UsesOf(u) : p.activity = q.activity => p = q
       /\ bonus[u] = Cardinality({a \in accounts : a.user = u}) /\ bonus[u] <= 1
  /\ \A a, b \in accounts : a.captcha = b.captcha => a = b
  /\ \A c \in Codes : Exists(c) => \A u \in codes[c].usedBy : \E use \in uses : use.code = c /\ use.user = u

(* An administrator is left, unless the last one was disabled by a change   *)
(* that had counted before another one was written: with the count of two   *)
(* who disable each other at the same time nobody is left, though "at least *)
(* one usable administrator account is kept".                               *)
OnlyRacesLockOut == active = {} => raced
=============================================================================
