---------------------------- MODULE Administrators ----------------------------
(***************************************************************************)
(* The accounts of administrators: patchUser and deleteUser of             *)
(* AdminService, which count the active ones in a statement of their own   *)
(* and lock nothing until they write, and the account that an instance     *)
(* seeds when it starts.  A statement sees what has committed before it.   *)
(***************************************************************************)
EXTENDS Naturals, FiniteSets

CONSTANTS
  Admins,
  Seeds,        \* the emails that SEED_ADMIN_EMAIL may give
  MaxRequests,  \* bounds of the model on the requests
  MaxRestarts   \* and on the restarts

(* What is assumed of the constants, by the module that gives their values *)
AdministratorsAssumption ==
  Seeds \subseteq Admins /\ MaxRequests \in Nat /\ MaxRestarts \in Nat

VARIABLES
  accounts,
  asking,    \* the requests past requireAdmin
  raced,     \* history: the last removal had been overtaken by another write
  requests, restarts

vars == <<accounts, asking, raced, requests, restarts>>

Active == {a \in Admins : accounts[a] = "active"}

Init ==
  /\ accounts \in [Admins -> {"absent", "active"}]
  /\ Active # {}
  /\ asking = {} /\ raced = FALSE /\ requests = 0 /\ restarts = 0

Kinds == {"enable", "disable", "delete"}

(* requireAdmin: the session's account is active. *)
Ask(by, user, kind) ==
  /\ requests < MaxRequests /\ accounts[by] = "active"
  /\ asking' = asking \cup {[id |-> requests, by |-> by, user |-> user, kind |-> kind, pc |-> "asked",
                               overtaken |-> FALSE]}
  /\ requests' = requests + 1
  /\ UNCHANGED <<accounts, raced, restarts>>

Move(r, next) == asking' = (asking \ {r}) \cup next
Goto(r, pc) == Move(r, {[r EXCEPT !.pc = pc]})

(* Nobody deletes the own account or disables it; only the removal of an    *)
(* active account needs another one.                                        *)
ReadUser(r) ==
  /\ r.pc = "asked"
  /\ IF accounts[r.user] = "absent" \/ (r.by = r.user /\ (r.kind = "delete" \/ (r.kind = "disable" /\ r.user \in Active)))
     THEN Move(r, {})
     ELSE Goto(r, IF r.user \in Active /\ r.kind # "enable" THEN "counting" ELSE "writing")
  /\ UNCHANGED <<accounts, raced, requests, restarts>>

(* Variant: the administrator who is counted may be the one who goes. *)
LastAdmin_None == Active = {}

LastAdmin == Cardinality(Active) <= 1

CountAdmins(r) ==
  /\ r.pc = "counting"
  /\ IF LastAdmin THEN Move(r, {}) ELSE Goto(r, "counted")
  /\ UNCHANGED <<accounts, raced, requests, restarts>>

Written(r) ==
  IF accounts[r.user] = "absent" \/ r.kind = "delete" THEN "absent"
  ELSE IF r.kind = "enable" THEN "active" ELSE "disabled"

Removes(r) == r.user \in Active /\ r.kind # "enable"

(* What a write makes untrue: the count of another request by a removal, or *)
(* that the account of a request that counted nobody is not active.         *)
Overtakes(r, other) ==
  IF Removes(r) THEN other.pc = "counted" ELSE other.pc = "writing" /\ other.user = r.user

(* The statement that writes the row, and the commit; a row that has gone   *)
(* stays away, and the transaction ends with an error.                      *)
Write(r) ==
  /\ r.pc \in {"counted", "writing"}
  /\ accounts' = [accounts EXCEPT ![r.user] = Written(r)]
  /\ raced' = IF Removes(r) THEN r.overtaken ELSE raced
  /\ asking' = {[other EXCEPT !.overtaken = @ \/ Overtakes(r, other)] : other \in asking \ {r}}
  /\ UNCHANGED <<requests, restarts>>

(* seedAdmin: an account that is there stays as it is, disabled or not.     *)
Restart(seed) ==
  /\ restarts < MaxRestarts
  /\ restarts' = restarts + 1
  /\ asking' = {}
  /\ accounts' = [accounts EXCEPT ![seed] = IF @ = "absent" THEN "active" ELSE @]
  /\ UNCHANGED <<raced, requests>>

Next ==
  \/ \E by, user \in Admins, kind \in Kinds : Ask(by, user, kind)
  \/ \E r \in asking : ReadUser(r) \/ CountAdmins(r) \/ Write(r)
  \/ \E seed \in Seeds : Restart(seed)

Spec == Init /\ [][Next]_vars

-----------------------------------------------------------------------------
(* The accounts and the requests under way. *)
TypeOK ==
  /\ accounts \in [Admins -> {"absent", "active", "disabled"}]
  /\ asking \subseteq [id : Nat, by : Admins, user : Admins, kind : Kinds,
                       pc : {"asked", "counting", "counted", "writing"}, overtaken : BOOLEAN]
  /\ raced \in BOOLEAN /\ requests \in 0..MaxRequests /\ restarts \in 0..MaxRestarts

(* An administrator is left, whatever is disabled, deleted and enabled      *)
(* again, unless the last one was removed by a request that had counted     *)
(* before another removal was written, or had read the account before it    *)
(* was enabled: no lock keeps them apart.                                   *)
OnlyRacesLockOut == Active = {} => raced

(* "At least one usable administrator account is kept", as the refusal of   *)
(* patchUser and of deleteUser says.  Two who disable each other each count *)
(* the other one.                                                           *)
AdminRemains == Active # {}
=============================================================================
