---------------------------- MODULE GatewayHealth ----------------------------
(***************************************************************************)
(* The rows of Gateway and everything that reads and writes them without a *)
(* lock: requests and workers that choose a gateway and record how its     *)
(* calls end (ImageService), and administrators that create, change, check *)
(* and delete gateways (AdminService).  Enabled stands for all that makes  *)
(* a gateway fit for a task besides its cooldown: its switch, its key, the *)
(* users it is reserved for.                                               *)
(***************************************************************************)
EXTENDS Naturals, FiniteSets

CONSTANTS
  Gateways, Earlier,  \* those there are at the beginning
  NoGateway,
  ImageTasks,         \* each with the one worker that holds it
  Requests,           \* of administrators
  Threshold,          \* GATEWAY_FAILURE_THRESHOLD
  MaxOutcomes,        \* bounds of the model: outcomes that are recorded,
  MaxRequests         \* and requests of administrators

(* What is assumed of the constants, by the module that gives their values *)
GatewayHealthAssumption ==
  /\ Earlier \subseteq Gateways /\ NoGateway \notin Gateways
  /\ Threshold \in Nat \ {0} /\ MaxOutcomes \in Nat /\ MaxRequests \in Nat

VARIABLES
  rows,      \* the gateways
  tasks,     \* status and gatewayId of each task's row
  working,   \* where the request or the worker of a task is, and the gateway it uses
  asking,    \* the administrators' requests under way
  streak,    \* history: failures recorded since the last success
  touched,   \* history: a patch has written another count or health since
  outcomes, requests

counted == <<streak, touched, outcomes>>
vars == <<rows, tasks, working, asking, counted, requests>>

Row == [made |-> "yes", enabled |-> TRUE, health |-> "unknown", failures |-> 0, cooling |-> FALSE]
Unmade == [Row EXCEPT !.made = "no"]
Exists(g) == rows[g].made = "yes"
Idle == [pc |-> "idle", gateway |-> NoGateway]

Init ==
  /\ rows = [g \in Gateways |-> IF g \in Earlier THEN Row ELSE Unmade]
  /\ tasks = [t \in ImageTasks |-> [status |-> "none", gateway |-> NoGateway]]
  /\ working = [t \in ImageTasks |-> Idle]
  /\ asking = [a \in Requests |-> Idle]
  /\ streak = [g \in Gateways |-> 0] /\ touched = [g \in Gateways |-> FALSE]
  /\ outcomes = 0 /\ requests = 0

-----------------------------------------------------------------------------
(* Choosing a gateway *)

(* enabledGatewaysForModel, enabledGatewaysForUser, isCooling; which of     *)
(* them comes first, by group, priority and chance, is left open.           *)
Usable(g) == Exists(g) /\ rows[g].enabled /\ ~rows[g].cooling

At(t, pc) == working[t].pc = pc
Goto(t, pc) == working' = [working EXCEPT ![t].pc = pc]
Deleted(t) == tasks[t].status = "deleted"
SetTask(t, status, g) == tasks' = [tasks EXCEPT ![t] = [status |-> status, gateway |-> g]]
(* An UPDATE by id, which finds no row once the user has been deleted. *)
UpdateTask(t, status, g) == IF Deleted(t) THEN UNCHANGED tasks ELSE SetTask(t, status, g)

(* createTask: no usable gateway refuses the request. *)
SelectGateway(t, g) ==
  /\ At(t, "idle") /\ tasks[t].status = "none"
  /\ Usable(g)
  /\ working' = [working EXCEPT ![t] = [pc |-> "inserting", gateway |-> g]]
  /\ UNCHANGED <<rows, tasks, asking, counted, requests>>

(* The foreign key of gatewayId fails if the gateway has gone meanwhile.    *)
InsertTask(t) ==
  /\ At(t, "inserting")
  /\ IF Exists(working[t].gateway) THEN SetTask(t, "queued", working[t].gateway) ELSE UNCHANGED tasks
  /\ working' = [working EXCEPT ![t] = Idle]
  /\ UNCHANGED <<rows, asking, counted, requests>>

(* activeGatewayForTask: the gateway of the row, if it is still usable.     *)
ReadTask(t) ==
  /\ At(t, "idle") /\ tasks[t].status = "queued"
  /\ working' = [working EXCEPT ![t] =
       IF Usable(tasks[t].gateway) THEN [pc |-> "ready", gateway |-> tasks[t].gateway]
       ELSE [pc |-> "choosing", gateway |-> NoGateway]]
  /\ UNCHANGED <<rows, tasks, asking, counted, requests>>

SelectReplacement(t, g) ==
  /\ At(t, "choosing") /\ Usable(g)
  /\ working' = [working EXCEPT ![t] = [pc |-> "replacing", gateway |-> g]]
  /\ UNCHANGED <<rows, tasks, asking, counted, requests>>

(* GATEWAY_UNAVAILABLE; a replacement that has gone meanwhile ends the      *)
(* task as well, by its foreign key.                                        *)
GatewayUnavailable(t) ==
  /\ \/ At(t, "choosing") /\ ~\E g \in Gateways : Usable(g)
     \/ At(t, "replacing") /\ ~Deleted(t) /\ ~Exists(working[t].gateway)
  /\ UpdateTask(t, "ended", tasks[t].gateway)
  /\ working' = [working EXCEPT ![t] = Idle]
  /\ UNCHANGED <<rows, asking, counted, requests>>

Reassign(t) ==
  /\ At(t, "replacing") /\ (Deleted(t) \/ Exists(working[t].gateway))
  /\ UpdateTask(t, "queued", working[t].gateway)
  /\ Goto(t, "ready")
  /\ UNCHANGED <<rows, asking, counted, requests>>

Claim(t) ==
  /\ At(t, "ready") /\ ~Deleted(t)
  /\ SetTask(t, "processing", tasks[t].gateway)
  /\ Goto(t, "calling")
  /\ UNCHANGED <<rows, asking, counted, requests>>

(* The UPDATE of the claim or of the end finds no row, and nothing is       *)
(* recorded.                                                                *)
FindNoTask(t) ==
  /\ At(t, "ready") \/ At(t, "calling")
  /\ Deleted(t)
  /\ working' = [working EXCEPT ![t] = Idle]
  /\ UNCHANGED <<rows, tasks, asking, counted, requests>>

-----------------------------------------------------------------------------
(* Outcomes: each is one statement on the row, if it is there *)

Record(g, row, failures) ==
  /\ outcomes < MaxOutcomes /\ outcomes' = outcomes + 1
  /\ IF Exists(g)
     THEN /\ rows' = [rows EXCEPT ![g] = row]
          /\ streak' = [streak EXCEPT ![g] = failures]
          /\ touched' = [touched EXCEPT ![g] = @ /\ failures # 0]
     ELSE UNCHANGED <<rows, streak, touched>>

RecordSuccess(g) ==
  Record(g, [rows[g] EXCEPT !.health = "healthy", !.failures = 0, !.cooling = FALSE], 0)

(* Variant: the count starts again when the gateway is cooled down. *)
RecordFailure_StartsAgain(g) ==
  LET failures == rows[g].failures + 1
  IN  Record(g, [rows[g] EXCEPT !.failures = IF failures >= Threshold THEN 0 ELSE failures,
                                !.health = IF failures >= Threshold THEN "down" ELSE "degraded",
                                !.cooling = failures >= Threshold], streak[g] + 1)

(* recordGatewayFailure *)
RecordFailure(g) ==
  LET failures == rows[g].failures + 1
  IN  Record(g, [rows[g] EXCEPT !.failures = failures,
                                !.health = IF failures >= Threshold THEN "down" ELSE "degraded",
                                !.cooling = failures >= Threshold], streak[g] + 1)

(* updateGatewayHealth of a check that failed *)
RecordFailedCheck(g) ==
  Record(g, [rows[g] EXCEPT !.failures = @ + 1, !.health = "degraded"], streak[g] + 1)

(* completeTaskSuccess *)
Succeed(t) ==
  /\ At(t, "calling") /\ ~Deleted(t)
  /\ SetTask(t, "ended", tasks[t].gateway)
  /\ working' = [working EXCEPT ![t] = Idle]
  /\ RecordSuccess(working[t].gateway)
  /\ UNCHANGED <<asking, requests>>

(* The catch block: errors that are not the gateway's do not count.         *)
CallFails(t, counts) ==
  /\ At(t, "calling")
  /\ Goto(t, "failed")
  /\ IF counts THEN RecordFailure(working[t].gateway) ELSE UNCHANGED <<rows, counted>>
  /\ UNCHANGED <<tasks, asking, requests>>

(* Another attempt, or the end of the task *)
Settle(t, status) ==
  /\ At(t, "failed")
  /\ UpdateTask(t, status, tasks[t].gateway)
  /\ working' = [working EXCEPT ![t] = Idle]
  /\ UNCHANGED <<rows, asking, counted, requests>>

CooldownEnds(g) ==
  /\ rows[g].cooling
  /\ rows' = [rows EXCEPT ![g].cooling = FALSE]
  /\ UNCHANGED <<tasks, working, asking, counted, requests>>

-----------------------------------------------------------------------------
(* Administrators *)

Ask(a, request) ==
  /\ asking[a].pc = "idle" /\ requests < MaxRequests
  /\ asking' = [asking EXCEPT ![a] = request]
  /\ requests' = requests + 1
  /\ UNCHANGED <<rows, tasks, working, counted>>

Answer(a) == asking' = [asking EXCEPT ![a] = Idle]

CreateGateway(g, enabled) ==
  /\ rows[g].made = "no" /\ requests < MaxRequests
  /\ rows' = [rows EXCEPT ![g] = [Row EXCEPT !.enabled = enabled]]
  /\ requests' = requests + 1
  /\ UNCHANGED <<tasks, working, asking, counted>>

(* patchGateway writes all columns but disabledUntil: those that the        *)
(* request does not give as it has read them.  A request gives neither, the *)
(* switch, or, to end a cooldown, the switch and the count.                 *)
Bodies == {"columns", "on", "off", "healthy"}

ReadGateway(a, g, body) ==
  /\ Exists(g)
  /\ Ask(a, [pc |-> "patching", gateway |-> g, row |-> rows[g], body |-> body])

Patched(row, body) ==
  [row EXCEPT !.enabled = IF body = "columns" THEN @ ELSE body # "off",
              !.failures = IF body = "healthy" THEN 0 ELSE @]

PatchGateway(a) ==
  LET g == asking[a].gateway
      row == Patched(asking[a].row, asking[a].body)
  IN  /\ asking[a].pc = "patching"
      /\ IF Exists(g)
         THEN /\ rows' = [rows EXCEPT ![g] = [row EXCEPT !.cooling = rows[g].cooling]]
              /\ touched' = [touched EXCEPT ![g] = @ \/ row.failures # rows[g].failures \/ row.health # rows[g].health]
         ELSE UNCHANGED <<rows, touched>>
      /\ Answer(a)
      /\ UNCHANGED <<tasks, working, streak, outcomes, requests>>

(* health: the check of the provider is long; a gateway that has gone in    *)
(* the meantime ends it with an error.                                      *)
BeginCheck(a, g) ==
  /\ Exists(g)
  /\ Ask(a, [pc |-> "checking", gateway |-> g])

EndCheck(a, ok) ==
  /\ asking[a].pc = "checking"
  /\ IF ok THEN RecordSuccess(asking[a].gateway) ELSE RecordFailedCheck(asking[a].gateway)
  /\ Answer(a)
  /\ UNCHANGED <<tasks, working, requests>>

(* deleteGateway counts the tasks that are waiting or running ...           *)
CountAttached(a, g) ==
  /\ Exists(g)
  /\ ~\E t \in ImageTasks : tasks[t].gateway = g /\ tasks[t].status \in {"queued", "processing"}
  /\ Ask(a, [pc |-> "deleting", gateway |-> g])

(* ... and the foreign key of all tasks decides. *)
Referenced(g) == \E t \in ImageTasks : tasks[t].gateway = g

DeleteGateway(a) ==
  LET g == asking[a].gateway
  IN  /\ asking[a].pc = "deleting"
      /\ rows' = [rows EXCEPT ![g].made = IF Referenced(g) THEN @ ELSE "gone"]
      /\ Answer(a)
      /\ UNCHANGED <<tasks, working, counted, requests>>

(* deleteUser: deleteUserRows takes the user's tasks, whatever becomes of   *)
(* them, and with them what keeps their gateway.                            *)
DeleteUser(t) ==
  /\ tasks[t].status \in {"queued", "processing", "ended"} /\ requests < MaxRequests
  /\ SetTask(t, "deleted", NoGateway)
  /\ requests' = requests + 1
  /\ UNCHANGED <<rows, working, asking, counted>>

-----------------------------------------------------------------------------
Next ==
  \/ \E t \in ImageTasks :
       \/ \E g \in Gateways : SelectGateway(t, g) \/ SelectReplacement(t, g)
       \/ InsertTask(t) \/ ReadTask(t) \/ GatewayUnavailable(t) \/ Reassign(t) \/ Claim(t)
       \/ Succeed(t) \/ FindNoTask(t) \/ DeleteUser(t)
       \/ \E counts \in BOOLEAN : CallFails(t, counts)
       \/ \E status \in {"queued", "ended"} : Settle(t, status)
  \/ \E g \in Gateways : CooldownEnds(g) \/ \E enabled \in BOOLEAN : CreateGateway(g, enabled)
  \/ \E a \in Requests :
       \/ \E g \in Gateways : BeginCheck(a, g) \/ CountAttached(a, g) \/ \E body \in Bodies : ReadGateway(a, g, body)
       \/ \E ok \in BOOLEAN : EndCheck(a, ok)
       \/ PatchGateway(a) \/ DeleteGateway(a)

Spec == Init /\ [][Next]_vars

-----------------------------------------------------------------------------
(* The gateways, the tasks, who works on them and what was counted. *)
TypeOK ==
  /\ \A g \in Gateways :
       /\ rows[g].made \in {"yes", "no", "gone"} /\ rows[g].health \in {"unknown", "healthy", "degraded", "down"}
       /\ rows[g].failures \in 0..MaxOutcomes /\ rows[g].cooling \in BOOLEAN
       /\ streak[g] \in 0..MaxOutcomes
  /\ \A t \in ImageTasks :
       /\ tasks[t].status \in {"none", "queued", "processing", "ended", "deleted"}
       /\ tasks[t].gateway \in Gateways \cup {NoGateway}
       /\ working[t].pc \in {"idle", "inserting", "choosing", "replacing", "ready", "calling", "failed"}
  /\ outcomes \in 0..MaxOutcomes /\ requests \in 0..MaxRequests

(* A gateway is not deleted under a worker that is about to call it or      *)
(* calls it, whatever was assigned, reassigned and counted before, as long  *)
(* as the task is there.  Deleting the task's user first makes way for it.  *)
CalledGatewayExists ==
  \A t \in ImageTasks :
    working[t].pc \in {"ready", "calling", "failed"} /\ ~Deleted(t) => Exists(working[t].gateway)

(* Unless a patch wrote back a count or a health that had changed since it  *)
(* was read, or reset the count, a row tells what has happened since the    *)
(* last success: saves of other columns, checks and calls that end late do  *)
(* not lose a failure, and only Threshold failures in a row cool a gateway  *)
(* down or call it down.                                                    *)
HealthIsEarned ==
  \A g \in Gateways : ~touched[g] =>
    /\ rows[g].failures = streak[g]
    /\ rows[g].cooling \/ rows[g].health = "down" => streak[g] >= Threshold
=============================================================================
