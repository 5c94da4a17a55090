--------------------------- MODULE AccountWarnings ---------------------------
(***************************************************************************)
(* Warnings that administrators send to an account (AdminService.warnUser, *)
(* AuthService) and the dialog that shows them to the user, one at a time  *)
(* (public/script.js).  The dialog belongs to several handlers that are    *)
(* suspended at an await: refreshes of the account, which show the newest  *)
(* warning they were answered, and acknowledgements, which close it.       *)
(***************************************************************************)
EXTENDS Naturals, FiniteSets, FiniteSetsExt

CONSTANTS
  WarningCount,  \* the warnings of the run, numbered as they are sent
  Earlier,       \* how many of them were sent before the page was opened
  PageLimit,     \* LIMIT of pendingWarnings, 5 in the service
  MaxRefreshes,  \* bound of the model on refreshes and logins
  MaxErrors      \* bound of the model on lost answers

(* What is assumed of the constants, by the module that gives their values *)
AccountWarningsAssumption ==
  /\ WarningCount \in Nat /\ PageLimit \in Nat \ {0}
  /\ Earlier \in 0..WarningCount
  /\ MaxRefreshes \in Nat /\ MaxErrors \in Nat

VARIABLES
  sent, acknowledged,   \* server: warnings 1..sent, and those acknowledged
  signedIn,
  open, active,         \* the dialog, and activeAccountWarningId
  net,                  \* calls under way
  timers,               \* lists that a timeout of 80 ms will show
  seen,      \* history: warnings shown, and those the dialog was closed on
  refreshes, errors

server == <<sent, acknowledged>>
dialog == <<open, active, seen>>
bounds == <<refreshes, errors>>
vars == <<server, signedIn, dialog, net, timers, bounds>>

None == 0
Warnings == 1..WarningCount

(* pendingWarnings: the newest few; only their newest is ever shown *)
PendingWarnings ==
  LET pending == (1..sent) \ acknowledged
  IN  {w \in pending : Cardinality({v \in pending : v > w}) < PageLimit}

FirstPendingWarning(list) == IF list = {} THEN None ELSE Max(list)

Call(kind, w) ==
  [kind |-> kind, warning |-> w, stage |-> "sent", list |-> {}, id |-> refreshes]

-----------------------------------------------------------------------------
(* The dialog *)

ShowAccountWarningIfNeeded(list) ==
  IF list = {} THEN UNCHANGED dialog
  ELSE /\ open' = TRUE
       /\ active' = FirstPendingWarning(list)
       /\ seen' = seen \cup {FirstPendingWarning(list)}

Init ==
  /\ sent = Earlier /\ acknowledged = {}
  /\ signedIn = FALSE
  /\ open = FALSE /\ active = None
  /\ net = {} /\ timers = {}
  /\ seen = {}
  /\ refreshes = 0 /\ errors = 0

-----------------------------------------------------------------------------
(* The service *)

WarnUser ==
  /\ sent < WarningCount
  /\ sent' = sent + 1
  /\ UNCHANGED <<acknowledged, signedIn, dialog, net, timers, bounds>>

(* GET /api/me, and the login, answer the account with its warnings. *)
ServeMe(c) ==
  /\ c.kind = "me" /\ c.stage = "sent"
  /\ net' = (net \ {c}) \cup {[c EXCEPT !.stage = "answered", !.list = PendingWarnings]}
  /\ UNCHANGED <<server, signedIn, dialog, timers, bounds>>

(* Variant: whatever is pending is acknowledged with it. *)
AcknowledgeWarning_All(c) ==
  /\ c.kind = "ack" /\ c.stage = "sent"
  /\ acknowledged' = 1..sent
  /\ net' = (net \ {c}) \cup {[c EXCEPT !.stage = "answered"]}
  /\ UNCHANGED <<sent, signedIn, dialog, timers, bounds>>

AcknowledgeWarning(c) ==
  /\ c.kind = "ack" /\ c.stage = "sent"
  /\ acknowledged' = acknowledged \cup {c.warning}
  /\ net' = (net \ {c}) \cup {[c EXCEPT !.stage = "answered", !.list = PendingWarnings \ {c.warning}]}
  /\ UNCHANGED <<sent, signedIn, dialog, timers, bounds>>

Lose(c) ==
  /\ errors < MaxErrors /\ errors' = errors + 1
  /\ c.stage \in {"sent", "answered"}
  /\ net' = (net \ {c}) \cup {[c EXCEPT !.stage = "failed", !.list = {}]}
  /\ UNCHANGED <<server, signedIn, dialog, timers, refreshes>>

-----------------------------------------------------------------------------
(* The page *)

(* refreshMe, and a login *)
Refresh ==
  /\ refreshes < MaxRefreshes /\ refreshes' = refreshes + 1
  /\ net' = net \cup {Call("me", None)}
  /\ UNCHANGED <<server, signedIn, dialog, timers, errors>>

(* updateAccount, and the await of loadGateways that comes before the dialog *)
AccountArrives(c) ==
  /\ c.kind = "me" /\ c.stage = "answered"
  /\ signedIn' = TRUE
  /\ net' = (net \ {c}) \cup {[c EXCEPT !.stage = "gateways"]}
  /\ UNCHANGED <<server, dialog, timers, bounds>>

WarningArrives(c) ==
  /\ c.kind = "me" /\ c.stage = "gateways"
  /\ ShowAccountWarningIfNeeded(c.list)
  /\ net' = net \ {c}
  /\ UNCHANGED <<server, signedIn, timers, bounds>>

RefreshFails(c) ==
  /\ c.kind = "me" /\ c.stage = "failed"
  /\ signedIn' = FALSE
  /\ net' = net \ {c}
  /\ UNCHANGED <<server, dialog, timers, bounds>>

(* The button, the Escape key and a click beside the dialog *)
Dismiss ==
  /\ open
  /\ IF active = None
     THEN open' = FALSE /\ UNCHANGED <<active, net>>
     ELSE /\ active' = None
          /\ net' = net \cup {Call("ack", active)}
          /\ UNCHANGED open
  /\ UNCHANGED <<server, signedIn, seen, timers, bounds>>

(* Variant: the next warning waits for a refresh. *)
Acknowledged_NoTimer(c) ==
  /\ c.kind = "ack" /\ c.stage = "answered"
  /\ signedIn' = TRUE
  /\ open' = FALSE
  /\ net' = net \ {c}
  /\ UNCHANGED <<server, active, seen, timers, bounds>>

(* The account is updated, the dialog closes whatever it shows by now, and  *)
(* the timeout will show what is left.                                      *)
Acknowledged(c) ==
  /\ c.kind = "ack" /\ c.stage = "answered"
  /\ signedIn' = TRUE
  /\ open' = FALSE
  /\ timers' = timers \cup {c.list}
  /\ net' = net \ {c}
  /\ UNCHANGED <<server, active, seen, bounds>>

(* The error is shown as a toast. *)
AcknowledgementFails(c) ==
  /\ c.kind = "ack" /\ c.stage = "failed"
  /\ open' = FALSE
  /\ net' = net \ {c}
  /\ UNCHANGED <<server, signedIn, active, seen, timers, bounds>>

TimerFires(list) ==
  /\ ShowAccountWarningIfNeeded(list)
  /\ timers' = timers \ {list}
  /\ UNCHANGED <<server, signedIn, net, bounds>>

Logout ==
  /\ signedIn
  /\ signedIn' = FALSE
  /\ UNCHANGED <<server, dialog, net, timers, bounds>>

Answer(c) ==
  \/ ServeMe(c) \/ AcknowledgeWarning(c)
  \/ AccountArrives(c) \/ WarningArrives(c) \/ RefreshFails(c)
  \/ Acknowledged(c) \/ AcknowledgementFails(c)

Answers == \E c \in net : Answer(c)
Timers == \E list \in timers : TimerFires(list)

Next ==
  \/ WarnUser
  \/ Refresh \/ Dismiss \/ Logout
  \/ Answers \/ Timers
  \/ \E c \in net : Lose(c)

Spec == Init /\ [][Next]_vars

(* Calls are answered, timeouts fire, and the user closes a dialog that is  *)
(* open: it is modal.                                                       *)
FairSpec == Spec /\ WF_vars(Answers) /\ WF_vars(Timers) /\ WF_vars(Dismiss)

-----------------------------------------------------------------------------
(* Properties *)

(* The dialog and the calls have the shapes the handlers rely on; an answer *)
(* carries no more warnings than the service reads.                         *)
TypeOK ==
  /\ sent \in 0..WarningCount /\ acknowledged \subseteq 1..sent
  /\ signedIn \in BOOLEAN /\ open \in BOOLEAN
  /\ active \in 0..sent
  /\ \A c \in net : c.list \subseteq 1..sent /\ Cardinality(c.list) <= PageLimit
  /\ timers \subseteq SUBSET (1..sent)

(* No warning is acknowledged that the user was not shown, whatever refresh *)
(* replaced the text of the dialog while an acknowledgement was under way.  *)
AcknowledgedWasShown == acknowledged \subseteq seen

(* The dialog never stands open with nothing to acknowledge and no call     *)
(* under way that will close it: it cannot trap the user.                   *)
DialogCanBeAnswered == open /\ active = None => \E c \in net : c.kind = "ack"

(* Once the warnings are loaded, all of them come up one after the other    *)
(* until they are acknowledged, without another refresh (the timeout after  *)
(* an acknowledgement), when no answer is lost and none is sent meanwhile.  *)
ReadUpTo(w) == 1..w \subseteq acknowledged

LoadedWarningsDrain == \A w \in Warnings : w \in seen ~> ReadUpTo(w)
=============================================================================
