----------------------------- MODULE Workspace -----------------------------
(***************************************************************************)
(* The workspace page of the browser (public/script.js): who it shows as   *)
(* signed in, its list of jobs, the card of the current result, and the    *)
(* polling of the job it waits for.                                        *)
(*                                                                         *)
(* A handler runs without interruption up to an await; it is a chain of    *)
(* operators on the record page, one per function of the script.  An await *)
(* is a request in net: it is served, and its answer is delivered to the   *)
(* handler, in any order with the other requests and with what the user    *)
(* does meanwhile.  The localStorage key of the last job survives a reload *)
(* and is kept in page with the rest.                                      *)
(***************************************************************************)
EXTENDS Naturals, FiniteSets, Bags

CONSTANTS
  Users, NoUser,
  JobCount,    \* the tasks of the run
  Earlier,     \* tasks of an earlier visit, with no end yet
  Patience,    \* POLL_INTERVALS.length + 2
  Gestures,    \* what the user of a run does
  MaxClicks,   \* bound of the model on gestures
  MaxErrors    \* bound of the model on requests that fail or whose answer is lost

AllGestures == {"submit", "select", "history", "jobs", "account", "login", "logout", "reload"}

WorkspaceAssumption ==
  /\ NoUser \notin Users
  /\ JobCount \in Nat
  /\ Earlier \subseteq 1..JobCount
  /\ Patience \in Nat \ {0}
  /\ Gestures \subseteq AllGestures
  /\ MaxClicks \in Nat
  /\ MaxErrors \in Nat

VARIABLES
  cookie,     \* the account of the session cookie
  owner,      \* server: whose task it is, NoUser before it exists
  status,     \* server: the status of a task
  page,
  net,        \* bag of requests that are under way
  announced,  \* completions announced with a toast
  clicks, errors

server == <<owner, status>>
bounds == <<clicks, errors>>
vars == <<cookie, server, page, net, announced, bounds>>

-----------------------------------------------------------------------------
(* Jobs and cards *)

(* Tasks, in the order of their creation *)
Jobs == 1..JobCount
NoJob == 0
NoTimer == 0
NoList == <<>>
NoCard == [job |-> NoJob, status |-> "none"]

Statuses == {"running", "partial", "succeeded", "failed"}

IsPendingStatus(s) == s \in {"running", "partial"}

(* Variant: a failed task is not recognised as finished. *)
IsTerminalStatus_Succeeded(s) == s = "succeeded"

IsTerminalStatus(s) == s \in {"succeeded", "failed"}

(* resolveResultUrl: a running task has a result once its first image is in *)
HasResult(s) == s \in {"partial", "succeeded"}

(* Lists are sorted by creation, and find() takes the first that fits. *)
Newest(js) == CHOOSE j \in js : \A k \in js : k <= j
WithResult(list) == {j \in DOMAIN list : HasResult(list[j])}
StillPending(list) == {j \in DOMAIN list : IsPendingStatus(list[j])}

Upsert(list, j, s) ==
  [k \in DOMAIN list \cup {j} |-> IF k = j THEN s ELSE list[k]]

-----------------------------------------------------------------------------
(* The functions of the script that handlers are made of *)

RememberActiveJob(p, j) == [p EXCEPT !.active = j, !.remembered = j]

(* Variant: the request for a toast outlives the polling. *)
StopJobPolling_KeepsNotify(p) ==
  [p EXCEPT !.timers = @ \ {p.pollTimer}, !.pollTimer = NoTimer, !.attempt = 0]

StopJobPolling(p) ==
  [p EXCEPT !.timers = @ \ {p.pollTimer}, !.pollTimer = NoTimer,
            !.attempt = 0, !.notify = FALSE]

FreshTimer(timers) == CHOOSE t \in 1..(Cardinality(timers) + 1) : t \notin timers

(* Variant: the timer that is already armed is not cleared. *)
ScheduleJobPoll_Leak(p) ==
  IF p.active = NoJob THEN p
  ELSE LET t == FreshTimer(p.timers)
       IN  [p EXCEPT !.timers = @ \cup {t}, !.pollTimer = t]

ScheduleJobPoll(p) ==
  IF p.active = NoJob THEN p
  ELSE LET armed == p.timers \ {p.pollTimer}
           t == FreshTimer(armed)
       IN  [p EXCEPT !.timers = armed \cup {t}, !.pollTimer = t]

RenderResultCard(p, j, s) == [p EXCEPT !.card = [job |-> j, status |-> s]]

(* renderJobs puts the newest result on the card unless a pending job is waited for. *)
RenderJobs(p, list) ==
  LET shown == [p EXCEPT !.jobs = list]
      waiting == p.active \in StillPending(list)
      done == WithResult(list)
  IN  IF done = {} \/ waiting THEN shown
      ELSE RenderResultCard(shown, Newest(done), list[Newest(done)])

ResetResultStage(p) ==
  [RememberActiveJob(StopJobPolling(p), NoJob) EXCEPT !.card = NoCard]

(* updateAccount(null); renderJobs([]); loadGateways(), which asks nothing then; resetResultStage() *)
SignOut(p) == ResetResultStage(RenderJobs([p EXCEPT !.user = NoUser], NoList))

StartJobPolling(p, j, notify) ==
  RememberActiveJob([p EXCEPT !.attempt = 0, !.notify = notify,
                              !.timers = @ \ {p.pollTimer}], j)

(* The job hydrateWorkspaceFromJobs resumes *)
Resumed(p, list) ==
  IF p.remembered \in StillPending(list) THEN p.remembered
  ELSE IF WithResult(list) = {} /\ StillPending(list) # {} THEN Newest(StillPending(list))
  ELSE NoJob

Hydrate(p, list) ==
  LET failed == {j \in DOMAIN list : list[j] = "failed"}
      best == IF WithResult(list) # {} THEN WithResult(list) ELSE failed
      j == Resumed(p, list)
  IN  IF DOMAIN list = {} THEN IF p.active = NoJob THEN ResetResultStage(p) ELSE p
      ELSE IF j # NoJob THEN StartJobPolling(RenderResultCard(p, j, list[j]), j, FALSE)
      ELSE IF best # {} THEN RenderResultCard(p, Newest(best), list[Newest(best)])
      ELSE p

Resumes(p, list) == DOMAIN list # {} /\ Resumed(p, list) # NoJob

-----------------------------------------------------------------------------
(* Requests: what is asked, with which cookie, and what the handler does    *)
(* with the answer.  A request for the list that follows a terminal poll    *)
(* keeps the job, its final status and whether to announce it.              *)

Request(kind, job, then) ==
  [kind |-> kind, job |-> job, then |-> then, as |-> cookie, stage |-> "sent",
   final |-> "none", notify |-> FALSE, list |-> NoList]

Kinds == {"me", "gateways", "jobs", "poll", "generate", "login", "logout"}
UnderWay == BagToSet(net)
Post(n, r) == n (+) SetToBag({r})
Finish(r) == net (-) SetToBag({r})
Answered(r) == [r EXCEPT !.stage = "answered"]

(* pollActiveJob up to its await *)
PollActiveJob(n, p) ==
  IF p.active = NoJob \/ p.user = NoUser THEN n
  ELSE Post(n, Request("poll", p.active, "poll"))

(* refreshJobs with a signed-in user; without one the list is empty at once *)
RefreshJobs(n, p, then) == IF p.user = NoUser THEN n ELSE Post(n, Request("jobs", NoJob, then))

-----------------------------------------------------------------------------

(* state at the load of the script, and refreshMe() *)
FreshPage(remembered) ==
  [user |-> NoUser, jobs |-> NoList, active |-> NoJob, remembered |-> remembered,
   timers |-> {}, pollTimer |-> NoTimer, attempt |-> 0, notify |-> FALSE, card |-> NoCard]

Init ==
  /\ cookie \in Users \cup {NoUser}
  /\ \E u \in Users : owner = [j \in Jobs |-> IF j \in Earlier THEN u ELSE NoUser]
  /\ status = [j \in Jobs |-> "running"]
  /\ page = FreshPage(NoJob)
  /\ net = SetToBag({Request("me", NoJob, "boot")})
  /\ announced = 0
  /\ clicks = 0
  /\ errors = 0

-----------------------------------------------------------------------------
(* The server *)

Created == {j \in Jobs : owner[j] # NoUser}

Progress(j) ==
  /\ j \in Created
  /\ \/ status[j] = "running" /\ \E s \in {"partial", "succeeded", "failed"} : status' = [status EXCEPT ![j] = s]
     \/ status[j] = "partial" /\ status' = [status EXCEPT ![j] = "succeeded"]
  /\ UNCHANGED <<cookie, owner, page, net, announced, bounds>>

(* What the server answers: a status, or the list of the owner's jobs *)
ReplyTo(r) ==
  CASE r.kind = "jobs" -> [j \in {k \in Created : owner[k] = r.as} |-> status[j]]
    [] r.kind = "poll" -> [j \in {r.job} |-> status[j]]
    [] OTHER -> NoList

Allowed(r) ==
  CASE r.kind = "jobs" -> r.as # NoUser
    [] r.kind = "poll" -> r.as # NoUser /\ owner[r.job] = r.as
    [] OTHER -> TRUE

Serve(r) ==
  /\ r.stage = "sent" /\ r.kind # "generate"
  /\ net' = Post(Finish(r), IF Allowed(r) THEN [Answered(r) EXCEPT !.list = ReplyTo(r)]
                            ELSE [r EXCEPT !.stage = "failed"])
  /\ UNCHANGED <<cookie, server, page, announced, bounds>>

(* A task that is created for a page that has gone is answered to nobody. *)
ServeGenerate(r) ==
  /\ r.stage = "sent" /\ r.kind = "generate"
  /\ IF r.as # NoUser /\ Created # Jobs
     THEN \E j \in Jobs \ Created :
            /\ \A k \in Jobs \ Created : j <= k
            /\ owner' = [owner EXCEPT ![j] = r.as]
            /\ net' = IF r.then = "gone" THEN Finish(r)
                      ELSE Post(Finish(r), [Answered(r) EXCEPT !.job = j])
     ELSE /\ net' = IF r.then = "gone" THEN Finish(r)
                    ELSE Post(Finish(r), [r EXCEPT !.stage = "failed"])
          /\ UNCHANGED owner
  /\ UNCHANGED <<cookie, status, page, announced, bounds>>

(* A request that never arrives and one whose answer is lost look alike. *)
Lose(r) ==
  /\ errors < MaxErrors
  /\ r.stage = "answered"
  /\ net' = Post(Finish(r), [r EXCEPT !.stage = "failed", !.list = NoList])
  /\ errors' = errors + 1
  /\ UNCHANGED <<cookie, server, page, announced, clicks>>

-----------------------------------------------------------------------------
(* The continuations of the handlers *)

(* refreshMe, for the first load and for the refresh button *)
DeliverMe(r) ==
  /\ r.kind = "me"
  /\ IF r.stage = "answered" /\ r.as # NoUser
     THEN /\ page' = [page EXCEPT !.user = r.as]
          /\ net' = Post(Finish(r), Request("gateways", NoJob, r.then))
     ELSE page' = SignOut(page) /\ net' = Finish(r)
  /\ UNCHANGED <<cookie, announced>>

DeliverLogin(r) ==
  /\ r.kind = "login"
  /\ IF r.stage = "answered"
     THEN /\ cookie' = r.as
          /\ page' = [page EXCEPT !.user = r.as]
          /\ net' = Post(Finish(r), [Request("gateways", NoJob, "login") EXCEPT !.as = r.as])
     ELSE net' = Finish(r) /\ UNCHANGED <<cookie, page>>
  /\ UNCHANGED announced

DeliverLogout(r) ==
  /\ r.kind = "logout"
  /\ IF r.stage = "answered"
     THEN cookie' = NoUser /\ page' = SignOut(page)
     ELSE UNCHANGED <<cookie, page>>
  /\ net' = Finish(r)
  /\ UNCHANGED announced

(* After loadGateways, which never throws: refreshMe ends; a first load and a login go on. *)
DeliverGateways(r) ==
  /\ r.kind = "gateways"
  /\ IF r.then = "account" THEN page' = page /\ net' = Finish(r)
     ELSE /\ page' = IF page.user = NoUser THEN Hydrate(RenderJobs(page, NoList), NoList) ELSE page
          /\ net' = RefreshJobs(Finish(r), page, "hydrate")
  /\ UNCHANGED <<cookie, announced>>

(* What follows a refreshJobs that returned the list of page p *)
AfterRefresh(r, p) ==
  CASE r.then = "hydrate" ->
         Hydrate(p, p.jobs)
    [] r.then = "jobs" /\ r.stage = "answered" /\ DOMAIN p.jobs # {} ->
         Hydrate(p, p.jobs)
    [] r.then = "history" /\ DOMAIN p.jobs # {} ->
         LET first == Newest(DOMAIN p.jobs)
             shown == RenderResultCard(p, first, p.jobs[first])
         IN  IF IsPendingStatus(p.jobs[first]) THEN StartJobPolling(shown, first, FALSE) ELSE shown
    [] r.then = "settled" ->
         LET list == Upsert(p.jobs, r.job, r.final)
         IN  Hydrate(RenderResultCard(RenderJobs(p, list), r.job, r.final), list)
    [] OTHER -> p

PollsAfterRefresh(r, p) ==
  CASE r.then = "hydrate" -> Resumes(p, p.jobs)
    [] r.then = "jobs" -> r.stage = "answered" /\ Resumes(p, p.jobs)
    [] r.then = "history" -> DOMAIN p.jobs # {} /\ IsPendingStatus(p.jobs[Newest(DOMAIN p.jobs)])
    [] r.then = "settled" ->
         LET list == Upsert(p.jobs, r.job, r.final)
         IN  Resumes(RenderJobs(p, list), list)
    [] OTHER -> FALSE

DeliverJobs(r) ==
  /\ r.kind = "jobs"
  /\ LET p == IF r.stage = "answered" THEN RenderJobs(page, r.list) ELSE page
     IN  /\ page' = AfterRefresh(r, p)
         /\ net' = IF PollsAfterRefresh(r, p) THEN PollActiveJob(Finish(r), page') ELSE Finish(r)
  /\ announced' = IF r.notify THEN announced + 1 ELSE announced
  /\ UNCHANGED cookie

AtMost(n, bound) == IF n > bound THEN bound ELSE n

ShowPolled(p, j, s) ==
  RenderResultCard(RenderJobs(p, Upsert(p.jobs, j, s)), j, s)

PollPending(r) ==
  /\ r.stage = "answered" /\ ~IsTerminalStatus(r.list[r.job])
  /\ page' = ScheduleJobPoll([ShowPolled(page, r.job, r.list[r.job])
                                EXCEPT !.attempt = AtMost(@ + 1, Patience)])
  /\ net' = Finish(r)
  /\ UNCHANGED announced

(* The polling stops, whichever job it now is for, and the list is read again. *)
PollFinished(r) ==
  /\ r.stage = "answered" /\ IsTerminalStatus(r.list[r.job])
  /\ LET final == r.list[r.job]
         shown == ShowPolled(page, r.job, final)
         stopped == RememberActiveJob(StopJobPolling(shown), NoJob)
     IN  /\ page' = IF page.user # NoUser THEN stopped
                    ELSE ResetResultStage(ShowPolled(RenderJobs(stopped, NoList), r.job, final))
         /\ net' = IF page.user = NoUser THEN Finish(r)
                   ELSE Post(Finish(r), [Request("jobs", r.job, "settled")
                                           EXCEPT !.final = final, !.notify = page.notify])
         /\ announced' = IF page.user = NoUser /\ page.notify THEN announced + 1 ELSE announced

(* Every poll counts as an attempt, the answered ones too. *)
PollFailed(r) ==
  /\ r.stage = "failed"
  /\ page' = IF page.attempt + 1 >= Patience THEN StopJobPolling(page)
             ELSE ScheduleJobPoll([page EXCEPT !.attempt = @ + 1])
  /\ net' = Finish(r)
  /\ UNCHANGED announced

DeliverPoll(r) ==
  /\ r.kind = "poll"
  /\ PollPending(r) \/ PollFinished(r) \/ PollFailed(r)
  /\ UNCHANGED cookie

DeliverGenerate(r) ==
  /\ r.kind = "generate"
  /\ IF r.stage = "answered"
     THEN LET shown == ShowPolled(page, r.job, "running")
          IN  /\ page' = StartJobPolling(shown, r.job, TRUE)
              /\ net' = PollActiveJob(Finish(r), page')
     ELSE page' = page /\ net' = Finish(r)
  /\ UNCHANGED <<cookie, announced>>

Deliver(r) ==
  /\ r.stage # "sent"
  /\ \/ DeliverMe(r) \/ DeliverLogin(r) \/ DeliverLogout(r) \/ DeliverGateways(r)
     \/ DeliverJobs(r) \/ DeliverPoll(r) \/ DeliverGenerate(r)
  /\ UNCHANGED <<server, bounds>>

TimerFires ==
  /\ \E t \in page.timers :
       LET fired == [page EXCEPT !.timers = @ \ {t}]
       IN  page' = fired /\ net' = PollActiveJob(net, fired)
  /\ UNCHANGED <<cookie, server, announced, bounds>>

(* withTimeout: the button gives up after 12 s; the request goes on without it *)
RefreshTimesOut(r) ==
  /\ r.kind = "jobs" /\ r.then = "jobs"
  /\ net' = Post(Finish(r), [r EXCEPT !.then = "expired"])
  /\ UNCHANGED <<cookie, server, page, announced, bounds>>

-----------------------------------------------------------------------------
(* The user *)

Click(gesture) ==
  /\ gesture \in Gestures
  /\ clicks < MaxClicks
  /\ clicks' = clicks + 1
  /\ UNCHANGED <<server, announced, errors>>

SignedIn == page.user # NoUser

(* Ctrl+Enter submits again while the button is disabled. *)
SubmitPrompt ==
  /\ Click("submit") /\ SignedIn
  /\ net' = Post(net, Request("generate", NoJob, "generate"))
  /\ UNCHANGED <<cookie, page>>

SelectJob(j) ==
  /\ Click("select") /\ j \in DOMAIN page.jobs
  /\ LET s == page.jobs[j]
         shown == RenderResultCard(page, j, s)
     IN  IF IsPendingStatus(s)
         THEN /\ page' = StartJobPolling(shown, j, FALSE)
              /\ net' = PollActiveJob(net, page')
         ELSE page' = shown /\ net' = net
  /\ UNCHANGED cookie

HistoryTab ==
  /\ Click("history") /\ SignedIn
  /\ net' = RefreshJobs(net, page, "history")
  /\ UNCHANGED <<cookie, page>>

RefreshJobsButton ==
  /\ Click("jobs")
  /\ page' = IF SignedIn THEN page ELSE RenderJobs(page, NoList)
  /\ net' = RefreshJobs(net, page, "jobs")
  /\ UNCHANGED cookie

RefreshAccount ==
  /\ Click("account")
  /\ net' = Post(net, Request("me", NoJob, "account"))
  /\ UNCHANGED <<cookie, page>>

Login(u) ==
  /\ Click("login") /\ ~SignedIn
  /\ net' = Post(net, [Request("login", NoJob, "login") EXCEPT !.as = u])
  /\ UNCHANGED <<cookie, page>>

Logout ==
  /\ Click("logout") /\ SignedIn
  /\ net' = Post(net, Request("logout", NoJob, "logout"))
  /\ UNCHANGED <<cookie, page>>

(* The page goes; a submission that is on its way may still reach the server. *)
Reload ==
  /\ Click("reload")
  /\ page' = FreshPage(page.remembered)
  /\ \E kept \in SUBSET {r \in UnderWay : r.kind = "generate" /\ r.stage = "sent"} :
       net' = SetToBag({[r EXCEPT !.then = "gone"] : r \in kept} \cup {Request("me", NoJob, "boot")})
  /\ UNCHANGED cookie

-----------------------------------------------------------------------------

ServeAny == \E r \in UnderWay : Serve(r) \/ ServeGenerate(r)
DeliverAny == \E r \in UnderWay : Deliver(r)

Next ==
  \/ \E j \in Jobs : Progress(j) \/ SelectJob(j)
  \/ \E r \in UnderWay : Lose(r) \/ RefreshTimesOut(r)
  \/ ServeAny
  \/ DeliverAny
  \/ TimerFires
  \/ SubmitPrompt \/ HistoryTab \/ RefreshJobsButton \/ RefreshAccount
  \/ \E u \in Users : Login(u)
  \/ Logout \/ Reload

Spec == Init /\ [][Next]_vars

(* Requests are answered, answers reach the page, timers fire, tasks end.   *)
(* Nothing is assumed of the user.                                          *)
FairSpec ==
  /\ Spec
  /\ WF_vars(ServeAny) /\ WF_vars(DeliverAny) /\ WF_vars(TimerFires)
  /\ \A j \in Jobs : WF_vars(Progress(j))

-----------------------------------------------------------------------------
(* Properties *)

(* The page, the server and the requests have the shapes the handlers rely  *)
(* on; in particular an answered poll carries the status of its job, which  *)
(* pollActiveJob reads without a check.                                     *)
TypeOK ==
  /\ cookie \in Users \cup {NoUser}
  /\ owner \in [Jobs -> Users \cup {NoUser}]
  /\ status \in [Jobs -> Statuses]
  /\ DOMAIN page = DOMAIN FreshPage(NoJob)
  /\ page.user \in Users \cup {NoUser}
  /\ DOMAIN page.jobs \subseteq Jobs /\ \A j \in DOMAIN page.jobs : page.jobs[j] \in Statuses
  /\ page.active \in Jobs \cup {NoJob} /\ page.remembered \in Jobs \cup {NoJob}
  /\ page.timers \subseteq Nat /\ page.pollTimer \in Nat
  /\ page.attempt \in 0..Patience
  /\ page.notify \in BOOLEAN
  /\ page.card = NoCard \/ (page.card.job \in Jobs /\ page.card.status \in Statuses)
  /\ \A r \in UnderWay :
       /\ r.kind \in Kinds
       /\ r.kind = "poll" => r.job \in Created /\ (r.stage = "answered" => r.job \in DOMAIN r.list)
  /\ announced \in Nat
  /\ clicks \in 0..MaxClicks
  /\ errors \in 0..MaxErrors

(* Whatever overlaps (a poll in flight, a click on another job, an answer   *)
(* that is late), at most one timer is armed, so the page never polls at    *)
(* twice its rate, and once it waits for no job, no answer that is still on *)
(* its way sets the polling going again (scheduleJobPoll, startJobPolling   *)
(* and stopJobPolling clear pollTimer and the first looks at activeJobId).  *)
OneTimer ==
  /\ Cardinality(page.timers) <= 1
  /\ page.timers # {} => page.active # NoJob

(* Every toast that announces a completion is paid for by a submission of   *)
(* its own: notifyOnJobFinish is taken back before the await that precedes  *)
(* the toast, and only a submission sets it again, so that polls, visits to *)
(* earlier tasks and reloads never bring a toast.  It is the number that is *)
(* kept, not whose completion it is: the flag is one for all tasks, and an  *)
(* answer to a second poll of a task takes the flag of the submission that  *)
(* came last, announces the first task again, and ends the wait for the     *)
(* other.                                                                   *)
ToastsAreCovered == announced <= Cardinality(Created \ Earlier)

Polling == page.timers # {} \/ \E r \in UnderWay : r.kind = "poll"

(* Something is on its way after which the page resumes a pending job. *)
Resuming ==
  \E r \in UnderWay : r.kind \in {"me", "gateways", "jobs", "generate", "login"}

(* While the page waits for a job that it lists as pending it is polling,   *)
(* or about to hear from a request it waits for: the polling never stops    *)
(* silently.                                                                *)
WaitingIsPolling ==
  SignedIn /\ page.active \in StillPending(page.jobs) => Polling \/ Resuming

(* Polling comes to an end: when the user has stopped clicking and tasks    *)
(* end, the page stops asking the server.                                   *)
PollingSettles == <>[](~Polling)

(* With one task, a job that is remembered across reloads, history visits   *)
(* and refreshes ends up in the list as finished.                           *)
RememberedJobIsShown ==
  \A j \in Jobs :
    (SignedIn /\ page.active = j) ~> (j \in DOMAIN page.jobs /\ IsTerminalStatus(page.jobs[j]))
=============================================================================
