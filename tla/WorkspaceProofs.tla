--------------------------- MODULE WorkspaceProofs ---------------------------
(***************************************************************************)
(* The workspace page, for any number of users, tasks, clicks and failures.*)
(***************************************************************************)
EXTENDS Workspace, FiniteSetTheorems, WellFoundedInduction, TLAPS

-----------------------------------------------------------------------------
(* The poll timer of the page.  Every function of the script keeps it that  *)
(* the one timer that can be armed is the one that pollTimer names, so that *)
(* the next function clears it, and that it is armed for a job.             *)

PageFields == DOMAIN FreshPage(NoJob)

(* The inductive invariant: a timer that was forgotten, because pollTimer   *)
(* no longer names it, could never be cleared.                              *)
TimerKnown(p) ==
  /\ DOMAIN p = PageFields
  /\ p.timers \subseteq {p.pollTimer}
  /\ p.timers # {} => p.active # NoJob

TimerInvariant == TimerKnown(page)

-----------------------------------------------------------------------------
(* The functions of the script *)

(* The fields that the functions rely on *)
LEMMA Fields ==
  PageFields = {"user", "jobs", "active", "remembered", "timers", "pollTimer", "attempt", "notify", "card"}
  BY DEF PageFields, FreshPage

(* A page that starts waits for nothing. *)
LEMMA FreshKnown == ASSUME NEW j PROVE TimerKnown(FreshPage(j))
  BY DEF TimerKnown, FreshPage, PageFields

(* renderResultCard and renderJobs do not touch the polling. *)
LEMMA CardKnown ==
  ASSUME NEW p, TimerKnown(p), NEW j, NEW s
  PROVE  TimerKnown(RenderResultCard(p, j, s))
  BY Fields DEF TimerKnown, RenderResultCard

LEMMA JobsKnown ==
  ASSUME NEW p, TimerKnown(p), NEW list
  PROVE  TimerKnown(RenderJobs(p, list))
<1> DEFINE shown == [p EXCEPT !.jobs = list]
<1>1. TimerKnown(shown)
  BY Fields DEF TimerKnown
<1> HIDE DEF shown
<1>2. TimerKnown(RenderResultCard(shown, Newest(WithResult(list)), list[Newest(WithResult(list))]))
  BY <1>1, CardKnown
<1> QED
  BY <1>1, <1>2 DEF RenderJobs, shown

(* stopJobPolling, and then no job is waited for. *)
LEMMA StopKnown ==
  ASSUME NEW p, TimerKnown(p)
  PROVE  /\ TimerKnown(StopJobPolling(p)) /\ StopJobPolling(p).timers = {}
         /\ TimerKnown(RememberActiveJob(StopJobPolling(p), NoJob))
  BY Fields DEF TimerKnown, StopJobPolling, RememberActiveJob, NoTimer

(* startJobPolling clears the timer; the first poll is sent at once. *)
LEMMA StartKnown ==
  ASSUME NEW p, TimerKnown(p), NEW j, NEW notify
  PROVE  TimerKnown(StartJobPolling(p, j, notify))
  BY Fields DEF TimerKnown, StartJobPolling, RememberActiveJob

(* scheduleJobPoll arms a timer for a job only, after it has cleared the    *)
(* one before.                                                              *)
LEMMA ScheduleKnown ==
  ASSUME NEW p, TimerKnown(p)
  PROVE  TimerKnown(ScheduleJobPoll(p))
<1>1. CASE p.active = NoJob
  BY <1>1 DEF ScheduleJobPoll
<1>2. CASE p.active # NoJob
  <2> DEFINE t == FreshTimer(p.timers \ {p.pollTimer})
  <2>1. ScheduleJobPoll(p) = [p EXCEPT !.timers = {t}, !.pollTimer = t]
    <3>1. p.timers \ {p.pollTimer} = {}
      BY DEF TimerKnown
    <3> QED
      BY <1>2, <3>1 DEF ScheduleJobPoll
  <2> HIDE DEF t
  <2> QED
    BY <1>2, <2>1, Fields DEF TimerKnown
<1> QED
  BY <1>1, <1>2

LEMMA ResetKnown ==
  ASSUME NEW p, TimerKnown(p)
  PROVE  TimerKnown(ResetResultStage(p))
<1> DEFINE q == RememberActiveJob(StopJobPolling(p), NoJob)
<1>1. TimerKnown(q)
  BY StopKnown
<1> HIDE DEF q
<1>2. TimerKnown([q EXCEPT !.card = NoCard])
  BY <1>1, Fields DEF TimerKnown
<1> QED
  BY <1>2 DEF ResetResultStage, q

LEMMA SignOutKnown ==
  ASSUME NEW p, TimerKnown(p)
  PROVE  TimerKnown(SignOut(p))
<1>1. TimerKnown([p EXCEPT !.user = NoUser])
  BY Fields DEF TimerKnown
<1> QED
  BY <1>1, JobsKnown, ResetKnown DEF SignOut

(* hydrateWorkspaceFromJobs resets, resumes a job or shows a result. *)
LEMMA HydrateKnown ==
  ASSUME NEW p, TimerKnown(p), NEW list
  PROVE  TimerKnown(Hydrate(p, list))
  BY CardKnown, ResetKnown, StartKnown DEF Hydrate

(* A poll that was answered is shown in the list and on the card. *)
LEMMA PolledKnown ==
  ASSUME NEW p, TimerKnown(p), NEW j, NEW s
  PROVE  TimerKnown(ShowPolled(p, j, s))
  BY CardKnown, JobsKnown DEF ShowPolled

LEMMA RefreshKnown ==
  ASSUME NEW p, TimerKnown(p), NEW r
  PROVE  TimerKnown(AfterRefresh(r, p))
<1>1. TimerKnown(Hydrate(p, p.jobs))
  BY HydrateKnown
<1>2. LET first == Newest(DOMAIN p.jobs)
          shown == RenderResultCard(p, first, p.jobs[first])
      IN  TimerKnown(shown) /\ TimerKnown(StartJobPolling(shown, first, FALSE))
  BY CardKnown, StartKnown
<1>3. LET list == Upsert(p.jobs, r.job, r.final)
      IN  TimerKnown(Hydrate(RenderResultCard(RenderJobs(p, list), r.job, r.final), list))
  BY CardKnown, JobsKnown, HydrateKnown
<1> QED
  BY <1>1, <1>2, <1>3 DEF AfterRefresh

-----------------------------------------------------------------------------
(* The steps *)

(* A page that was loaded arms no timer. *)
LEMMA InitKnown == Init => TimerInvariant
  BY FreshKnown DEF Init, TimerInvariant

LEMMA DeliverPollKnown ==
  ASSUME TimerInvariant, NEW r, DeliverPoll(r)
  PROVE  TimerInvariant'
<1> USE DEF TimerInvariant
<1>1. CASE PollPending(r)
  <2> DEFINE shown == ShowPolled(page, r.job, r.list[r.job])
             q == [shown EXCEPT !.attempt = AtMost(@ + 1, Patience)]
  <2>1. TimerKnown(shown)
    BY PolledKnown
  <2> HIDE DEF shown
  <2>2. TimerKnown(q)
    BY <2>1, Fields DEF TimerKnown
  <2>3. page' = ScheduleJobPoll(q)
    BY <1>1 DEF PollPending, shown
  <2> HIDE DEF q
  <2> QED
    BY <2>2, <2>3, ScheduleKnown
<1>2. CASE PollFinished(r)
  <2> DEFINE final == r.list[r.job]
             stopped == RememberActiveJob(StopJobPolling(ShowPolled(page, r.job, final)), NoJob)
  <2>1. TimerKnown(stopped)
    BY PolledKnown, StopKnown
  <2>2. page' = stopped \/ page' = ResetResultStage(ShowPolled(RenderJobs(stopped, NoList), r.job, final))
    BY <1>2 DEF PollFinished
  <2> HIDE DEF stopped
  <2> QED
    BY <2>1, <2>2, JobsKnown, PolledKnown, ResetKnown
<1>3. CASE PollFailed(r)
  <2> DEFINE q == [page EXCEPT !.attempt = @ + 1]
  <2>1. TimerKnown(q)
    BY Fields DEF TimerKnown
  <2>2. page' = StopJobPolling(page) \/ page' = ScheduleJobPoll(q)
    BY <1>3 DEF PollFailed
  <2> HIDE DEF q
  <2> QED
    BY <2>1, <2>2, StopKnown, ScheduleKnown
<1> QED
  BY <1>1, <1>2, <1>3 DEF DeliverPoll

(* Whatever answer arrives, and however late. *)
LEMMA DeliverKnown ==
  ASSUME TimerInvariant, NEW r, Deliver(r)
  PROVE  TimerInvariant'
<1> USE DEF TimerInvariant
<1>1. CASE DeliverMe(r)
  <2>1. TimerKnown([page EXCEPT !.user = r.as])
    BY Fields DEF TimerKnown
  <2> QED
    BY <1>1, <2>1, SignOutKnown DEF DeliverMe
<1>2. CASE DeliverLogin(r)
  <2>1. TimerKnown([page EXCEPT !.user = r.as])
    BY Fields DEF TimerKnown
  <2> QED
    BY <1>2, <2>1 DEF DeliverLogin
<1>3. CASE DeliverLogout(r)
  BY <1>3, SignOutKnown DEF DeliverLogout
<1>4. CASE DeliverGateways(r)
  BY <1>4, JobsKnown, HydrateKnown DEF DeliverGateways
<1>5. CASE DeliverJobs(r)
  <2>1. \E p : TimerKnown(p) /\ page' = AfterRefresh(r, p)
    <3>1. TimerKnown(RenderJobs(page, r.list)) /\ TimerKnown(page)
      BY JobsKnown
    <3> QED
      BY <1>5, <3>1 DEF DeliverJobs
  <2> QED
    BY <2>1, RefreshKnown
<1>6. CASE DeliverPoll(r)
  BY <1>6, DeliverPollKnown
<1>7. CASE DeliverGenerate(r)
  BY <1>7, PolledKnown, StartKnown DEF DeliverGenerate
<1> QED
  BY <1>1, <1>2, <1>3, <1>4, <1>5, <1>6, <1>7 DEF Deliver

(* A timer that fires is armed no longer. *)
LEMMA FiresKnown ==
  ASSUME TimerInvariant, TimerFires
  PROVE  TimerInvariant'
<1>1. PICK t \in page.timers : page' = [page EXCEPT !.timers = @ \ {t}]
  BY DEF TimerFires
<1> QED
  BY <1>1, Fields DEF TimerInvariant, TimerKnown

LEMMA SelectKnown ==
  ASSUME TimerInvariant, NEW j, SelectJob(j)
  PROVE  TimerInvariant'
<1>1. TimerKnown(RenderResultCard(page, j, page.jobs[j]))
  BY CardKnown DEF TimerInvariant
<1>2. TimerKnown(StartJobPolling(RenderResultCard(page, j, page.jobs[j]), j, FALSE))
  BY <1>1, StartKnown
<1> QED
  BY <1>1, <1>2 DEF SelectJob, TimerInvariant

LEMMA StepKnown == TimerInvariant /\ [Next]_vars => TimerInvariant'
<1> SUFFICES ASSUME TimerInvariant, [Next]_vars
             PROVE  TimerInvariant'
  OBVIOUS
<1>1. ASSUME page' = page
      PROVE  TimerInvariant'
  BY <1>1 DEF TimerInvariant
<1>2. CASE UNCHANGED vars
  BY <1>1, <1>2 DEF vars
<1>3. CASE \E j \in Jobs : Progress(j)
  BY <1>1, <1>3 DEF Progress
<1>4. CASE \E j \in Jobs : SelectJob(j)
  BY <1>4, SelectKnown
<1>5. CASE \E r \in UnderWay : Lose(r) \/ RefreshTimesOut(r)
  BY <1>1, <1>5 DEF Lose, RefreshTimesOut
<1>6. CASE ServeAny
  BY <1>1, <1>6 DEF ServeAny, Serve, ServeGenerate
<1>7. CASE DeliverAny
  BY <1>7, DeliverKnown DEF DeliverAny
<1>8. CASE TimerFires
  BY <1>8, FiresKnown
<1>9. CASE SubmitPrompt \/ HistoryTab \/ RefreshAccount \/ (\E u \in Users : Login(u)) \/ Logout
  BY <1>1, <1>9 DEF SubmitPrompt, HistoryTab, RefreshAccount, Login, Logout
<1>10. CASE RefreshJobsButton
  BY <1>10, JobsKnown DEF RefreshJobsButton, TimerInvariant
<1>11. CASE Reload
  BY <1>11, FreshKnown DEF Reload, TimerInvariant
<1> QED
  BY <1>2, <1>3, <1>4, <1>5, <1>6, <1>7, <1>8, <1>9, <1>10, <1>11 DEF Next

-----------------------------------------------------------------------------

(* The poll timer is always the one that the script knows of. *)
THEOREM TimerInvariance == Spec => []TimerInvariant
  BY InitKnown, StepKnown, PTL DEF Spec

(* However polls, answers, clicks, sign-ins and reloads overlap, at most one *)
(* timer is armed, and none when the page waits for no job.                  *)
THEOREM OneTimerAlways == Spec => []OneTimer
<1>1. TimerInvariant => OneTimer
  <2> SUFFICES ASSUME TimerInvariant PROVE OneTimer
    OBVIOUS
  <2>1. page.timers \subseteq {page.pollTimer}
    BY DEF TimerInvariant, TimerKnown
  <2>2. Cardinality({page.pollTimer}) = 1 /\ IsFiniteSet({page.pollTimer})
    BY FS_Singleton
  <2>3. Cardinality(page.timers) <= Cardinality({page.pollTimer})
    BY <2>1, <2>2, FS_Subset
  <2> QED
    BY <2>2, <2>3 DEF OneTimer, TimerInvariant, TimerKnown
<1> QED
  BY <1>1, TimerInvariance, PTL

-----------------------------------------------------------------------------
(* The requests under way are a bag: how many of each there are after one   *)
(* was sent or answered.                                                    *)

IsBag(n) == \A q \in DOMAIN n : n[q] \in Nat \ {0}

LEMMA PostIs ==
  ASSUME NEW n, IsBag(n), NEW r
  PROVE  /\ DOMAIN Post(n, r) = DOMAIN n \cup {r} /\ IsBag(Post(n, r))
         /\ \A q \in DOMAIN n \ {r} : Post(n, r)[q] = n[q]
         /\ r \notin DOMAIN n => Post(n, r)[r] = 1
         /\ r \in DOMAIN n => Post(n, r)[r] = n[r] + 1
<1> DEFINE m == Post(n, r)
<1>1. /\ DOMAIN m = DOMAIN n \cup {r}
      /\ \A q \in DOMAIN n \cup {r} :
           m[q] = (IF q \in DOMAIN n THEN n[q] ELSE 0) + (IF q = r THEN 1 ELSE 0)
  BY DEF Post, (+), SetToBag
<1> HIDE DEF m
<1>2. /\ \A q \in DOMAIN n \ {r} : m[q] = n[q]
      /\ r \notin DOMAIN n => m[r] = 1
      /\ r \in DOMAIN n => m[r] = n[r] + 1
  BY <1>1 DEF IsBag
<1>3. IsBag(m)
  BY <1>1, <1>2 DEF IsBag
<1> QED
  BY <1>1, <1>2, <1>3 DEF m

LEMMA FinishIs ==
  ASSUME IsBag(net), NEW r \in DOMAIN net
  PROVE  /\ net[r] = 1 => DOMAIN Finish(r) = DOMAIN net \ {r}
         /\ net[r] # 1 => DOMAIN Finish(r) = DOMAIN net
         /\ IsBag(Finish(r))
         /\ \A q \in DOMAIN net \ {r} : Finish(r)[q] = net[q]
         /\ net[r] # 1 => Finish(r)[r] = net[r] - 1
<1> DEFINE B == [e \in DOMAIN net |-> IF e = r THEN net[e] - 1 ELSE net[e]]
           m == Finish(r)
<1>1. DOMAIN SetToBag({r}) = {r} /\ SetToBag({r})[r] = 1
  BY DEF SetToBag
<1>2. m = [e \in {d \in DOMAIN B : B[d] > 0} |-> B[e]]
  <2>1. B = [e \in DOMAIN net |-> IF e \in DOMAIN SetToBag({r}) THEN net[e] - SetToBag({r})[e] ELSE net[e]]
    BY <1>1
  <2> HIDE DEF B
  <2> QED
    BY <2>1 DEF Finish, (-)
<1>3. DOMAIN B = DOMAIN net /\ B[r] = net[r] - 1 /\ \A q \in DOMAIN net \ {r} : B[q] = net[q] /\ B[q] > 0
  BY DEF IsBag
<1> HIDE DEF B, m
<1>4. DOMAIN m = {d \in DOMAIN net : B[d] > 0} /\ \A q \in DOMAIN m : m[q] = B[q]
  BY <1>2, <1>3
<1>5. net[r] \in Nat \ {0}
  BY DEF IsBag
<1>6. /\ net[r] = 1 => DOMAIN m = DOMAIN net \ {r}
      /\ net[r] # 1 => DOMAIN m = DOMAIN net
  BY <1>3, <1>4, <1>5
<1>7. /\ \A q \in DOMAIN net \ {r} : m[q] = net[q]
      /\ net[r] # 1 => m[r] = net[r] - 1
  BY <1>3, <1>4, <1>6
<1>8. IsBag(m)
  BY <1>5, <1>6, <1>7 DEF IsBag
<1> QED
  BY <1>6, <1>7, <1>8 DEF m

LEMMA UnderWayIs == UnderWay = DOMAIN net
  BY DEF UnderWay, BagToSet

-----------------------------------------------------------------------------
(* What the page holds.  Every part of it is bounded by a set C of tasks:   *)
(* those that exist, or those of the account.                               *)

IsList(l, C) == DOMAIN l \subseteq C /\ \A j \in DOMAIN l : l[j] \in Statuses

PageTyped(p, C) ==
  /\ TimerKnown(p)
  /\ p.user \in Users \cup {NoUser}
  /\ IsList(p.jobs, C)
  /\ p.active \in C \cup {NoJob} /\ p.remembered \in C \cup {NoJob}
  /\ p.pollTimer \in Nat
  /\ p.attempt \in 0..Patience
  /\ p.notify \in BOOLEAN
  /\ p.card = NoCard \/ (p.card.job \in C /\ p.card.status \in Statuses)

(* What the polling and the session need to know of a page is untouched. *)
Alike(p, q) ==
  /\ q.user = p.user /\ q.active = p.active /\ q.remembered = p.remembered
  /\ q.timers = p.timers /\ q.notify = p.notify

LEMMA LeastJob ==
  ASSUME NEW S, S \subseteq Nat, S # {}
  PROVE  \E m \in S : \A n \in S : m <= n
<1> DEFINE R == {ss \in Nat \X Nat : ss[1] < ss[2]}
<1>1. R = OpToRel(<, Nat)
  BY DEF OpToRel
<1>2. IsWellFoundedOn(R, Nat)
  BY <1>1, NatLessThanWellFounded
<1>3. \A m, n \in Nat : m < n => <<m, n>> \in R
  OBVIOUS
<1> HIDE DEF R
<1>4. PICK m \in S : \A n \in S : ~(<<n, m>> \in R)
  BY <1>2, WFMin
<1>5. \A n \in S : ~(n < m)
  BY <1>3, <1>4
<1> QED
  BY <1>5

(* The newest of some tasks is one of them. *)
LEMMA NewestJob ==
  ASSUME WorkspaceAssumption, NEW S, S \subseteq Jobs, S # {}
  PROVE  Newest(S) \in S
<1> DEFINE T == {JobCount - n : n \in S}
<1>1. \A n \in S : n \in Nat /\ JobCount - n \in Nat
  BY DEF WorkspaceAssumption, Jobs
<1>2. PICK t \in T : \A u \in T : t <= u
  <2>1. T \subseteq Nat /\ T # {}
    BY <1>1
  <2> HIDE DEF T
  <2> QED
    BY <2>1, LeastJob
<1>3. PICK m \in S : t = JobCount - m
  BY <1>2
<1>4. ASSUME NEW n \in S PROVE n <= m
  <2>1. JobCount - m <= JobCount - n
    BY <1>2, <1>3
  <2> QED
    BY <1>1, <2>1 DEF WorkspaceAssumption
<1> QED
  BY <1>4 DEF Newest

(* The tasks of a list with a result, and those that are pending *)
LEMMA PartsOfList ==
  ASSUME WorkspaceAssumption, NEW C, C \subseteq Jobs, NEW l, IsList(l, C)
  PROVE  /\ WithResult(l) # {} => Newest(WithResult(l)) \in WithResult(l)
         /\ StillPending(l) # {} => Newest(StillPending(l)) \in StillPending(l)
         /\ DOMAIN l # {} => Newest(DOMAIN l) \in DOMAIN l
         /\ \A S : S # {} /\ S \subseteq DOMAIN l => Newest(S) \in S
         /\ WithResult(l) \subseteq DOMAIN l /\ StillPending(l) \subseteq DOMAIN l
<1>1. \A S : S # {} /\ S \subseteq DOMAIN l => Newest(S) \in S
  BY NewestJob DEF IsList
<1>2. WithResult(l) \subseteq DOMAIN l /\ StillPending(l) \subseteq DOMAIN l
  BY DEF WithResult, StillPending
<1> QED
  BY <1>1, <1>2

LEMMA NoListTyped == ASSUME NEW C PROVE IsList(NoList, C) /\ DOMAIN NoList = {}
  BY DEF IsList, NoList

LEMMA UpsertTyped ==
  ASSUME NEW C, NEW l, IsList(l, C), NEW j \in C, NEW s \in Statuses
  PROVE  IsList(Upsert(l, j, s), C) /\ DOMAIN Upsert(l, j, s) = DOMAIN l \cup {j}
  BY DEF IsList, Upsert

(* More tasks never hurt. *)
LEMMA PageGrows ==
  ASSUME NEW C, NEW D, C \subseteq D, NEW p, PageTyped(p, C)
  PROVE  PageTyped(p, D)
  BY DEF PageTyped, IsList

LEMMA FreshTyped ==
  ASSUME WorkspaceAssumption, NEW C, NEW j \in C \cup {NoJob}
  PROVE  /\ PageTyped(FreshPage(j), C)
         /\ FreshPage(j).user = NoUser /\ FreshPage(j).active = NoJob /\ DOMAIN FreshPage(j).jobs = {}
         /\ FreshPage(j).timers = {} /\ FreshPage(j).notify = FALSE
<1> DEFINE p == FreshPage(j)
<1>1. /\ p.user = NoUser /\ p.jobs = NoList /\ p.active = NoJob /\ p.remembered = j
      /\ p.timers = {} /\ p.pollTimer = NoTimer /\ p.attempt = 0 /\ p.notify = FALSE /\ p.card = NoCard
  BY DEF FreshPage
<1>2. TimerKnown(p)
  BY FreshKnown
<1>3. 0 \in 0..Patience
  BY DEF WorkspaceAssumption
<1> HIDE DEF p
<1>4. PageTyped(p, C)
  <2>1. p.notify \in BOOLEAN
    BY <1>1
  <2>2. IsList(p.jobs, C) /\ p.attempt \in 0..Patience /\ p.pollTimer \in Nat
    BY <1>1, <1>3, NoListTyped DEF NoTimer
  <2> QED
    BY <1>1, <1>2, <2>1, <2>2 DEF PageTyped
<1> QED
  BY <1>1, <1>4, NoListTyped DEF p

LEMMA CardTyped ==
  ASSUME NEW C, NEW p, PageTyped(p, C), NEW j \in C, NEW s \in Statuses
  PROVE  /\ PageTyped(RenderResultCard(p, j, s), C)
         /\ Alike(p, RenderResultCard(p, j, s)) /\ RenderResultCard(p, j, s).jobs = p.jobs
<1> DEFINE q == RenderResultCard(p, j, s)
<1>1. /\ q.user = p.user /\ q.jobs = p.jobs /\ q.active = p.active /\ q.remembered = p.remembered
      /\ q.timers = p.timers /\ q.pollTimer = p.pollTimer /\ q.attempt = p.attempt /\ q.notify = p.notify
      /\ q.card = [job |-> j, status |-> s]
  BY Fields DEF RenderResultCard, PageTyped, TimerKnown
<1>2. TimerKnown(q)
  BY CardKnown DEF PageTyped
<1> HIDE DEF q
<1>3. PageTyped(q, C)
  BY <1>1, <1>2 DEF PageTyped
<1> QED
  BY <1>1, <1>3 DEF q, Alike

LEMMA JobsTyped ==
  ASSUME WorkspaceAssumption, NEW C, C \subseteq Jobs, NEW p, PageTyped(p, C), NEW l, IsList(l, C)
  PROVE  PageTyped(RenderJobs(p, l), C) /\ Alike(p, RenderJobs(p, l)) /\ RenderJobs(p, l).jobs = l
<1> DEFINE shown == [p EXCEPT !.jobs = l]
           n == Newest(WithResult(l))
<1>1. /\ shown.user = p.user /\ shown.jobs = l /\ shown.active = p.active /\ shown.remembered = p.remembered
      /\ shown.timers = p.timers /\ shown.pollTimer = p.pollTimer /\ shown.attempt = p.attempt
      /\ shown.notify = p.notify /\ shown.card = p.card /\ TimerKnown(shown)
  BY Fields DEF PageTyped, TimerKnown
<1>2. RenderJobs(p, l) = shown \/ (WithResult(l) # {} /\ RenderJobs(p, l) = RenderResultCard(shown, n, l[n]))
  BY DEF RenderJobs
<1> HIDE DEF shown
<1>3. PageTyped(shown, C) /\ Alike(p, shown)
  BY <1>1 DEF PageTyped, Alike
<1>4. CASE RenderJobs(p, l) = shown
  BY <1>1, <1>3, <1>4
<1>5. CASE WithResult(l) # {} /\ RenderJobs(p, l) = RenderResultCard(shown, n, l[n])
  <2>1. n \in C /\ l[n] \in Statuses
    BY <1>5, PartsOfList DEF IsList
  <2> HIDE DEF n
  <2>2. /\ PageTyped(RenderResultCard(shown, n, l[n]), C) /\ Alike(shown, RenderResultCard(shown, n, l[n]))
        /\ RenderResultCard(shown, n, l[n]).jobs = shown.jobs
    BY <1>3, <2>1, CardTyped
  <2> QED
    BY <1>1, <1>3, <1>5, <2>2 DEF Alike
<1> QED
  BY <1>2, <1>4, <1>5

LEMMA StopTyped ==
  ASSUME WorkspaceAssumption, NEW C, NEW p, PageTyped(p, C)
  PROVE  /\ PageTyped(StopJobPolling(p), C)
         /\ PageTyped(RememberActiveJob(StopJobPolling(p), NoJob), C)
         /\ StopJobPolling(p).user = p.user /\ StopJobPolling(p).notify = FALSE
         /\ StopJobPolling(p).active = p.active /\ StopJobPolling(p).remembered = p.remembered
         /\ StopJobPolling(p).jobs = p.jobs
         /\ RememberActiveJob(StopJobPolling(p), NoJob).active = NoJob
         /\ RememberActiveJob(StopJobPolling(p), NoJob).remembered = NoJob
         /\ RememberActiveJob(StopJobPolling(p), NoJob).jobs = p.jobs
         /\ RememberActiveJob(StopJobPolling(p), NoJob).user = p.user
         /\ RememberActiveJob(StopJobPolling(p), NoJob).notify = FALSE
<1> DEFINE q == StopJobPolling(p)
           z == RememberActiveJob(q, NoJob)
<1>1. /\ q.user = p.user /\ q.jobs = p.jobs /\ q.active = p.active /\ q.remembered = p.remembered
      /\ q.pollTimer = NoTimer /\ q.attempt = 0 /\ q.notify = FALSE /\ q.card = p.card
      /\ DOMAIN q = PageFields
  BY Fields DEF StopJobPolling, PageTyped, TimerKnown
<1>2. TimerKnown(q) /\ TimerKnown(z)
  BY StopKnown DEF PageTyped
<1> HIDE DEF q
<1>3. /\ z.user = q.user /\ z.jobs = q.jobs /\ z.active = NoJob /\ z.remembered = NoJob
      /\ z.pollTimer = q.pollTimer /\ z.attempt = q.attempt /\ z.notify = q.notify /\ z.card = q.card
  BY <1>1, Fields DEF RememberActiveJob
<1> HIDE DEF z
<1>4. 0 \in 0..Patience
  BY DEF WorkspaceAssumption
<1>5. PageTyped(q, C) /\ PageTyped(z, C)
  <2>1. q.notify \in BOOLEAN /\ z.notify \in BOOLEAN
    BY <1>1, <1>3
  <2>2. q.pollTimer \in Nat /\ q.attempt \in 0..Patience
    BY <1>1, <1>4 DEF NoTimer
  <2>3. PageTyped(q, C)
    BY <1>1, <1>2, <2>1, <2>2 DEF PageTyped
  <2> QED
    BY <1>2, <1>3, <2>1, <2>3 DEF PageTyped
<1> QED
  BY <1>1, <1>3, <1>5 DEF q, z
LEMMA StartTyped ==
  ASSUME WorkspaceAssumption, NEW C, NEW p, PageTyped(p, C), NEW j \in C, NEW notify \in BOOLEAN
  PROVE  /\ PageTyped(StartJobPolling(p, j, notify), C)
         /\ StartJobPolling(p, j, notify).user = p.user /\ StartJobPolling(p, j, notify).jobs = p.jobs
         /\ StartJobPolling(p, j, notify).active = j /\ StartJobPolling(p, j, notify).notify = notify
<1> DEFINE q == StartJobPolling(p, j, notify)
<1>1. /\ q.user = p.user /\ q.jobs = p.jobs /\ q.active = j /\ q.remembered = j
      /\ q.pollTimer = p.pollTimer /\ q.attempt = 0 /\ q.notify = notify /\ q.card = p.card
  BY Fields DEF StartJobPolling, RememberActiveJob, PageTyped, TimerKnown
<1>2. TimerKnown(q)
  BY StartKnown DEF PageTyped
<1>3. 0 \in 0..Patience
  BY DEF WorkspaceAssumption
<1> HIDE DEF q
<1>4. PageTyped(q, C)
  BY <1>1, <1>2, <1>3 DEF PageTyped
<1> QED
  BY <1>1, <1>4 DEF q

(* A timer that is armed has a number. *)
LEMMA ScheduleTyped ==
  ASSUME NEW C, NEW p, PageTyped(p, C)
  PROVE  /\ PageTyped(ScheduleJobPoll(p), C)
         /\ ScheduleJobPoll(p).user = p.user /\ ScheduleJobPoll(p).jobs = p.jobs
         /\ ScheduleJobPoll(p).active = p.active /\ ScheduleJobPoll(p).remembered = p.remembered
         /\ ScheduleJobPoll(p).notify = p.notify
         /\ p.active # NoJob => ScheduleJobPoll(p).timers # {}
<1> DEFINE q == ScheduleJobPoll(p)
           t == FreshTimer(p.timers \ {p.pollTimer})
<1>1. CASE p.active = NoJob
  BY <1>1 DEF ScheduleJobPoll
<1>2. CASE p.active # NoJob
  <2>1. p.timers \ {p.pollTimer} = {}
    BY DEF PageTyped, TimerKnown
  <2>2. t \in Nat
    <3>1. Cardinality({}) = 0
      BY FS_EmptySet
    <3>2. t = CHOOSE n \in 1..1 : n \notin {}
      BY <2>1, <3>1 DEF FreshTimer
    <3> QED
      BY <3>2
  <2>3. q = [p EXCEPT !.timers = {t}, !.pollTimer = t]
    BY <1>2, <2>1 DEF ScheduleJobPoll
  <2> HIDE DEF t
  <2>4. /\ q.user = p.user /\ q.jobs = p.jobs /\ q.active = p.active /\ q.remembered = p.remembered
        /\ q.timers = {t} /\ q.pollTimer = t /\ q.attempt = p.attempt /\ q.notify = p.notify /\ q.card = p.card
    BY <2>3, Fields DEF PageTyped, TimerKnown
  <2>5. TimerKnown(q)
    BY ScheduleKnown DEF PageTyped
  <2> HIDE DEF q
  <2>6. PageTyped(q, C)
    BY <2>2, <2>4, <2>5 DEF PageTyped
  <2> QED
    BY <2>4, <2>6 DEF q
<1> QED
  BY <1>1, <1>2

LEMMA ResetTyped ==
  ASSUME WorkspaceAssumption, NEW C, NEW p, PageTyped(p, C)
  PROVE  /\ PageTyped(ResetResultStage(p), C)
         /\ ResetResultStage(p).user = p.user /\ ResetResultStage(p).jobs = p.jobs
         /\ ResetResultStage(p).active = NoJob /\ ResetResultStage(p).remembered = NoJob
         /\ ResetResultStage(p).notify = FALSE
<1> DEFINE z == RememberActiveJob(StopJobPolling(p), NoJob)
           q == ResetResultStage(p)
<1>1. /\ PageTyped(z, C) /\ z.user = p.user /\ z.jobs = p.jobs /\ z.active = NoJob /\ z.remembered = NoJob
      /\ z.notify = FALSE
  BY StopTyped
<1>2. q = [z EXCEPT !.card = NoCard]
  BY DEF ResetResultStage
<1>3. TimerKnown(q)
  BY ResetKnown DEF PageTyped
<1> HIDE DEF z, q
<1>4. /\ q.user = z.user /\ q.jobs = z.jobs /\ q.active = z.active /\ q.remembered = z.remembered
      /\ q.pollTimer = z.pollTimer /\ q.attempt = z.attempt /\ q.notify = z.notify /\ q.card = NoCard
  BY <1>1, <1>2, Fields DEF PageTyped, TimerKnown
<1>5. PageTyped(q, C)
  BY <1>1, <1>3, <1>4 DEF PageTyped
<1> QED
  BY <1>1, <1>4, <1>5 DEF q

(* The user of a page is changed by an answer. *)
LEMMA UserTyped ==
  ASSUME NEW C, NEW p, PageTyped(p, C), NEW u \in Users \cup {NoUser}
  PROVE  /\ PageTyped([p EXCEPT !.user = u], C)
         /\ [p EXCEPT !.user = u].user = u /\ [p EXCEPT !.user = u].jobs = p.jobs
         /\ [p EXCEPT !.user = u].active = p.active /\ [p EXCEPT !.user = u].remembered = p.remembered
         /\ [p EXCEPT !.user = u].timers = p.timers /\ [p EXCEPT !.user = u].notify = p.notify
<1> DEFINE q == [p EXCEPT !.user = u]
<1>1. /\ q.user = u /\ q.jobs = p.jobs /\ q.active = p.active /\ q.remembered = p.remembered
      /\ q.pollTimer = p.pollTimer /\ q.attempt = p.attempt /\ q.notify = p.notify /\ q.card = p.card
      /\ q.timers = p.timers /\ TimerKnown(q)
  BY Fields DEF PageTyped, TimerKnown
<1> HIDE DEF q
<1>2. PageTyped(q, C)
  BY <1>1 DEF PageTyped
<1> QED
  BY <1>1, <1>2 DEF q

LEMMA SignOutTyped ==
  ASSUME WorkspaceAssumption, NEW C, C \subseteq Jobs, NEW p, PageTyped(p, C)
  PROVE  /\ PageTyped(SignOut(p), C)
         /\ SignOut(p).user = NoUser /\ DOMAIN SignOut(p).jobs = {}
         /\ SignOut(p).active = NoJob /\ SignOut(p).notify = FALSE
<1> DEFINE q == [p EXCEPT !.user = NoUser]
           z == RenderJobs(q, NoList)
<1>1. PageTyped(q, C) /\ q.user = NoUser
  BY UserTyped
<1> HIDE DEF q
<1>2. PageTyped(z, C) /\ z.user = NoUser /\ z.jobs = NoList
  BY <1>1, JobsTyped, NoListTyped DEF Alike
<1> HIDE DEF z
<1>3. /\ PageTyped(ResetResultStage(z), C) /\ ResetResultStage(z).user = z.user
      /\ ResetResultStage(z).jobs = z.jobs /\ ResetResultStage(z).active = NoJob
      /\ ResetResultStage(z).notify = FALSE
  BY <1>2, ResetTyped
<1> QED
  BY <1>2, <1>3, NoListTyped DEF SignOut, q, z

(* hydrateWorkspaceFromJobs resumes a job of the list, or waits for none    *)
(* that it did not wait for before.                                         *)
LEMMA HydrateTyped ==
  ASSUME WorkspaceAssumption, NEW C, C \subseteq Jobs, NEW p, PageTyped(p, C), NEW l, IsList(l, C)
  PROVE  LET q == Hydrate(p, l) IN
         /\ PageTyped(q, C) /\ q.user = p.user /\ q.jobs = p.jobs
         /\ q.notify => p.notify
         /\ Resumes(p, l) => q.active \in C
         /\ ~Resumes(p, l) => q.active = NoJob \/ Alike(p, q)
<1> DEFINE q == Hydrate(p, l)
           failed == {j \in DOMAIN l : l[j] = "failed"}
           best == IF WithResult(l) # {} THEN WithResult(l) ELSE failed
           j == Resumed(p, l)
           n == Newest(best)
           resumed == RenderResultCard(p, j, l[j])
           Good == /\ PageTyped(q, C) /\ q.user = p.user /\ q.jobs = p.jobs
                   /\ q.notify => p.notify
                   /\ Resumes(p, l) => q.active \in C
                   /\ ~Resumes(p, l) => q.active = NoJob \/ Alike(p, q)
<1>0. q = Hydrate(p, l)
  OBVIOUS
<1>p. p.notify \in BOOLEAN
  BY DEF PageTyped
<1> HIDE DEF q
<1>1. ASSUME DOMAIN l = {} PROVE Good
  <2>1. ~Resumes(p, l)
    BY <1>1 DEF Resumes
  <2>2. CASE p.active = NoJob
    <3>1. q = ResetResultStage(p)
      BY <1>0, <1>1, <2>2 DEF Hydrate
    <3> QED
      BY <2>1, <3>1, ResetTyped
  <2>3. CASE p.active # NoJob
    BY <1>0, <1>1, <2>1, <2>3 DEF Hydrate, Alike
  <2> QED
    BY <2>2, <2>3
<1>2. ASSUME DOMAIN l # {} /\ j # NoJob PROVE Good
  <2>1. j \in DOMAIN l
    <3>1. j \in StillPending(l)
      BY <1>2, PartsOfList DEF Resumed
    <3> QED
      BY <3>1, PartsOfList
  <2>2. j \in C /\ l[j] \in Statuses
    BY <2>1 DEF IsList
  <2>3. q = StartJobPolling(resumed, j, FALSE)
    BY <1>0, <1>2 DEF Hydrate
  <2> HIDE DEF j
  <2>4. PageTyped(resumed, C) /\ Alike(p, resumed) /\ resumed.jobs = p.jobs
    BY <2>2, CardTyped
  <2> HIDE DEF resumed
  <2>5. /\ PageTyped(q, C) /\ q.user = resumed.user /\ q.jobs = resumed.jobs /\ q.active = j
        /\ q.notify = FALSE
    <3>1. FALSE \in BOOLEAN
      OBVIOUS
    <3>2. \A notify \in BOOLEAN :
            LET z == StartJobPolling(resumed, j, notify)
            IN  /\ PageTyped(z, C) /\ z.user = resumed.user /\ z.jobs = resumed.jobs /\ z.active = j
                /\ z.notify = notify
      BY <2>2, <2>4, StartTyped
    <3> QED
      BY <2>3, <3>1, <3>2
  <2>6. Resumes(p, l)
    BY <1>2 DEF Resumes, j
  <2> QED
    BY <2>2, <2>4, <2>5, <2>6 DEF Alike
<1>3. ASSUME DOMAIN l # {} /\ j = NoJob /\ best # {} PROVE Good
  <2>1. best \subseteq DOMAIN l
    BY PartsOfList
  <2>2. n \in C /\ l[n] \in Statuses
    <3> HIDE DEF best
    <3>1. n \in DOMAIN l
      BY <1>3, <2>1, PartsOfList
    <3> QED
      BY <3>1 DEF IsList
  <2>3. q = RenderResultCard(p, n, l[n])
    BY <1>0, <1>3 DEF Hydrate
  <2>4. ~Resumes(p, l)
    BY <1>3 DEF Resumes
  <2> HIDE DEF n, best
  <2> QED
    BY <2>2, <2>3, <2>4, CardTyped DEF Alike
<1>4. ASSUME DOMAIN l # {} /\ j = NoJob /\ best = {} PROVE Good
  <2>1. q = p
    BY <1>0, <1>4 DEF Hydrate
  <2>2. ~Resumes(p, l)
    BY <1>4 DEF Resumes
  <2> QED
    BY <2>1, <2>2 DEF Alike
<1> QED
  BY <1>1, <1>2, <1>3, <1>4 DEF q, Good

(* An answered poll is shown in the list and on the card. *)
LEMMA PolledTyped ==
  ASSUME WorkspaceAssumption, NEW C, C \subseteq Jobs, NEW p, PageTyped(p, C), NEW j \in C, NEW s \in Statuses
  PROVE  /\ PageTyped(ShowPolled(p, j, s), C) /\ Alike(p, ShowPolled(p, j, s))
         /\ DOMAIN ShowPolled(p, j, s).jobs = DOMAIN p.jobs \cup {j}
<1> DEFINE l == Upsert(p.jobs, j, s)
           z == RenderJobs(p, l)
<1>1. IsList(l, C) /\ DOMAIN l = DOMAIN p.jobs \cup {j}
  <2>1. IsList(p.jobs, C)
    BY DEF PageTyped
  <2>2. \A k \in DOMAIN p.jobs : p.jobs[k] \in Statuses
    BY <2>1 DEF IsList
  <2> QED
    BY <2>1, <2>2 DEF IsList, Upsert
<1> HIDE DEF l
<1>2. PageTyped(z, C) /\ Alike(p, z) /\ z.jobs = l
  BY <1>1, JobsTyped
<1> HIDE DEF z
<1>3. /\ PageTyped(RenderResultCard(z, j, s), C) /\ Alike(z, RenderResultCard(z, j, s))
      /\ RenderResultCard(z, j, s).jobs = z.jobs
  BY <1>2, CardTyped
<1> QED
  BY <1>1, <1>2, <1>3 DEF ShowPolled, Alike, l, z

-----------------------------------------------------------------------------
(* Requests *)

RequestFields == {"kind", "job", "then", "as", "stage", "final", "notify", "list"}

(* What the handlers rely on in a request and in its answer *)
RequestTyped(r, C) ==
  /\ DOMAIN r = RequestFields
  /\ r.kind \in Kinds
  /\ r.as \in Users \cup {NoUser}
  /\ r.kind = "login" => r.as \in Users
  /\ r.notify \in BOOLEAN
  /\ r.notify => r.kind = "jobs"
  /\ r.kind = "poll" => r.job \in C
  /\ r.kind = "poll" /\ r.stage = "answered" => r.job \in DOMAIN r.list /\ r.list[r.job] \in Statuses
  /\ r.kind = "generate" /\ r.stage = "answered" => r.job \in C
  /\ r.kind = "jobs" /\ r.stage = "answered" => IsList(r.list, C)
  /\ r.kind = "jobs" /\ r.then = "settled" => r.job \in C /\ r.final \in Statuses

NetTyped(n, C) ==
  /\ IsBag(n)
  /\ \A r \in DOMAIN n : RequestTyped(r, C)

LEMMA PostTyped ==
  ASSUME NEW C, NEW n, NetTyped(n, C), NEW r, RequestTyped(r, C)
  PROVE  NetTyped(Post(n, r), C)
<1>1. IsBag(Post(n, r)) /\ DOMAIN Post(n, r) = DOMAIN n \cup {r}
  BY PostIs DEF NetTyped
<1> QED
  BY <1>1 DEF NetTyped

LEMMA FinishTyped ==
  ASSUME NEW C, NetTyped(net, C), NEW r \in DOMAIN net
  PROVE  NetTyped(Finish(r), C) /\ DOMAIN Finish(r) \subseteq DOMAIN net
<1>1. IsBag(Finish(r)) /\ DOMAIN Finish(r) \subseteq DOMAIN net
  BY FinishIs DEF NetTyped
<1> QED
  BY <1>1 DEF NetTyped

LEMMA RequestIs ==
  ASSUME NEW kind, NEW job, NEW then
  PROVE  LET q == Request(kind, job, then) IN
         /\ DOMAIN q = RequestFields
         /\ q.kind = kind /\ q.job = job /\ q.then = then /\ q.as = cookie /\ q.stage = "sent"
         /\ q.final = "none" /\ q.notify \in BOOLEAN /\ ~q.notify /\ q.list = NoList
  BY DEF Request, RequestFields

(* A request that is sent for a part of the page *)
LEMMA SentTyped ==
  ASSUME NEW C, cookie \in Users \cup {NoUser},
         NEW kind \in Kinds \ {"login"}, NEW job, NEW then,
         kind = "poll" => job \in C, kind = "jobs" => then # "settled"
  PROVE  RequestTyped(Request(kind, job, then), C)
<1> DEFINE q == Request(kind, job, then)
<1>1. /\ DOMAIN q = RequestFields
      /\ q.kind = kind /\ q.job = job /\ q.then = then /\ q.as = cookie /\ q.stage = "sent"
      /\ q.final = "none" /\ q.notify \in BOOLEAN /\ ~q.notify /\ q.list = NoList
  BY RequestIs
<1> HIDE DEF q
<1>2. RequestTyped(q, C)
  BY <1>1 DEF RequestTyped
<1> QED
  BY <1>2 DEF q

LEMMA PollActiveTyped ==
  ASSUME NEW C, cookie \in Users \cup {NoUser}, NEW n, NetTyped(n, C), NEW p, p.active \in C \cup {NoJob}
  PROVE  NetTyped(PollActiveJob(n, p), C)
<1>1. CASE p.active = NoJob \/ p.user = NoUser
  BY <1>1 DEF PollActiveJob
<1>2. CASE ~(p.active = NoJob \/ p.user = NoUser)
  <2>1. RequestTyped(Request("poll", p.active, "poll"), C)
    BY <1>2, SentTyped DEF Kinds
  <2> QED
    BY <1>2, <2>1, PostTyped DEF PollActiveJob
<1> QED
  BY <1>1, <1>2

LEMMA RefreshJobsTyped ==
  ASSUME NEW C, cookie \in Users \cup {NoUser}, NEW n, NetTyped(n, C), NEW p, NEW then, then # "settled"
  PROVE  NetTyped(RefreshJobs(n, p, then), C)
<1>1. RequestTyped(Request("jobs", NoJob, then), C)
  BY SentTyped DEF Kinds
<1> QED
  BY <1>1, PostTyped DEF RefreshJobs

LEMMA NetGrows ==
  ASSUME NEW C, NEW D, C \subseteq D, NEW n, NetTyped(n, C)
  PROVE  NetTyped(n, D)
<1>1. ASSUME NEW r, RequestTyped(r, C) PROVE RequestTyped(r, D)
  BY <1>1 DEF RequestTyped, IsList
<1> QED
  BY <1>1 DEF NetTyped

-----------------------------------------------------------------------------
(* What the handlers do with answers *)

(* After the list was read again; a poll follows exactly when a job was     *)
(* resumed.                                                                 *)
LEMMA RefreshTyped ==
  ASSUME WorkspaceAssumption, NEW C, C \subseteq Jobs, NEW p, PageTyped(p, C),
         NEW r, RequestTyped(r, C), r.kind = "jobs"
  PROVE  LET q == AfterRefresh(r, p) IN
         /\ PageTyped(q, C) /\ q.user = p.user
         /\ q.notify => p.notify
         /\ PollsAfterRefresh(r, p) => q.active \in C
         /\ ~PollsAfterRefresh(r, p) => q.active = NoJob \/ Alike(p, q)
<1> DEFINE q == AfterRefresh(r, p)
           Good == /\ PageTyped(q, C) /\ q.user = p.user
                   /\ q.notify => p.notify
                   /\ PollsAfterRefresh(r, p) => q.active \in C
                   /\ ~PollsAfterRefresh(r, p) => q.active = NoJob \/ Alike(p, q)
<1>q. q = AfterRefresh(r, p)
  OBVIOUS
<1> HIDE DEF q
<1>0. IsList(p.jobs, C) /\ p.notify \in BOOLEAN
  BY DEF PageTyped
<1>1. ASSUME r.then = "hydrate" \/ (r.then = "jobs" /\ r.stage = "answered" /\ DOMAIN p.jobs # {})
      PROVE  Good
  <2>1. q = Hydrate(p, p.jobs)
    BY <1>q, <1>1 DEF AfterRefresh
  <2>2. PollsAfterRefresh(r, p) <=> Resumes(p, p.jobs)
    BY <1>1 DEF PollsAfterRefresh
  <2> QED
    BY <1>0, <2>1, <2>2, HydrateTyped
<1>2. ASSUME r.then = "history" /\ DOMAIN p.jobs # {} PROVE Good
  <2> DEFINE first == Newest(DOMAIN p.jobs)
             shown == RenderResultCard(p, first, p.jobs[first])
  <2>1. first \in DOMAIN p.jobs
    BY <1>0, <1>2, PartsOfList
  <2>2. first \in C /\ p.jobs[first] \in Statuses
    BY <1>0, <2>1 DEF IsList
  <2>3. q = IF IsPendingStatus(p.jobs[first]) THEN StartJobPolling(shown, first, FALSE) ELSE shown
    BY <1>q, <1>2 DEF AfterRefresh
  <2>4. PollsAfterRefresh(r, p) <=> IsPendingStatus(p.jobs[first])
    BY <1>2 DEF PollsAfterRefresh
  <2> HIDE DEF first
  <2>5. PageTyped(shown, C) /\ Alike(p, shown)
    BY <2>2, CardTyped
  <2> HIDE DEF shown
  <2>6. \A notify \in BOOLEAN :
          LET z == StartJobPolling(shown, first, notify)
          IN  PageTyped(z, C) /\ z.user = shown.user /\ z.active = first /\ z.notify = notify
    BY <2>2, <2>5, StartTyped
  <2>7. FALSE \in BOOLEAN
    OBVIOUS
  <2>8. CASE IsPendingStatus(p.jobs[first])
    BY <2>2, <2>3, <2>4, <2>5, <2>6, <2>7, <2>8 DEF Alike
  <2>9. CASE ~IsPendingStatus(p.jobs[first])
    BY <2>3, <2>4, <2>5, <2>9 DEF Alike
  <2> QED
    BY <2>8, <2>9
<1>3. ASSUME r.then = "settled" PROVE Good
  <2> DEFINE list == Upsert(p.jobs, r.job, r.final)
             y == RenderJobs(p, list)
             z == RenderResultCard(y, r.job, r.final)
  <2>1. r.job \in C /\ r.final \in Statuses
    BY <1>3 DEF RequestTyped
  <2>2. IsList(list, C)
    BY <1>0, <2>1 DEF IsList, Upsert
  <2>3. q = Hydrate(z, list)
    BY <1>q, <1>3 DEF AfterRefresh
  <2>4. PollsAfterRefresh(r, p) <=> Resumes(y, list)
    BY <1>3 DEF PollsAfterRefresh
  <2> HIDE DEF list
  <2>5. PageTyped(y, C) /\ Alike(p, y)
    BY <2>2, JobsTyped
  <2> HIDE DEF y
  <2>6. PageTyped(z, C) /\ Alike(y, z)
    BY <2>1, <2>5, CardTyped
  <2> HIDE DEF z
  <2>7. Resumes(y, list) <=> Resumes(z, list)
    BY <2>6 DEF Resumes, Resumed, Alike
  <2>8. /\ PageTyped(q, C) /\ q.user = z.user
        /\ q.notify => z.notify
        /\ Resumes(z, list) => q.active \in C
        /\ ~Resumes(z, list) => q.active = NoJob \/ Alike(z, q)
    BY <2>2, <2>3, <2>6, HydrateTyped
  <2> QED
    BY <2>4, <2>5, <2>6, <2>7, <2>8 DEF Alike
<1>4. ASSUME ~(\/ r.then \in {"hydrate", "settled"}
             \/ (r.then = "jobs" /\ r.stage = "answered" /\ DOMAIN p.jobs # {})
             \/ (r.then = "history" /\ DOMAIN p.jobs # {}))
      PROVE  Good
  <2>1. q = p
    BY <1>q, <1>4 DEF AfterRefresh
  <2>2. ~PollsAfterRefresh(r, p)
    BY <1>4 DEF PollsAfterRefresh, Resumes
  <2> QED
    BY <2>1, <2>2 DEF Alike
<1> QED
  BY <1>1, <1>2, <1>3, <1>4 DEF q, Good

(* The request for the list that follows a poll with a final status *)
LEMMA SettledIs ==
  ASSUME NEW C, cookie \in Users \cup {NoUser}, NEW j \in C, NEW s \in Statuses, NEW b \in BOOLEAN
  PROVE  LET q == [Request("jobs", j, "settled") EXCEPT !.final = s, !.notify = b]
         IN  /\ RequestTyped(q, C)
             /\ q.kind = "jobs" /\ q.as = cookie /\ q.stage = "sent" /\ q.then = "settled" /\ q.notify = b
<1> DEFINE o == Request("jobs", j, "settled")
           q == [o EXCEPT !.final = s, !.notify = b]
<1>1. /\ DOMAIN o = RequestFields
      /\ o.kind = "jobs" /\ o.job = j /\ o.then = "settled" /\ o.as = cookie /\ o.stage = "sent"
  BY RequestIs
<1> HIDE DEF o
<1>2. /\ DOMAIN q = RequestFields
      /\ q.kind = "jobs" /\ q.job = j /\ q.then = "settled" /\ q.as = cookie /\ q.stage = "sent"
      /\ q.final = s /\ q.notify = b
  BY <1>1 DEF RequestFields
<1>3. q.notify \in BOOLEAN
  BY <1>1 DEF RequestFields
<1> HIDE DEF q
<1>4. RequestTyped(q, C)
  BY <1>2, <1>3 DEF RequestTyped, Kinds
<1> QED
  BY <1>2, <1>4 DEF q, o

(* A request with the cookie of the account that signed in *)
LEMMA AsTyped ==
  ASSUME NEW C, NEW r, RequestTyped(r, C), r.kind # "login", NEW u \in Users \cup {NoUser}
  PROVE  RequestTyped([r EXCEPT !.as = u], C)
<1> DEFINE q == [r EXCEPT !.as = u]
<1>1. /\ DOMAIN q = RequestFields
      /\ q.kind = r.kind /\ q.job = r.job /\ q.then = r.then /\ q.as = u /\ q.stage = r.stage
      /\ q.final = r.final /\ q.notify = r.notify /\ q.list = r.list
  BY DEF RequestTyped, RequestFields
<1> HIDE DEF q
<1>2. RequestTyped(q, C)
  BY <1>1 DEF RequestTyped
<1> QED
  BY <1>2 DEF q

(* A poll that is answered, of a page and its requests *)
LEMMA DeliverPollTyped ==
  ASSUME WorkspaceAssumption, NEW C, C \subseteq Jobs, cookie \in Users \cup {NoUser},
         PageTyped(page, C), NetTyped(net, C), NEW r \in DOMAIN net, r.stage # "sent", DeliverPoll(r),
         announced \in Nat
  PROVE  PageTyped(page', C) /\ NetTyped(net', C) /\ cookie' = cookie /\ announced' \in Nat
<1>1. NetTyped(Finish(r), C)
  BY FinishTyped
<1>2. /\ RequestTyped(r, C) /\ r.kind = "poll" /\ r.job \in C
      /\ r.stage = "answered" => r.list[r.job] \in Statuses
  BY DEF NetTyped, RequestTyped, DeliverPoll
<1>3. page.notify \in BOOLEAN /\ page.attempt \in 0..Patience /\ Patience \in Nat \ {0}
  BY DEF PageTyped, WorkspaceAssumption
<1>c. cookie' = cookie
  BY DEF DeliverPoll
<1>4. CASE PollPending(r)
  <2> DEFINE shown == ShowPolled(page, r.job, r.list[r.job])
             q == [shown EXCEPT !.attempt = AtMost(@ + 1, Patience)]
  <2>1. PageTyped(shown, C)
    BY <1>2, <1>4, PolledTyped DEF PollPending
  <2>2. page' = ScheduleJobPoll(q) /\ net' = Finish(r) /\ announced' = announced
    BY <1>4 DEF PollPending
  <2> HIDE DEF shown
  <2>3. AtMost(shown.attempt + 1, Patience) \in 0..Patience
    <3>1. shown.attempt \in 0..Patience
      BY <2>1 DEF PageTyped
    <3> QED
      BY <1>3, <3>1 DEF AtMost
  <2>4. /\ q.user = shown.user /\ q.jobs = shown.jobs /\ q.active = shown.active
        /\ q.remembered = shown.remembered /\ q.timers = shown.timers /\ q.pollTimer = shown.pollTimer
        /\ q.attempt = AtMost(shown.attempt + 1, Patience)
        /\ q.notify = shown.notify /\ q.card = shown.card /\ TimerKnown(q)
    BY <2>1, Fields DEF PageTyped, TimerKnown
  <2> HIDE DEF q
  <2>5. PageTyped(q, C)
    BY <2>1, <2>3, <2>4 DEF PageTyped
  <2> QED
    BY <1>1, <1>c, <2>2, <2>5, ScheduleTyped
<1>5. CASE PollFinished(r)
  <2> DEFINE final == r.list[r.job]
             shown == ShowPolled(page, r.job, final)
             stopped == RememberActiveJob(StopJobPolling(shown), NoJob)
             late == ShowPolled(RenderJobs(stopped, NoList), r.job, final)
             req == [Request("jobs", r.job, "settled") EXCEPT !.final = final, !.notify = page.notify]
  <2>1. final \in Statuses
    BY <1>2, <1>5 DEF PollFinished
  <2>2. /\ page' = stopped \/ page' = ResetResultStage(late)
        /\ net' = Finish(r) \/ net' = Post(Finish(r), req)
        /\ announced' = announced \/ announced' = announced + 1
    BY <1>5 DEF PollFinished
  <2>3. RequestTyped(req, C)
    BY <1>2, <1>3, <2>1, SettledIs
  <2> HIDE DEF req
  <2>4. PageTyped(shown, C)
    <3> HIDE DEF final
    <3> QED
      BY <1>2, <2>1, PolledTyped
  <2> HIDE DEF shown
  <2>5. PageTyped(stopped, C)
    BY <2>4, StopTyped
  <2> HIDE DEF stopped
  <2>6. PageTyped(RenderJobs(stopped, NoList), C)
    BY <2>5, JobsTyped, NoListTyped
  <2>7. PageTyped(late, C)
    <3> HIDE DEF final
    <3> QED
      BY <1>2, <2>1, <2>6, PolledTyped
  <2> HIDE DEF late
  <2>8. PageTyped(ResetResultStage(late), C)
    BY <2>7, ResetTyped
  <2>9. NetTyped(Post(Finish(r), req), C)
    BY <1>1, <2>3, PostTyped
  <2> QED
    BY <1>1, <1>c, <2>2, <2>5, <2>8, <2>9
<1>6. CASE PollFailed(r)
  <2> DEFINE q == [page EXCEPT !.attempt = @ + 1]
  <2>1. /\ net' = Finish(r) /\ announced' = announced
        /\ page' = StopJobPolling(page) \/ (page.attempt + 1 < Patience /\ page' = ScheduleJobPoll(q))
    BY <1>3, <1>6 DEF PollFailed
  <2>2. ASSUME page.attempt + 1 < Patience PROVE PageTyped(q, C)
    <3>1. /\ q.user = page.user /\ q.jobs = page.jobs /\ q.active = page.active
          /\ q.remembered = page.remembered /\ q.timers = page.timers /\ q.pollTimer = page.pollTimer
          /\ q.attempt = page.attempt + 1
          /\ q.notify = page.notify /\ q.card = page.card /\ TimerKnown(q)
      BY Fields DEF PageTyped, TimerKnown
    <3> HIDE DEF q
    <3>2. q.attempt \in 0..Patience
      BY <1>3, <2>2, <3>1
    <3> QED
      BY <3>1, <3>2 DEF PageTyped
  <2> HIDE DEF q
  <2> QED
    BY <1>1, <1>c, <2>1, <2>2, StopTyped, ScheduleTyped
<1> QED
  BY <1>4, <1>5, <1>6 DEF DeliverPoll

LEMMA DeliverTyped ==
  ASSUME WorkspaceAssumption, NEW C, C \subseteq Jobs, cookie \in Users \cup {NoUser},
         PageTyped(page, C), NetTyped(net, C), NEW r \in DOMAIN net, Deliver(r), announced \in Nat
  PROVE  PageTyped(page', C) /\ NetTyped(net', C) /\ cookie' \in Users \cup {NoUser} /\ announced' \in Nat
<1>1. NetTyped(Finish(r), C)
  BY FinishTyped
<1>2. RequestTyped(r, C) /\ r.as \in Users \cup {NoUser} /\ r.stage # "sent"
  BY DEF NetTyped, RequestTyped, Deliver
<1>3. PageTyped(SignOut(page), C)
  BY SignOutTyped
<1>4. PageTyped([page EXCEPT !.user = r.as], C)
  BY <1>2, UserTyped
<1>5. \A then : RequestTyped(Request("gateways", NoJob, then), C)
  <2> TAKE then
  <2> QED
    BY SentTyped DEF Kinds
<1>6. CASE DeliverMe(r)
  BY <1>1, <1>3, <1>4, <1>5, <1>6, PostTyped DEF DeliverMe
<1>7. CASE DeliverLogin(r)
  <2>1. RequestTyped([Request("gateways", NoJob, "login") EXCEPT !.as = r.as], C)
    <3>1. Request("gateways", NoJob, "login").kind = "gateways"
      BY RequestIs
    <3> QED
      BY <1>2, <1>5, <3>1, AsTyped
  <2> QED
    BY <1>1, <1>2, <1>4, <1>7, <2>1, PostTyped DEF DeliverLogin
<1>8. CASE DeliverLogout(r)
  BY <1>1, <1>3, <1>8 DEF DeliverLogout
<1>9. CASE DeliverGateways(r)
  <2>1. PageTyped(Hydrate(RenderJobs(page, NoList), NoList), C)
    BY JobsTyped, HydrateTyped, NoListTyped
  <2>2. NetTyped(RefreshJobs(Finish(r), page, "hydrate"), C)
    BY <1>1, RefreshJobsTyped
  <2> QED
    BY <1>1, <1>9, <2>1, <2>2 DEF DeliverGateways
<1>10. CASE DeliverJobs(r)
  <2>1. PICK p : /\ p = IF r.stage = "answered" THEN RenderJobs(page, r.list) ELSE page
                 /\ page' = AfterRefresh(r, p)
                 /\ net' = Finish(r) \/ net' = PollActiveJob(Finish(r), page')
    BY <1>10 DEF DeliverJobs
  <2>2. announced' = announced + 1 \/ announced' = announced
    BY <1>10 DEF DeliverJobs
  <2>3. r.kind = "jobs" /\ (r.stage = "answered" => IsList(r.list, C))
    BY <1>2, <1>10 DEF DeliverJobs, RequestTyped
  <2>4. PageTyped(p, C)
    BY <2>1, <2>3, JobsTyped
  <2>5. PageTyped(page', C)
    BY <1>2, <2>1, <2>3, <2>4, RefreshTyped
  <2>6. page'.active \in C \cup {NoJob}
    BY <2>5 DEF PageTyped
  <2>7. NetTyped(PollActiveJob(Finish(r), page'), C)
    BY <1>1, <2>6, PollActiveTyped
  <2> QED
    BY <1>1, <1>10, <2>1, <2>2, <2>5, <2>7 DEF DeliverJobs
<1>11. CASE DeliverPoll(r)
  BY <1>2, <1>11, DeliverPollTyped
<1>12. CASE DeliverGenerate(r)
  <2>1. CASE r.stage = "answered"
    <3> DEFINE shown == ShowPolled(page, r.job, "running")
    <3>1. r.job \in C /\ "running" \in Statuses
      BY <1>2, <1>12, <2>1 DEF DeliverGenerate, RequestTyped, Statuses
    <3>2. PageTyped(shown, C)
      BY <3>1, PolledTyped
    <3>3. page' = StartJobPolling(shown, r.job, TRUE) /\ net' = PollActiveJob(Finish(r), page')
      BY <1>12, <2>1 DEF DeliverGenerate
    <3> HIDE DEF shown
    <3>4. \A notify \in BOOLEAN : PageTyped(StartJobPolling(shown, r.job, notify), C)
      BY <3>1, <3>2, StartTyped
    <3>5. PageTyped(page', C)
      BY <3>3, <3>4
    <3>6. page'.active \in C \cup {NoJob}
      BY <3>5 DEF PageTyped
    <3>7. NetTyped(PollActiveJob(Finish(r), page'), C)
      BY <1>1, <3>6, PollActiveTyped
    <3> QED
      BY <1>12, <3>3, <3>5, <3>7 DEF DeliverGenerate
  <2>2. CASE r.stage # "answered"
    BY <1>1, <1>12, <2>2 DEF DeliverGenerate
  <2> QED
    BY <2>1, <2>2
<1> QED
  BY <1>6, <1>7, <1>8, <1>9, <1>10, <1>11, <1>12 DEF Deliver

(* What the timer and the user do *)
LEMMA FiresTyped ==
  ASSUME NEW C, cookie \in Users \cup {NoUser}, PageTyped(page, C), NetTyped(net, C), TimerFires
  PROVE  PageTyped(page', C) /\ NetTyped(net', C)
<1>1. PICK t \in page.timers : page' = [page EXCEPT !.timers = @ \ {t}] /\ net' = PollActiveJob(net, page')
  BY DEF TimerFires
<1> DEFINE q == [page EXCEPT !.timers = @ \ {t}]
<1>2. /\ q.user = page.user /\ q.jobs = page.jobs /\ q.active = page.active
      /\ q.remembered = page.remembered /\ q.timers = page.timers \ {t} /\ q.pollTimer = page.pollTimer
      /\ q.attempt = page.attempt /\ q.notify = page.notify /\ q.card = page.card /\ TimerKnown(q)
  BY Fields DEF PageTyped, TimerKnown
<1>3. page' = q
  BY <1>1
<1> HIDE DEF q
<1>4. PageTyped(q, C) /\ q.active \in C \cup {NoJob}
  BY <1>2 DEF PageTyped
<1> QED
  BY <1>1, <1>3, <1>4, PollActiveTyped

LEMMA SelectTyped ==
  ASSUME WorkspaceAssumption, NEW C, cookie \in Users \cup {NoUser}, PageTyped(page, C), NetTyped(net, C),
         NEW j, SelectJob(j)
  PROVE  PageTyped(page', C) /\ NetTyped(net', C)
<1> DEFINE shown == RenderResultCard(page, j, page.jobs[j])
<1>1. j \in C /\ page.jobs[j] \in Statuses
  BY DEF SelectJob, PageTyped, IsList
<1>2. \/ page' = StartJobPolling(shown, j, FALSE) /\ net' = PollActiveJob(net, page')
      \/ page' = shown /\ net' = net
  BY DEF SelectJob
<1>3. PageTyped(shown, C)
  BY <1>1, CardTyped
<1> HIDE DEF shown
<1>4. \A notify \in BOOLEAN : PageTyped(StartJobPolling(shown, j, notify), C)
  BY <1>1, <1>3, StartTyped
<1>5. PageTyped(page', C)
  BY <1>2, <1>3, <1>4
<1>6. page'.active \in C \cup {NoJob}
  BY <1>5 DEF PageTyped
<1>7. NetTyped(PollActiveJob(net, page'), C)
  BY <1>6, PollActiveTyped
<1> QED
  BY <1>2, <1>5, <1>7

(* A page that is loaded again leaves the submissions that are on their way *)
(* and asks who is signed in.                                               *)
LEMMA ReloadNet ==
  ASSUME NEW C, cookie \in Users \cup {NoUser}, NetTyped(net, C), Reload
  PROVE  /\ NetTyped(net', C)
         /\ \A q \in DOMAIN net' :
              \/ q = Request("me", NoJob, "boot")
              \/ \E r \in DOMAIN net : r.kind = "generate" /\ r.stage = "sent" /\ q = [r EXCEPT !.then = "gone"]
<1>1. PICK kept \in SUBSET {r \in UnderWay : r.kind = "generate" /\ r.stage = "sent"} :
         net' = SetToBag({[r EXCEPT !.then = "gone"] : r \in kept} \cup {Request("me", NoJob, "boot")})
  BY DEF Reload
<1> DEFINE S == {[r EXCEPT !.then = "gone"] : r \in kept} \cup {Request("me", NoJob, "boot")}
<1>2. \A q \in S :
        \/ q = Request("me", NoJob, "boot")
        \/ \E r \in DOMAIN net : r.kind = "generate" /\ r.stage = "sent" /\ q = [r EXCEPT !.then = "gone"]
  BY UnderWayIs
<1>3. RequestTyped(Request("me", NoJob, "boot"), C)
  BY SentTyped DEF Kinds
<1>4. ASSUME NEW r \in DOMAIN net, r.kind = "generate", r.stage = "sent"
      PROVE  RequestTyped([r EXCEPT !.then = "gone"], C)
  <2> DEFINE q == [r EXCEPT !.then = "gone"]
  <2>1. RequestTyped(r, C)
    BY DEF NetTyped
  <2>2. /\ DOMAIN q = RequestFields
        /\ q.kind = r.kind /\ q.job = r.job /\ q.as = r.as /\ q.stage = r.stage
        /\ q.final = r.final /\ q.notify = r.notify /\ q.list = r.list
    BY <2>1 DEF RequestTyped, RequestFields
  <2> HIDE DEF q
  <2>3. RequestTyped(q, C)
    BY <1>4, <2>1, <2>2 DEF RequestTyped
  <2> QED
    BY <2>3 DEF q
<1>5. \A q \in S : RequestTyped(q, C)
  BY <1>2, <1>3, <1>4
<1> HIDE DEF S
<1>6. DOMAIN net' = S /\ \A q \in S : net'[q] = 1
  BY <1>1 DEF SetToBag, S
<1> QED
  BY <1>2, <1>5, <1>6 DEF NetTyped, IsBag

LEMMA UserTypes ==
  ASSUME WorkspaceAssumption, NEW C, C \subseteq Jobs, cookie \in Users \cup {NoUser},
         PageTyped(page, C), NetTyped(net, C),
         \/ SubmitPrompt \/ HistoryTab \/ RefreshJobsButton \/ RefreshAccount
         \/ \E u \in Users : Login(u)
         \/ Logout \/ Reload
  PROVE  PageTyped(page', C) /\ NetTyped(net', C)
<1>1. \A kind \in Kinds \ {"login", "poll", "jobs"} : \A job, then : RequestTyped(Request(kind, job, then), C)
  <2> TAKE kind \in Kinds \ {"login", "poll", "jobs"}
  <2> TAKE job, then
  <2> QED
    BY SentTyped
<1>2. CASE SubmitPrompt
  BY <1>1, <1>2, PostTyped DEF SubmitPrompt, Kinds
<1>3. CASE HistoryTab
  BY <1>3, RefreshJobsTyped DEF HistoryTab
<1>4. CASE RefreshJobsButton
  BY <1>4, RefreshJobsTyped, JobsTyped, NoListTyped DEF RefreshJobsButton
<1>5. CASE RefreshAccount
  BY <1>1, <1>5, PostTyped DEF RefreshAccount, Kinds
<1>6. CASE \E u \in Users : Login(u)
  <2>1. PICK u \in Users : /\ net' = Post(net, [Request("login", NoJob, "login") EXCEPT !.as = u])
                           /\ page' = page
    BY <1>6 DEF Login
  <2> DEFINE o == Request("login", NoJob, "login")
             q == [o EXCEPT !.as = u]
  <2>2. /\ DOMAIN o = RequestFields /\ o.kind = "login" /\ o.then = "login" /\ o.stage = "sent"
        /\ o.notify \in BOOLEAN /\ ~o.notify
    BY RequestIs
  <2> HIDE DEF o
  <2>3. /\ DOMAIN q = RequestFields /\ q.kind = "login" /\ q.then = "login" /\ q.stage = "sent"
        /\ q.notify \in BOOLEAN /\ ~q.notify /\ q.as = u
    BY <2>2 DEF RequestFields
  <2> HIDE DEF q
  <2>4. RequestTyped(q, C)
    BY <2>3 DEF RequestTyped, Kinds
  <2> QED
    BY <2>1, <2>4, PostTyped DEF q, o
<1>7. CASE Logout
  BY <1>1, <1>7, PostTyped DEF Logout, Kinds
<1>8. CASE Reload
  <2>1. page.remembered \in C \cup {NoJob} /\ page' = FreshPage(page.remembered)
    BY <1>8 DEF PageTyped, Reload
  <2> QED
    BY <1>8, <2>1, FreshTyped, ReloadNet
<1> QED
  BY <1>2, <1>3, <1>4, <1>5, <1>6, <1>7, <1>8

(* What becomes of a request on its way *)
LEMMA ChangedTyped ==
  ASSUME NEW C, NEW r, RequestTyped(r, C)
  PROVE  /\ RequestTyped([r EXCEPT !.stage = "failed"], C)
         /\ RequestTyped([r EXCEPT !.stage = "failed", !.list = NoList], C)
         /\ r.kind = "jobs" /\ r.then = "jobs" => RequestTyped([r EXCEPT !.then = "expired"], C)
<1> DEFINE a == [r EXCEPT !.stage = "failed"]
           b == [r EXCEPT !.stage = "failed", !.list = NoList]
           c == [r EXCEPT !.then = "expired"]
<1>1. /\ DOMAIN a = RequestFields /\ a.kind = r.kind /\ a.job = r.job /\ a.then = r.then /\ a.as = r.as
      /\ a.stage = "failed" /\ a.final = r.final /\ a.notify = r.notify
  BY DEF RequestTyped, RequestFields
<1>2. /\ DOMAIN b = RequestFields /\ b.kind = r.kind /\ b.job = r.job /\ b.then = r.then /\ b.as = r.as
      /\ b.stage = "failed" /\ b.final = r.final /\ b.notify = r.notify
  BY DEF RequestTyped, RequestFields
<1>3. /\ DOMAIN c = RequestFields /\ c.kind = r.kind /\ c.job = r.job /\ c.then = "expired" /\ c.as = r.as
      /\ c.stage = r.stage /\ c.final = r.final /\ c.notify = r.notify /\ c.list = r.list
  BY DEF RequestTyped, RequestFields
<1> HIDE DEF a, b, c
<1>4. RequestTyped(a, C) /\ RequestTyped(b, C) /\ RequestTyped(c, C)
  BY <1>1, <1>2, <1>3 DEF RequestTyped
<1> QED
  BY <1>4 DEF a, b, c

LEMMA LoseTyped ==
  ASSUME NEW C, NetTyped(net, C), NEW r \in DOMAIN net, Lose(r) \/ RefreshTimesOut(r)
  PROVE  NetTyped(net', C)
<1>1. RequestTyped(r, C) /\ NetTyped(Finish(r), C)
  BY FinishTyped DEF NetTyped
<1>2. /\ RequestTyped([r EXCEPT !.stage = "failed", !.list = NoList], C)
      /\ r.kind = "jobs" /\ r.then = "jobs" => RequestTyped([r EXCEPT !.then = "expired"], C)
  BY <1>1, ChangedTyped
<1> QED
  BY <1>1, <1>2, PostTyped DEF Lose, RefreshTimesOut

(* The server answers with the tasks of the account that asks. *)
LEMMA ReplyTyped ==
  ASSUME NEW C, C \subseteq Jobs, status \in [Jobs -> Statuses], NEW r, RequestTyped(r, C),
         {k \in Created : owner[k] = r.as} \subseteq C, r.kind # "generate"
  PROVE  RequestTyped([Answered(r) EXCEPT !.list = ReplyTo(r)], C)
<1> DEFINE q == [Answered(r) EXCEPT !.list = ReplyTo(r)]
<1>1. /\ DOMAIN q = RequestFields /\ q.kind = r.kind /\ q.job = r.job /\ q.then = r.then /\ q.as = r.as
      /\ q.stage = "answered" /\ q.final = r.final /\ q.notify = r.notify /\ q.list = ReplyTo(r)
  BY DEF RequestTyped, RequestFields, Answered
<1>2. r.kind = "jobs" => IsList(ReplyTo(r), C)
  BY DEF ReplyTo, IsList
<1>3. r.kind = "poll" => r.job \in DOMAIN ReplyTo(r) /\ ReplyTo(r)[r.job] \in Statuses
  BY DEF ReplyTo, RequestTyped
<1> HIDE DEF q
<1>4. RequestTyped(q, C)
  BY <1>1, <1>2, <1>3 DEF RequestTyped
<1> QED
  BY <1>4 DEF q

LEMMA ServeTyped ==
  ASSUME NEW C, C \subseteq Jobs, status \in [Jobs -> Statuses], NetTyped(net, C), NEW r \in DOMAIN net,
         {k \in Created : owner[k] = r.as} \subseteq C, Serve(r)
  PROVE  NetTyped(net', C)
<1>1. RequestTyped(r, C) /\ NetTyped(Finish(r), C)
  BY FinishTyped DEF NetTyped
<1>2. RequestTyped([r EXCEPT !.stage = "failed"], C)
  BY <1>1, ChangedTyped
<1>3. RequestTyped([Answered(r) EXCEPT !.list = ReplyTo(r)], C)
  BY <1>1, ReplyTyped DEF Serve
<1> QED
  BY <1>1, <1>2, <1>3, PostTyped DEF Serve

(* A submission creates a task, or nothing. *)
LEMMA GenerateTyped ==
  ASSUME NEW C, NEW D, C \subseteq D, NetTyped(net, C), NEW r \in DOMAIN net, ServeGenerate(r),
         \A j \in Jobs \ Created : owner' = [owner EXCEPT ![j] = r.as] => j \in D
  PROVE  NetTyped(net', D)
<1>1. RequestTyped(r, D) /\ NetTyped(Finish(r), D)
  BY FinishTyped, NetGrows DEF NetTyped
<1>2. RequestTyped([r EXCEPT !.stage = "failed"], D)
  BY <1>1, ChangedTyped
<1>3. ASSUME NEW j \in D PROVE RequestTyped([Answered(r) EXCEPT !.job = j], D)
  <2> DEFINE q == [Answered(r) EXCEPT !.job = j]
  <2>1. /\ DOMAIN q = RequestFields /\ q.kind = r.kind /\ q.job = j /\ q.then = r.then /\ q.as = r.as
        /\ q.stage = "answered" /\ q.final = r.final /\ q.notify = r.notify /\ r.kind = "generate"
    BY <1>1 DEF RequestTyped, RequestFields, Answered, ServeGenerate
  <2> HIDE DEF q
  <2>2. RequestTyped(q, D)
    BY <1>1, <2>1 DEF RequestTyped
  <2> QED
    BY <2>2 DEF q
<1>4. CASE r.as # NoUser /\ Created # Jobs
  <2>1. PICK j \in Jobs \ Created :
          /\ owner' = [owner EXCEPT ![j] = r.as]
          /\ net' = IF r.then = "gone" THEN Finish(r) ELSE Post(Finish(r), [Answered(r) EXCEPT !.job = j])
    BY <1>4 DEF ServeGenerate
  <2> QED
    BY <1>1, <1>3, <2>1, PostTyped
<1>5. CASE ~(r.as # NoUser /\ Created # Jobs)
  BY <1>1, <1>2, <1>5, PostTyped DEF ServeGenerate
<1> QED
  BY <1>4, <1>5

-----------------------------------------------------------------------------
(* The types of the page, of its requests and of the server *)

ServerTyped ==
  /\ cookie \in Users \cup {NoUser}
  /\ owner \in [Jobs -> Users \cup {NoUser}]
  /\ status \in [Jobs -> Statuses]
  /\ announced \in Nat
  /\ clicks \in 0..MaxClicks
  /\ errors \in 0..MaxErrors

PageInv == ServerTyped /\ PageTyped(page, Created) /\ NetTyped(net, Created)

LEMMA InitTyped == WorkspaceAssumption /\ Init => PageInv
<1> SUFFICES ASSUME WorkspaceAssumption, Init PROVE PageInv
  OBVIOUS
<1>1. ServerTyped
  BY DEF Init, ServerTyped, WorkspaceAssumption, Statuses
<1>2. PageTyped(page, Created)
  BY FreshTyped DEF Init
<1>3. DOMAIN net = {Request("me", NoJob, "boot")} /\ net[Request("me", NoJob, "boot")] = 1
  BY DEF Init, SetToBag
<1>4. RequestTyped(Request("me", NoJob, "boot"), Created)
  BY <1>1, SentTyped DEF Kinds, ServerTyped
<1>5. NetTyped(net, Created)
  BY <1>3, <1>4 DEF NetTyped, IsBag
<1> QED
  BY <1>1, <1>2, <1>5 DEF PageInv

(* The server's side of a step *)
LEMMA ServerSteps ==
  ASSUME WorkspaceAssumption, ServerTyped, NetTyped(net, Created), [Next]_vars
  PROVE  /\ owner' \in [Jobs -> Users \cup {NoUser}] /\ status' \in [Jobs -> Statuses]
         /\ clicks' \in 0..MaxClicks /\ errors' \in 0..MaxErrors
         /\ Created \subseteq Created'
<1> USE DEF ServerTyped
<1>0. Jobs' = Jobs
  BY DEF Jobs
<1>1. ASSUME UNCHANGED server PROVE owner' = owner /\ status' = status /\ Created' = Created
  BY <1>1 DEF server, Created, Jobs
<1>2. ASSUME UNCHANGED bounds PROVE clicks' = clicks /\ errors' = errors
  BY <1>2 DEF bounds
<1>3. CASE UNCHANGED vars
  BY <1>1, <1>2, <1>3 DEF vars
<1>4. CASE \E j \in Jobs : Progress(j)
  <2>1. PICK j \in Jobs : Progress(j)
    BY <1>4
  <2>2. status' \in [Jobs -> Statuses] /\ owner' = owner
    BY <2>1 DEF Progress, Statuses
  <2>3. Created' = Created
    BY <2>2 DEF Created, Jobs
  <2> QED
    BY <1>2, <2>1, <2>2, <2>3 DEF Progress
<1>5. CASE \E r \in UnderWay : ServeGenerate(r)
  <2>1. PICK r \in DOMAIN net : ServeGenerate(r)
    BY <1>5, UnderWayIs
  <2>2. r.as \in Users \cup {NoUser}
    BY DEF NetTyped, RequestTyped
  <2>3. owner' = owner \/ \E j \in Jobs \ Created : owner' = [owner EXCEPT ![j] = r.as]
    BY <2>1 DEF ServeGenerate
  <2>4. owner' \in [Jobs -> Users \cup {NoUser}]
    BY <2>2, <2>3
  <2>5. Created \subseteq Created'
    BY <2>3 DEF Created, Jobs
  <2> QED
    BY <1>2, <2>1, <2>4, <2>5 DEF ServeGenerate
<1>6. CASE (\E r \in UnderWay : Serve(r) \/ RefreshTimesOut(r) \/ Deliver(r)) \/ TimerFires
  BY <1>1, <1>2, <1>6 DEF Serve, RefreshTimesOut, Deliver, TimerFires
<1>7. CASE \E r \in UnderWay : Lose(r)
  <2>1. UNCHANGED server /\ clicks' = clicks /\ errors' \in 0..MaxErrors
    BY <1>7 DEF Lose, WorkspaceAssumption
  <2> QED
    BY <1>1, <2>1
<1>8. CASE \/ \E j \in Jobs : SelectJob(j)
           \/ SubmitPrompt \/ HistoryTab \/ RefreshJobsButton \/ RefreshAccount
           \/ \E u \in Users : Login(u)
           \/ Logout \/ Reload
  <2>1. \E g : Click(g)
    BY <1>8 DEF SelectJob, SubmitPrompt, HistoryTab, RefreshJobsButton, RefreshAccount, Login, Logout, Reload
  <2>2. UNCHANGED server /\ clicks' \in 0..MaxClicks /\ errors' = errors
    BY <2>1 DEF Click, WorkspaceAssumption
  <2> QED
    BY <1>1, <2>2
<1> QED
  BY <1>3, <1>4, <1>5, <1>6, <1>7, <1>8 DEF Next, ServeAny, DeliverAny

LEMMA StepTyped == WorkspaceAssumption /\ PageInv /\ [Next]_vars => PageInv'
<1> SUFFICES ASSUME WorkspaceAssumption, PageInv, [Next]_vars
             PROVE  PageInv'
  OBVIOUS
<1>1. ServerTyped /\ PageTyped(page, Created) /\ NetTyped(net, Created) /\ Created \subseteq Jobs
  BY DEF PageInv, Created
<1>2. /\ owner' \in [Jobs -> Users \cup {NoUser}] /\ status' \in [Jobs -> Statuses]
      /\ clicks' \in 0..MaxClicks /\ errors' \in 0..MaxErrors
      /\ Created \subseteq Created'
  BY <1>1, ServerSteps
<1>3. ASSUME cookie' \in Users \cup {NoUser}, announced' \in Nat,
             PageTyped(page', Created), NetTyped(net', Created)
      PROVE  PageInv'
  <2>1. ServerTyped'
    BY <1>2, <1>3 DEF ServerTyped, Jobs, Statuses
  <2>2. PageTyped(page', Created') /\ NetTyped(net', Created')
    BY <1>2, <1>3, PageGrows, NetGrows
  <2>3. (PageTyped(page, Created))' /\ (NetTyped(net, Created))'
    BY <2>2 DEF PageTyped, NetTyped, RequestTyped, IsList, TimerKnown, Statuses, Kinds
  <2> QED
    BY <2>1, <2>3 DEF PageInv
<1>4. cookie \in Users \cup {NoUser} /\ announced \in Nat /\ status \in [Jobs -> Statuses]
  BY <1>1 DEF ServerTyped
<1>5. CASE UNCHANGED vars \/ \E j \in Jobs : Progress(j)
  BY <1>1, <1>3, <1>4, <1>5 DEF vars, Progress
<1>6. CASE \E r \in UnderWay : ServeGenerate(r)
  <2>1. PICK r \in DOMAIN net : ServeGenerate(r)
    BY <1>6, UnderWayIs
  <2>2. \A j \in Jobs \ Created : owner' = [owner EXCEPT ![j] = r.as] => j \in Created' \/ r.as = NoUser
    BY <1>1 DEF ServerTyped, Created, Jobs
  <2>3. CASE r.as # NoUser
    <3>1. NetTyped(net', Created')
      BY <1>1, <1>2, <2>1, <2>2, <2>3, GenerateTyped
    <3>2. PageTyped(page', Created')
      BY <1>1, <1>2, <2>1, PageGrows DEF ServeGenerate
    <3>3. ServerTyped'
      BY <1>2, <1>4, <2>1 DEF ServerTyped, Jobs, Statuses, ServeGenerate
    <3>4. (PageTyped(page, Created))' /\ (NetTyped(net, Created))'
      BY <3>1, <3>2 DEF PageTyped, NetTyped, RequestTyped, IsList, TimerKnown, Statuses, Kinds
    <3> QED
      BY <3>3, <3>4 DEF PageInv
  <2>4. CASE r.as = NoUser
    <3>1. RequestTyped(r, Created) /\ NetTyped(Finish(r), Created)
      BY <1>1, FinishTyped DEF NetTyped
    <3>2. net' = Finish(r) \/ net' = Post(Finish(r), [r EXCEPT !.stage = "failed"])
      BY <2>1, <2>4 DEF ServeGenerate
    <3>3. RequestTyped([r EXCEPT !.stage = "failed"], Created)
      BY <3>1, ChangedTyped
    <3>4. NetTyped(net', Created)
      BY <3>1, <3>2, <3>3, PostTyped
    <3> QED
      BY <1>1, <1>3, <1>4, <2>1, <3>4 DEF ServeGenerate
  <2> QED
    BY <2>3, <2>4
<1>7. CASE \E r \in UnderWay : Serve(r)
  <2>1. PICK r \in DOMAIN net : Serve(r)
    BY <1>7, UnderWayIs
  <2>2. NetTyped(net', Created)
    BY <1>1, <1>4, <2>1, ServeTyped
  <2> QED
    BY <1>1, <1>3, <1>4, <2>1, <2>2 DEF Serve
<1>8. CASE \E r \in UnderWay : Lose(r) \/ RefreshTimesOut(r)
  <2>1. PICK r \in DOMAIN net : Lose(r) \/ RefreshTimesOut(r)
    BY <1>8, UnderWayIs
  <2>2. NetTyped(net', Created)
    BY <1>1, <2>1, LoseTyped
  <2> QED
    BY <1>1, <1>3, <1>4, <2>1, <2>2 DEF Lose, RefreshTimesOut
<1>9. CASE \E r \in UnderWay : Deliver(r)
  BY <1>1, <1>3, <1>4, <1>9, DeliverTyped, UnderWayIs
<1>10. CASE TimerFires
  BY <1>1, <1>3, <1>4, <1>10, FiresTyped DEF TimerFires
<1>11. CASE \E j \in Jobs : SelectJob(j)
  BY <1>1, <1>3, <1>4, <1>11, SelectTyped DEF SelectJob, Click
<1>12. CASE \/ SubmitPrompt \/ HistoryTab \/ RefreshJobsButton \/ RefreshAccount
            \/ \E u \in Users : Login(u)
            \/ Logout \/ Reload
  <2>1. PageTyped(page', Created) /\ NetTyped(net', Created)
    BY <1>1, <1>4, <1>12, UserTypes
  <2>2. cookie' = cookie /\ announced' = announced
    BY <1>12 DEF SubmitPrompt, HistoryTab, RefreshJobsButton, RefreshAccount, Login, Logout, Reload, Click
  <2> QED
    BY <1>3, <1>4, <2>1, <2>2
<1> QED
  BY <1>5, <1>6, <1>7, <1>8, <1>9, <1>10, <1>11, <1>12 DEF Next, ServeAny, DeliverAny

-----------------------------------------------------------------------------
(* Announcements.  A completion that may still be announced is a token: the *)
(* flag of the page, a request that carries it, or the answer to a          *)
(* submission that the page has not seen.  There never are more tokens and  *)
(* announcements together than tasks were submitted.                        *)

Announces(r) == r.notify \/ (r.kind = "generate" /\ r.stage = "answered")
Announcing(n) == {r \in DOMAIN n : Announces(r)}
Tokens(n) == UNION {{<<r, i>> : i \in 1..n[r]} : r \in Announcing(n)}
Flag(p) == IF p.notify THEN 1 ELSE 0
Weight(r) == IF Announces(r) THEN 1 ELSE 0

Counted(n) == IsFiniteSet(Tokens(n)) /\ Cardinality(Tokens(n)) \in Nat

AnnounceInv ==
  /\ PageInv
  /\ Counted(net)
  /\ Earlier \subseteq Created
  /\ announced + Flag(page) + Cardinality(Tokens(net)) <= Cardinality(Created \ Earlier)

LEMMA TokenIs ==
  ASSUME NEW n, IsBag(n), NEW r, NEW i
  PROVE  <<r, i>> \in Tokens(n) <=> r \in DOMAIN n /\ i \in Nat \ {0} /\ Announces(r) /\ i <= n[r]
<1>1. <<r, i>> \in Tokens(n) <=> \E q \in Announcing(n) : \E k \in 1..n[q] : <<r, i>> = <<q, k>>
  BY DEF Tokens
<1>2. <<r, i>> \in Tokens(n) <=> r \in Announcing(n) /\ i \in 1..n[r]
  BY <1>1
<1>3. r \in DOMAIN n => n[r] \in Nat \ {0}
  BY DEF IsBag
<1> QED
  BY <1>2, <1>3 DEF Announcing

LEMMA TokensArePairs == ASSUME NEW n PROVE \A t \in Tokens(n) : t = <<t[1], t[2]>>
<1>1. \A t \in Tokens(n) : \E q \in Announcing(n) : \E k \in 1..n[q] : t = <<q, k>>
  BY DEF Tokens
<1> QED
  BY <1>1

(* Sets of tokens with the same pairs are the same. *)
LEMMA SameTokens ==
  ASSUME NEW n, NEW S, \A t \in S : t = <<t[1], t[2]>>,
         \A r, i : <<r, i>> \in Tokens(n) <=> <<r, i>> \in S
  PROVE  Tokens(n) = S
<1>1. \A t \in Tokens(n) : t = <<t[1], t[2]>>
  BY TokensArePairs
<1> QED
  BY <1>1

(* A request that is sent or answered adds or takes a token. *)
LEMMA PostCounts ==
  ASSUME NEW n, IsBag(n), Counted(n), NEW r
  PROVE  /\ Counted(Post(n, r))
         /\ Cardinality(Tokens(Post(n, r))) = Cardinality(Tokens(n)) + Weight(r)
<1> DEFINE m == Post(n, r)
<1>1. /\ DOMAIN m = DOMAIN n \cup {r} /\ IsBag(m)
      /\ \A q \in DOMAIN n \ {r} : m[q] = n[q]
      /\ r \notin DOMAIN n => m[r] = 1
      /\ r \in DOMAIN n => m[r] = n[r] + 1
  BY PostIs
<1>2. /\ \A q \in DOMAIN n : n[q] \in Nat \ {0}
      /\ \A q \in DOMAIN m : m[q] \in Nat \ {0}
  BY <1>1 DEF IsBag
<1> HIDE DEF m
<1>3. CASE ~Announces(r)
  <2>1. \A q, i : <<q, i>> \in Tokens(m) <=> <<q, i>> \in Tokens(n)
    BY <1>1, <1>2, <1>3, TokenIs
  <2>2. Tokens(m) = Tokens(n)
    BY <2>1, SameTokens, TokensArePairs
  <2> QED
    BY <1>3, <2>2 DEF Counted, Weight, m
<1>4. CASE Announces(r)
  <2> DEFINE S == Tokens(n) \cup {<<r, m[r]>>}
  <2>a. ASSUME NEW q, NEW i PROVE <<q, i>> \in Tokens(m) <=> <<q, i>> \in S
    <3>1. <<q, i>> \in S <=> <<q, i>> \in Tokens(n) \/ (q = r /\ i = m[r])
      OBVIOUS
    <3>2. CASE q # r
      BY <1>1, <3>1, <3>2, TokenIs
    <3>3. CASE q = r
      BY <1>1, <1>2, <1>4, <3>1, <3>3, TokenIs
    <3> QED
      BY <3>2, <3>3
  <2>b. \A t \in S : t = <<t[1], t[2]>>
    BY TokensArePairs
  <2>c. Tokens(m) = S
    <3> HIDE DEF S
    <3> QED
      BY <2>a, <2>b, SameTokens
  <2>d. <<r, m[r]>> \notin Tokens(n)
    BY <1>1, <1>2, TokenIs
  <2>1. Tokens(m) = Tokens(n) \cup {<<r, m[r]>>} /\ <<r, m[r]>> \notin Tokens(n)
    BY <2>c, <2>d
  <2>2. /\ IsFiniteSet(Tokens(n) \cup {<<r, m[r]>>})
        /\ Cardinality(Tokens(n) \cup {<<r, m[r]>>}) = Cardinality(Tokens(n)) + 1
    BY <2>1, FS_AddElement DEF Counted
  <2> QED
    BY <1>4, <2>1, <2>2 DEF Counted, Weight, m
<1> QED
  BY <1>3, <1>4

LEMMA FinishCounts ==
  ASSUME IsBag(net), Counted(net), NEW r \in DOMAIN net
  PROVE  /\ Counted(Finish(r))
         /\ Cardinality(Tokens(Finish(r))) = Cardinality(Tokens(net)) - Weight(r)
<1> DEFINE m == Finish(r)
<1>1. /\ net[r] = 1 => DOMAIN m = DOMAIN net \ {r}
      /\ net[r] # 1 => DOMAIN m = DOMAIN net
      /\ IsBag(m)
      /\ \A q \in DOMAIN net \ {r} : m[q] = net[q]
      /\ net[r] # 1 => m[r] = net[r] - 1
  BY FinishIs
<1>2. /\ \A q \in DOMAIN net : net[q] \in Nat \ {0}
      /\ \A q \in DOMAIN m : m[q] \in Nat \ {0}
  BY <1>1 DEF IsBag
<1> HIDE DEF m
<1>3. CASE ~Announces(r)
  <2>1. \A q, i : <<q, i>> \in Tokens(m) <=> <<q, i>> \in Tokens(net)
    BY <1>1, <1>2, <1>3, TokenIs
  <2>2. Tokens(m) = Tokens(net)
    BY <2>1, SameTokens, TokensArePairs
  <2> QED
    BY <1>3, <2>2 DEF Counted, Weight, m
<1>4. CASE Announces(r)
  <2> DEFINE S == Tokens(net) \ {<<r, net[r]>>}
  <2>a. ASSUME NEW q, NEW i PROVE <<q, i>> \in Tokens(m) <=> <<q, i>> \in S
    <3>1. <<q, i>> \in S <=> <<q, i>> \in Tokens(net) /\ ~(q = r /\ i = net[r])
      OBVIOUS
    <3>2. CASE q # r
      BY <1>1, <3>1, <3>2, TokenIs
    <3>3. CASE q = r
      BY <1>1, <1>2, <1>4, <3>1, <3>3, TokenIs
    <3> QED
      BY <3>2, <3>3
  <2>b. \A t \in S : t = <<t[1], t[2]>>
    BY TokensArePairs
  <2>c. Tokens(m) = S
    <3> HIDE DEF S
    <3> QED
      BY <2>a, <2>b, SameTokens
  <2>d. <<r, net[r]>> \in Tokens(net)
    BY <1>2, <1>4, TokenIs
  <2>1. Tokens(m) = Tokens(net) \ {<<r, net[r]>>} /\ <<r, net[r]>> \in Tokens(net)
    BY <2>c, <2>d
  <2>2. /\ IsFiniteSet(Tokens(net) \ {<<r, net[r]>>})
        /\ Cardinality(Tokens(net) \ {<<r, net[r]>>}) = Cardinality(Tokens(net)) - 1
    BY <2>1, FS_RemoveElement DEF Counted
  <2>3. Cardinality(Tokens(net)) - 1 \in Nat
    BY <2>2, FS_CardinalityType
  <2> QED
    BY <1>4, <2>1, <2>2, <2>3 DEF Counted, Weight, m
<1> QED
  BY <1>3, <1>4

(* An answered request is put in the place of the one that was sent. *)
LEMMA SwapCounts ==
  ASSUME IsBag(net), Counted(net), NEW r \in DOMAIN net, NEW q
  PROVE  /\ Counted(Post(Finish(r), q))
         /\ Cardinality(Tokens(Post(Finish(r), q))) = Cardinality(Tokens(net)) - Weight(r) + Weight(q)
<1>1. IsBag(Finish(r))
  BY FinishIs
<1>2. Counted(Finish(r)) /\ Cardinality(Tokens(Finish(r))) = Cardinality(Tokens(net)) - Weight(r)
  BY FinishCounts
<1> QED
  BY <1>1, <1>2, PostCounts

(* New requests carry no announcement. *)
LEMMA SentWeight ==
  ASSUME NEW kind, NEW job, NEW then
  PROVE  Weight(Request(kind, job, then)) = 0
  BY RequestIs DEF Weight, Announces

LEMMA PollActiveCounts ==
  ASSUME NEW n, IsBag(n), Counted(n), NEW p
  PROVE  Counted(PollActiveJob(n, p)) /\ Cardinality(Tokens(PollActiveJob(n, p))) = Cardinality(Tokens(n))
<1>1. /\ Counted(Post(n, Request("poll", p.active, "poll")))
      /\ Cardinality(Tokens(Post(n, Request("poll", p.active, "poll")))) = Cardinality(Tokens(n))
  BY PostCounts, SentWeight DEF Counted
<1> QED
  BY <1>1 DEF PollActiveJob

LEMMA RefreshJobsCounts ==
  ASSUME NEW n, IsBag(n), Counted(n), NEW p, NEW then
  PROVE  Counted(RefreshJobs(n, p, then)) /\ Cardinality(Tokens(RefreshJobs(n, p, then))) = Cardinality(Tokens(n))
<1>1. /\ Counted(Post(n, Request("jobs", NoJob, then)))
      /\ Cardinality(Tokens(Post(n, Request("jobs", NoJob, then)))) = Cardinality(Tokens(n))
  BY PostCounts, SentWeight DEF Counted
<1> QED
  BY <1>1 DEF RefreshJobs

(* An answer is dealt with: its token is gone, unless a new one replaces it. *)
LEMMA AnswerCounts ==
  ASSUME IsBag(net), Counted(net), NEW r \in DOMAIN net,
         \/ net' = Finish(r)
         \/ \E kind, job, then : net' = Post(Finish(r), Request(kind, job, then))
         \/ \E p : net' = PollActiveJob(Finish(r), p)
         \/ \E p, then : net' = RefreshJobs(Finish(r), p, then)
  PROVE  Counted(net') /\ Cardinality(Tokens(net')) = Cardinality(Tokens(net)) - Weight(r)
<1>1. IsBag(Finish(r))
  BY FinishIs
<1>2. Counted(Finish(r)) /\ Cardinality(Tokens(Finish(r))) = Cardinality(Tokens(net)) - Weight(r)
  BY FinishCounts
<1>3. CASE net' = Finish(r)
  BY <1>2, <1>3
<1>4. CASE \E kind, job, then : net' = Post(Finish(r), Request(kind, job, then))
  <2>1. PICK kind, job, then : net' = Post(Finish(r), Request(kind, job, then))
    BY <1>4
  <2>2. Weight(Request(kind, job, then)) = 0
    BY SentWeight
  <2>3. /\ Counted(net')
        /\ Cardinality(Tokens(net')) = Cardinality(Tokens(Finish(r))) + Weight(Request(kind, job, then))
    BY <1>1, <1>2, <2>1, PostCounts
  <2> QED
    BY <1>2, <2>2, <2>3 DEF Counted
<1>5. CASE \E p : net' = PollActiveJob(Finish(r), p)
  BY <1>1, <1>2, <1>5, PollActiveCounts
<1>6. CASE \E p, then : net' = RefreshJobs(Finish(r), p, then)
  BY <1>1, <1>2, <1>6, RefreshJobsCounts
<1> QED
  BY <1>3, <1>4, <1>5, <1>6

(* A page that is asked to announce no more than before *)
LEMMA FlagIs ==
  ASSUME NEW p, p.notify \in BOOLEAN, NEW q, q.notify \in BOOLEAN
  PROVE  /\ Flag(p) \in {0, 1}
         /\ ~p.notify => Flag(p) = 0
         /\ p.notify => Flag(p) = 1
         /\ (q.notify => p.notify) => Flag(q) <= Flag(p)
  BY DEF Flag

LEMMA WeightIs == ASSUME NEW r PROVE Weight(r) \in {0, 1}
  BY DEF Weight

Balanced ==
  /\ Counted(net')
  /\ announced' + Flag(page') + Cardinality(Tokens(net'))
       <= announced + Flag(page) + Cardinality(Tokens(net))

LEMMA DeliverPollCounts ==
  ASSUME WorkspaceAssumption, PageInv, PageInv', Counted(net), NEW r \in DOMAIN net,
         r.stage # "sent", DeliverPoll(r)
  PROVE  Balanced
<1>1. /\ IsBag(net) /\ PageTyped(page, Created) /\ Created \subseteq Jobs /\ announced \in Nat
      /\ cookie \in Users \cup {NoUser}
      /\ RequestTyped(r, Created) /\ page.notify \in BOOLEAN
  BY DEF PageInv, ServerTyped, NetTyped, PageTyped, Created
<1>2. page'.notify \in BOOLEAN
  BY DEF PageInv, PageTyped
<1>3. /\ r.kind = "poll" /\ r.job \in Created
      /\ r.stage = "answered" => r.list[r.job] \in Statuses
  BY <1>1 DEF RequestTyped, DeliverPoll
<1>4. Weight(r) = 0
  BY <1>1, <1>3 DEF RequestTyped, Weight, Announces
<1>5. Counted(Finish(r)) /\ Cardinality(Tokens(Finish(r))) = Cardinality(Tokens(net))
  BY <1>1, <1>4, FinishCounts DEF Counted
<1>6. ASSUME net' = Finish(r), announced' = announced, page'.notify => page.notify PROVE Balanced
  BY <1>1, <1>2, <1>5, <1>6, FlagIs DEF Balanced, Counted
<1>7. CASE PollPending(r)
  <2> DEFINE shown == ShowPolled(page, r.job, r.list[r.job])
             q == [shown EXCEPT !.attempt = AtMost(@ + 1, Patience)]
  <2>1. PageTyped(shown, Created) /\ shown.notify = page.notify
    <3>1. PageTyped(shown, Created) /\ Alike(page, shown)
      BY <1>1, <1>3, <1>7, PolledTyped DEF PollPending
    <3> QED
      BY <3>1 DEF Alike
  <2>2. page' = ScheduleJobPoll(q) /\ net' = Finish(r) /\ announced' = announced
    BY <1>7 DEF PollPending
  <2> HIDE DEF shown
  <2>3. q.notify = shown.notify /\ q.timers = shown.timers /\ DOMAIN q = PageFields
    BY <2>1, Fields DEF PageTyped, TimerKnown
  <2> HIDE DEF q
  <2>4. ScheduleJobPoll(q).notify = q.notify
    BY <2>3, Fields DEF ScheduleJobPoll
  <2> QED
    BY <1>6, <2>1, <2>2, <2>3, <2>4
<1>8. CASE PollFinished(r)
  <2> DEFINE final == r.list[r.job]
             shown == ShowPolled(page, r.job, final)
             stopped == RememberActiveJob(StopJobPolling(shown), NoJob)
             late == ShowPolled(RenderJobs(stopped, NoList), r.job, final)
             req == [Request("jobs", r.job, "settled") EXCEPT !.final = final, !.notify = page.notify]
  <2>1. final \in Statuses
    BY <1>3, <1>8 DEF PollFinished
  <2>2. \/ /\ page' = stopped /\ net' = Post(Finish(r), req) /\ announced' = announced
        \/ /\ page' = ResetResultStage(late) /\ net' = Finish(r)
           /\ announced' = IF page.notify THEN announced + 1 ELSE announced
    BY <1>8 DEF PollFinished
  <2>3. req.kind = "jobs" /\ req.notify = page.notify
    <3> DEFINE o == Request("jobs", r.job, "settled")
    <3>1. DOMAIN o = RequestFields /\ o.kind = "jobs"
      BY RequestIs
    <3> HIDE DEF o, final
    <3>2. [o EXCEPT !.final = final, !.notify = page.notify].kind = "jobs"
      BY <3>1 DEF RequestFields
    <3>3. [o EXCEPT !.final = final, !.notify = page.notify].notify = page.notify
      BY <3>1 DEF RequestFields
    <3> QED
      BY <3>2, <3>3 DEF o, final
  <2>4. Weight(req) = Flag(page)
    <3> HIDE DEF req
    <3> QED
      BY <2>3 DEF Weight, Announces, Flag
  <2> HIDE DEF req
  <2>5. PageTyped(shown, Created)
    <3> HIDE DEF final
    <3> QED
      BY <1>1, <1>3, <2>1, PolledTyped
  <2> HIDE DEF shown
  <2>6. PageTyped(stopped, Created) /\ stopped.notify = FALSE
    BY <2>5, StopTyped
  <2> HIDE DEF stopped
  <2>7. PageTyped(RenderJobs(stopped, NoList), Created)
    BY <1>1, <2>6, JobsTyped, NoListTyped
  <2>8. PageTyped(late, Created)
    <3> HIDE DEF final
    <3> QED
      BY <1>1, <1>3, <2>1, <2>7, PolledTyped
  <2> HIDE DEF late
  <2>9. ResetResultStage(late).notify = FALSE
    BY <2>8, ResetTyped
  <2>10. Flag(page') = 0
    BY <2>2, <2>6, <2>9 DEF Flag
  <2>11. CASE page' = stopped /\ net' = Post(Finish(r), req) /\ announced' = announced
    <3>1. Counted(net') /\ Cardinality(Tokens(net')) = Cardinality(Tokens(net)) - Weight(r) + Weight(req)
      BY <1>1, <2>11, SwapCounts
    <3>2. Flag(page) \in {0, 1}
      BY <1>1, FlagIs
    <3> QED
      BY <1>1, <1>4, <2>4, <2>10, <2>11, <3>1, <3>2 DEF Balanced, Counted
  <2>12. CASE /\ page' = ResetResultStage(late) /\ net' = Finish(r)
              /\ announced' = IF page.notify THEN announced + 1 ELSE announced
    <3>1. announced' = announced + Flag(page)
      BY <1>1, <2>12 DEF Flag
    <3>2. Flag(page) \in {0, 1}
      BY <1>1, FlagIs
    <3> QED
      BY <1>1, <1>5, <2>10, <2>12, <3>1, <3>2 DEF Balanced, Counted
  <2> QED
    BY <2>2, <2>11, <2>12
<1>9. CASE PollFailed(r)
  <2> DEFINE q == [page EXCEPT !.attempt = @ + 1]
  <2>1. /\ net' = Finish(r) /\ announced' = announced
        /\ page' = StopJobPolling(page) \/ page' = ScheduleJobPoll(q)
    BY <1>9 DEF PollFailed
  <2>2. StopJobPolling(page).notify = FALSE
    BY <1>1, StopTyped
  <2>3. q.notify = page.notify /\ DOMAIN q = PageFields
    BY <1>1, Fields DEF PageTyped, TimerKnown
  <2> HIDE DEF q
  <2>4. ScheduleJobPoll(q).notify = q.notify
    BY <2>3, Fields DEF ScheduleJobPoll
  <2> QED
    BY <1>6, <2>1, <2>2, <2>3, <2>4
<1> QED
  BY <1>7, <1>8, <1>9 DEF DeliverPoll

LEMMA DeliverCounts ==
  ASSUME WorkspaceAssumption, PageInv, PageInv', Counted(net), NEW r \in DOMAIN net, Deliver(r)
  PROVE  Balanced
<1>1. /\ IsBag(net) /\ PageTyped(page, Created) /\ Created \subseteq Jobs /\ announced \in Nat
      /\ cookie \in Users \cup {NoUser}
      /\ RequestTyped(r, Created) /\ page.notify \in BOOLEAN /\ r.notify \in BOOLEAN
      /\ r.as \in Users \cup {NoUser}
  BY DEF PageInv, ServerTyped, NetTyped, PageTyped, RequestTyped, Created
<1>2. page'.notify \in BOOLEAN
  BY DEF PageInv, PageTyped
<1>3. Weight(r) \in {0, 1}
  BY WeightIs
<1>4. ASSUME Counted(net'), Cardinality(Tokens(net')) = Cardinality(Tokens(net)) - Weight(r),
             announced' = announced, page'.notify => page.notify
      PROVE  Balanced
  <2>1. Flag(page') <= Flag(page) /\ Flag(page) \in {0, 1} /\ Flag(page') \in {0, 1}
    BY <1>1, <1>2, <1>4, FlagIs
  <2> QED
    BY <1>1, <1>3, <1>4, <2>1 DEF Balanced, Counted
<1>5. SignOut(page).notify = FALSE
  BY <1>1, SignOutTyped
<1>6. [page EXCEPT !.user = r.as].notify = page.notify
  BY <1>1, UserTyped
<1>7. CASE DeliverMe(r)
  <2>1. net' = Finish(r) \/ \E kind, job, then : net' = Post(Finish(r), Request(kind, job, then))
    BY <1>7 DEF DeliverMe
  <2> QED
    BY <1>1, <1>4, <1>5, <1>6, <1>7, <2>1, AnswerCounts DEF DeliverMe
<1>8. CASE DeliverLogin(r)
  <2> DEFINE o == Request("gateways", NoJob, "login")
             q == [o EXCEPT !.as = r.as]
  <2>1. o.kind = "gateways" /\ ~o.notify /\ DOMAIN o = RequestFields
    BY RequestIs
  <2>2. net' = Finish(r) \/ net' = Post(Finish(r), q)
    BY <1>8 DEF DeliverLogin
  <2>3. page' = page \/ page' = [page EXCEPT !.user = r.as]
    BY <1>8 DEF DeliverLogin
  <2> HIDE DEF o
  <2>4. Weight(q) = 0
    <3>1. q.kind = "gateways" /\ ~q.notify
      BY <2>1 DEF RequestFields
    <3> QED
      BY <3>1 DEF Weight, Announces
  <2> HIDE DEF q
  <2>5. Counted(net') /\ Cardinality(Tokens(net')) = Cardinality(Tokens(net)) - Weight(r)
    <3>1. CASE net' = Finish(r)
      BY <1>1, <3>1, AnswerCounts
    <3>2. CASE net' = Post(Finish(r), q)
      BY <1>1, <1>3, <2>4, <3>2, SwapCounts DEF Counted
    <3> QED
      BY <2>2, <3>1, <3>2
  <2> QED
    BY <1>4, <1>6, <1>8, <2>3, <2>5 DEF DeliverLogin
<1>9. CASE DeliverLogout(r)
  BY <1>1, <1>4, <1>5, <1>9, AnswerCounts DEF DeliverLogout
<1>10. CASE DeliverGateways(r)
  <2> DEFINE z == RenderJobs(page, NoList)
  <2>1. PageTyped(z, Created) /\ z.notify = page.notify
    BY <1>1, JobsTyped, NoListTyped DEF Alike
  <2>2. page' = page \/ page' = Hydrate(z, NoList)
    BY <1>10 DEF DeliverGateways
  <2> HIDE DEF z
  <2>3. Hydrate(z, NoList).notify => z.notify
    BY <1>1, <2>1, HydrateTyped, NoListTyped
  <2>4. net' = Finish(r) \/ \E p, then : net' = RefreshJobs(Finish(r), p, then)
    BY <1>10 DEF DeliverGateways
  <2>5. Counted(net') /\ Cardinality(Tokens(net')) = Cardinality(Tokens(net)) - Weight(r)
    BY <1>1, <2>4, AnswerCounts
  <2> QED
    BY <1>4, <1>10, <2>1, <2>2, <2>3, <2>5 DEF DeliverGateways
<1>11. CASE DeliverJobs(r)
  <2>1. PICK p : /\ p = IF r.stage = "answered" THEN RenderJobs(page, r.list) ELSE page
                 /\ page' = AfterRefresh(r, p)
                 /\ net' = Finish(r) \/ net' = PollActiveJob(Finish(r), page')
    BY <1>11 DEF DeliverJobs
  <2>2. announced' = IF r.notify THEN announced + 1 ELSE announced
    BY <1>11 DEF DeliverJobs
  <2>3. r.kind = "jobs" /\ (r.stage = "answered" => IsList(r.list, Created))
    BY <1>1, <1>11 DEF DeliverJobs, RequestTyped
  <2>4. PageTyped(p, Created) /\ p.notify = page.notify
    BY <1>1, <2>1, <2>3, JobsTyped DEF Alike
  <2>5. page'.notify => p.notify
    BY <1>1, <2>1, <2>3, <2>4, RefreshTyped
  <2>6. Counted(net') /\ Cardinality(Tokens(net')) = Cardinality(Tokens(net)) - Weight(r)
    BY <1>1, <2>1, AnswerCounts
  <2>7. CASE ~r.notify
    BY <1>4, <2>2, <2>4, <2>5, <2>6, <2>7
  <2>8. CASE r.notify
    <3>1. Weight(r) = 1 /\ announced' = announced + 1
      BY <2>2, <2>8 DEF Weight, Announces
    <3>2. Flag(page') <= Flag(page) /\ Flag(page) \in {0, 1} /\ Flag(page') \in {0, 1}
      BY <1>1, <1>2, <2>4, <2>5, FlagIs
    <3> QED
      BY <1>1, <2>6, <3>1, <3>2 DEF Balanced, Counted
  <2> QED
    BY <2>7, <2>8
<1>12. CASE DeliverPoll(r)
  BY <1>12, DeliverPollCounts DEF Deliver
<1>13. CASE DeliverGenerate(r)
  <2>1. net' = Finish(r) \/ net' = PollActiveJob(Finish(r), page')
    BY <1>13 DEF DeliverGenerate
  <2>2. Counted(net') /\ Cardinality(Tokens(net')) = Cardinality(Tokens(net)) - Weight(r)
    BY <1>1, <2>1, AnswerCounts
  <2>3. CASE r.stage = "answered"
    <3>1. Weight(r) = 1 /\ announced' = announced
      BY <1>13, <2>3 DEF DeliverGenerate, Weight, Announces
    <3>2. Flag(page) \in {0, 1} /\ Flag(page') \in {0, 1}
      BY <1>1, <1>2, FlagIs
    <3> QED
      BY <1>1, <2>2, <3>1, <3>2 DEF Balanced, Counted
  <2>4. CASE r.stage # "answered"
    BY <1>4, <1>13, <2>2, <2>4 DEF DeliverGenerate
  <2> QED
    BY <2>3, <2>4
<1> QED
  BY <1>7, <1>8, <1>9, <1>10, <1>11, <1>12, <1>13 DEF Deliver

(* The timer and the user announce nothing; a page that is loaded again     *)
(* forgets its announcements.                                               *)
LEMMA ActsCount ==
  ASSUME WorkspaceAssumption, PageInv, PageInv', Counted(net),
         \/ TimerFires
         \/ \E j \in Jobs : SelectJob(j)
         \/ SubmitPrompt \/ HistoryTab \/ RefreshJobsButton \/ RefreshAccount
         \/ \E u \in Users : Login(u)
         \/ Logout \/ Reload
  PROVE  Balanced
<1>1. /\ IsBag(net) /\ PageTyped(page, Created) /\ NetTyped(net, Created) /\ Created \subseteq Jobs
      /\ announced \in Nat /\ cookie \in Users \cup {NoUser} /\ page.notify \in BOOLEAN
  BY DEF PageInv, ServerTyped, NetTyped, PageTyped, Created
<1>2. page'.notify \in BOOLEAN
  BY DEF PageInv, PageTyped
<1>3. ASSUME Counted(net'), Cardinality(Tokens(net')) = Cardinality(Tokens(net)), announced' = announced,
             page'.notify => page.notify
      PROVE  Balanced
  <2>1. Flag(page') <= Flag(page) /\ Flag(page) \in {0, 1} /\ Flag(page') \in {0, 1}
    BY <1>1, <1>2, <1>3, FlagIs
  <2> QED
    BY <1>1, <1>3, <2>1 DEF Balanced, Counted
<1>4. ASSUME NEW kind, NEW job, NEW then, net' = Post(net, Request(kind, job, then))
      PROVE  Counted(net') /\ Cardinality(Tokens(net')) = Cardinality(Tokens(net))
  BY <1>1, <1>4, PostCounts, SentWeight DEF Counted
<1>5. CASE TimerFires
  <2>1. PICK t \in page.timers : page' = [page EXCEPT !.timers = @ \ {t}] /\ net' = PollActiveJob(net, page')
    BY <1>5 DEF TimerFires
  <2>2. page'.notify = page.notify
    BY <1>1, <2>1, Fields DEF PageTyped, TimerKnown
  <2>3. Counted(net') /\ Cardinality(Tokens(net')) = Cardinality(Tokens(net))
    BY <1>1, <2>1, PollActiveCounts
  <2> QED
    BY <1>3, <1>5, <2>2, <2>3 DEF TimerFires
<1>6. CASE \E j \in Jobs : SelectJob(j)
  <2>1. PICK j \in Jobs : SelectJob(j)
    BY <1>6
  <2> DEFINE shown == RenderResultCard(page, j, page.jobs[j])
  <2>2. j \in Created /\ page.jobs[j] \in Statuses
    BY <1>1, <2>1 DEF SelectJob, PageTyped, IsList
  <2>3. \/ page' = StartJobPolling(shown, j, FALSE) /\ net' = PollActiveJob(net, page')
        \/ page' = shown /\ net' = net
    BY <2>1 DEF SelectJob
  <2>4. PageTyped(shown, Created) /\ shown.notify = page.notify
    <3>1. PageTyped(shown, Created) /\ Alike(page, shown)
      BY <1>1, <2>2, CardTyped
    <3> QED
      BY <3>1 DEF Alike
  <2> HIDE DEF shown
  <2>5. StartJobPolling(shown, j, FALSE).notify = FALSE
    BY <2>4, Fields DEF PageTyped, TimerKnown, StartJobPolling, RememberActiveJob
  <2>6. Counted(net') /\ Cardinality(Tokens(net')) = Cardinality(Tokens(net))
    BY <1>1, <2>3, PollActiveCounts
  <2>7. announced' = announced
    BY <2>1 DEF SelectJob, Click
  <2> QED
    BY <1>3, <2>3, <2>4, <2>5, <2>6, <2>7
<1>7. CASE SubmitPrompt \/ RefreshAccount \/ Logout
  <2>1. page' = page /\ announced' = announced /\ \E kind, job, then : net' = Post(net, Request(kind, job, then))
    BY <1>7 DEF SubmitPrompt, RefreshAccount, Logout, Click
  <2> QED
    BY <1>3, <1>4, <2>1
<1>8. CASE HistoryTab \/ RefreshJobsButton
  <2>1. /\ page' = page \/ page' = RenderJobs(page, NoList)
        /\ announced' = announced
        /\ \E p, then : net' = RefreshJobs(net, p, then)
    BY <1>8 DEF HistoryTab, RefreshJobsButton, Click
  <2>2. RenderJobs(page, NoList).notify = page.notify
    <3>1. Alike(page, RenderJobs(page, NoList))
      BY <1>1, JobsTyped, NoListTyped
    <3> QED
      BY <3>1 DEF Alike
  <2>3. Counted(net') /\ Cardinality(Tokens(net')) = Cardinality(Tokens(net))
    BY <1>1, <2>1, RefreshJobsCounts
  <2> QED
    BY <1>3, <2>1, <2>2, <2>3
<1>9. CASE \E u \in Users : Login(u)
  <2>1. PICK u \in Users : Login(u)
    BY <1>9
  <2> DEFINE o == Request("login", NoJob, "login")
             q == [o EXCEPT !.as = u]
  <2>2. net' = Post(net, q) /\ page' = page /\ announced' = announced
    BY <2>1 DEF Login, Click
  <2>3. o.kind = "login" /\ ~o.notify /\ DOMAIN o = RequestFields
    BY RequestIs
  <2> HIDE DEF o
  <2>4. q.kind = "login" /\ ~q.notify
    BY <2>3 DEF RequestFields
  <2> HIDE DEF q
  <2>5. Weight(q) = 0
    BY <2>4 DEF Weight, Announces
  <2>6. Counted(net') /\ Cardinality(Tokens(net')) = Cardinality(Tokens(net))
    BY <1>1, <2>2, <2>5, PostCounts DEF Counted
  <2> QED
    BY <1>3, <2>2, <2>6
<1>10. CASE Reload
  <2>1. page' = FreshPage(page.remembered) /\ announced' = announced
    BY <1>10 DEF Reload, Click
  <2>2. page'.notify = FALSE
    BY <2>1 DEF FreshPage
  <2>3. \A q \in DOMAIN net' : ~Announces(q)
    <3>1. ~Announces(Request("me", NoJob, "boot"))
      BY RequestIs DEF Announces
    <3>2. ASSUME NEW r \in DOMAIN net, r.kind = "generate", r.stage = "sent"
          PROVE  ~Announces([r EXCEPT !.then = "gone"])
      <4>1. RequestTyped(r, Created)
        BY <1>1 DEF NetTyped
      <4>2. ~r.notify
        BY <3>2, <4>1 DEF RequestTyped
      <4>3. [r EXCEPT !.then = "gone"].stage = "sent" /\ ~[r EXCEPT !.then = "gone"].notify
        BY <3>2, <4>1, <4>2 DEF RequestTyped, RequestFields
      <4> HIDE DEF Announces
      <4> QED
        BY <4>3 DEF Announces
    <3> QED
      BY <1>1, <1>10, <3>1, <3>2, ReloadNet
  <2>4. Tokens(net') = {}
    BY <2>3 DEF Tokens, Announcing
  <2>5. Counted(net') /\ Cardinality(Tokens(net')) = 0
    BY <2>4, FS_EmptySet DEF Counted
  <2>6. Flag(page') = 0 /\ Flag(page) \in {0, 1}
    BY <1>1, <2>2, FlagIs DEF Flag
  <2> QED
    BY <1>1, <2>1, <2>5, <2>6 DEF Balanced, Counted
<1> QED
  BY <1>5, <1>6, <1>7, <1>8, <1>9, <1>10

(* A request that is answered, lost or given up keeps its announcement,     *)
(* except that an answered submission gains one and a lost answer loses it. *)
LEMMA ChangedWeight ==
  ASSUME NEW C, NEW r, RequestTyped(r, C)
  PROVE  /\ r.kind # "generate" => Weight([Answered(r) EXCEPT !.list = ReplyTo(r)]) = Weight(r)
         /\ Weight([r EXCEPT !.stage = "failed"]) <= Weight(r)
         /\ Weight([r EXCEPT !.stage = "failed", !.list = NoList]) <= Weight(r)
         /\ Weight([r EXCEPT !.then = "expired"]) = Weight(r)
<1> DEFINE a == [Answered(r) EXCEPT !.list = ReplyTo(r)]
           b == [r EXCEPT !.stage = "failed"]
           c == [r EXCEPT !.stage = "failed", !.list = NoList]
           d == [r EXCEPT !.then = "expired"]
<1>1. /\ a.kind = r.kind /\ b.kind = r.kind /\ c.kind = r.kind /\ d.kind = r.kind
      /\ b.stage = "failed" /\ c.stage = "failed" /\ d.stage = r.stage
  BY DEF RequestTyped, RequestFields, Answered
<1>2. a.notify = r.notify /\ b.notify = r.notify /\ c.notify = r.notify /\ d.notify = r.notify
  BY DEF RequestTyped, RequestFields, Answered
<1> HIDE DEF a, b, c, d
<1>3. /\ r.kind # "generate" => Weight(a) = Weight(r)
      /\ Weight(b) <= Weight(r) /\ Weight(c) <= Weight(r) /\ Weight(d) = Weight(r)
  BY <1>1, <1>2 DEF Weight, Announces
<1> QED
  BY <1>3 DEF a, b, c, d

LEMMA ServesCount ==
  ASSUME PageInv, Counted(net), NEW r \in DOMAIN net, Serve(r) \/ Lose(r) \/ RefreshTimesOut(r)
  PROVE  Balanced
<1>1. IsBag(net) /\ RequestTyped(r, Created) /\ announced \in Nat /\ page.notify \in BOOLEAN
  BY DEF PageInv, ServerTyped, NetTyped, PageTyped
<1>2. page' = page /\ announced' = announced
  BY DEF Serve, Lose, RefreshTimesOut
<1>3. PICK q : net' = Post(Finish(r), q) /\ Weight(q) <= Weight(r)
  <2>1. CASE Serve(r)
    <3>1. PICK q : net' = Post(Finish(r), q) /\ (\/ q = [Answered(r) EXCEPT !.list = ReplyTo(r)]
                                                 \/ q = [r EXCEPT !.stage = "failed"])
      BY <2>1 DEF Serve
    <3>2. r.kind # "generate"
      BY <2>1 DEF Serve
    <3>3. Weight(r) <= Weight(r)
      BY WeightIs
    <3> QED
      BY <1>1, <3>1, <3>2, <3>3, ChangedWeight
  <2>2. CASE Lose(r)
    BY <1>1, <2>2, ChangedWeight DEF Lose
  <2>3. CASE RefreshTimesOut(r)
    <3>1. Weight(r) <= Weight(r)
      BY WeightIs
    <3> QED
      BY <1>1, <2>3, <3>1, ChangedWeight DEF RefreshTimesOut
  <2> QED
    BY <2>1, <2>2, <2>3
<1>4. Counted(net') /\ Cardinality(Tokens(net')) = Cardinality(Tokens(net)) - Weight(r) + Weight(q)
  BY <1>1, <1>3, SwapCounts
<1>5. Weight(r) \in {0, 1} /\ Weight(q) \in {0, 1} /\ Flag(page) \in {0, 1}
  BY <1>1, WeightIs, FlagIs
<1> QED
  BY <1>1, <1>2, <1>3, <1>4, <1>5 DEF Balanced, Counted

(* The tasks that were submitted are finitely many. *)
LEMMA SubmittedFinite ==
  ASSUME WorkspaceAssumption, NEW S, S \subseteq Jobs
  PROVE  IsFiniteSet(S) /\ Cardinality(S) \in Nat
<1>1. IsFiniteSet(1..JobCount)
  BY FS_Interval DEF WorkspaceAssumption
<1>2. IsFiniteSet(S)
  BY <1>1, FS_Subset DEF Jobs
<1> QED
  BY <1>2, FS_CardinalityType

LEMMA SubmissionCounts ==
  ASSUME WorkspaceAssumption, AnnounceInv, PageInv', NEW r \in DOMAIN net, ServeGenerate(r)
  PROVE  AnnounceInv'
<1>1. /\ IsBag(net) /\ RequestTyped(r, Created) /\ announced \in Nat /\ page.notify \in BOOLEAN
      /\ owner \in [Jobs -> Users \cup {NoUser}]
      /\ Counted(net) /\ Earlier \subseteq Created /\ Created \subseteq Jobs
      /\ announced + Flag(page) + Cardinality(Tokens(net)) <= Cardinality(Created \ Earlier)
  BY DEF AnnounceInv, PageInv, ServerTyped, NetTyped, PageTyped, Created
<1>2. page' = page /\ announced' = announced /\ r.kind = "generate" /\ r.stage = "sent"
  BY DEF ServeGenerate
<1>3. Weight(r) = 0
  BY <1>1, <1>2 DEF Weight, Announces, RequestTyped
<1>4. Flag(page) \in {0, 1} /\ Flag(page)' = Flag(page)
  BY <1>1, <1>2, FlagIs DEF Flag
<1>5. Counted(Finish(r)) /\ Cardinality(Tokens(Finish(r))) = Cardinality(Tokens(net))
  BY <1>1, <1>3, FinishCounts DEF Counted
<1>6. IsFiniteSet(Created \ Earlier) /\ Cardinality(Created \ Earlier) \in Nat
  BY <1>1, SubmittedFinite
<1>7. Jobs' = Jobs
  BY DEF Jobs
<1>8. CASE r.as # NoUser /\ Created # Jobs
  <2>1. PICK j \in Jobs \ Created :
          /\ owner' = [owner EXCEPT ![j] = r.as]
          /\ net' = IF r.then = "gone" THEN Finish(r) ELSE Post(Finish(r), [Answered(r) EXCEPT !.job = j])
    BY <1>8 DEF ServeGenerate
  <2>2. Created' = Created \cup {j}
    BY <1>1, <1>7, <1>8, <2>1 DEF Created
  <2>3. Created' \ Earlier = (Created \ Earlier) \cup {j} /\ j \notin Created \ Earlier /\ Earlier \subseteq Created'
    BY <1>1, <2>1, <2>2
  <2>4. Cardinality(Created' \ Earlier) = Cardinality(Created \ Earlier) + 1
    BY <1>6, <2>3, FS_AddElement
  <2>5. Counted(net') /\ Cardinality(Tokens(net')) <= Cardinality(Tokens(net)) + 1
    <3> DEFINE q == [Answered(r) EXCEPT !.job = j]
    <3>1. Weight(q) \in {0, 1}
      BY WeightIs
    <3> HIDE DEF q
    <3>2. /\ Counted(Post(Finish(r), q))
          /\ Cardinality(Tokens(Post(Finish(r), q))) = Cardinality(Tokens(net)) + Weight(q)
      BY <1>1, <1>3, SwapCounts DEF Counted
    <3>3. net' = Finish(r) \/ net' = Post(Finish(r), q)
      BY <2>1 DEF q
    <3> QED
      BY <1>1, <1>5, <3>1, <3>2, <3>3 DEF Counted
  <2>6. announced' + Flag(page)' + Cardinality(Tokens(net')) <= Cardinality(Created' \ Earlier)
    BY <1>1, <1>2, <1>4, <1>6, <2>4, <2>5 DEF Counted
  <2>7. Counted(net)' /\ Tokens(net)' = Tokens(net')
    BY <2>5 DEF Counted, Tokens, Announcing, Announces
  <2> QED
    BY <2>3, <2>6, <2>7 DEF AnnounceInv
<1>9. CASE ~(r.as # NoUser /\ Created # Jobs)
  <2>1. /\ owner' = owner
        /\ net' = Finish(r) \/ net' = Post(Finish(r), [r EXCEPT !.stage = "failed"])
    BY <1>9 DEF ServeGenerate
  <2>2. Created' = Created
    BY <1>7, <2>1 DEF Created
  <2>3. Counted(net') /\ Cardinality(Tokens(net')) <= Cardinality(Tokens(net))
    <3> DEFINE q == [r EXCEPT !.stage = "failed"]
    <3>1. Weight(q) \in {0, 1} /\ Weight(q) <= 0
      BY <1>1, <1>3, WeightIs, ChangedWeight
    <3> HIDE DEF q
    <3>2. /\ Counted(Post(Finish(r), q))
          /\ Cardinality(Tokens(Post(Finish(r), q))) = Cardinality(Tokens(net)) + Weight(q)
      BY <1>1, <1>3, SwapCounts DEF Counted
    <3>3. net' = Finish(r) \/ net' = Post(Finish(r), q)
      BY <2>1 DEF q
    <3> QED
      BY <1>1, <1>5, <3>1, <3>2, <3>3 DEF Counted
  <2>4. announced' + Flag(page)' + Cardinality(Tokens(net')) <= Cardinality(Created' \ Earlier)
    BY <1>1, <1>2, <1>4, <1>6, <2>2, <2>3 DEF Counted
  <2>5. Counted(net)' /\ Tokens(net)' = Tokens(net')
    BY <2>3 DEF Counted, Tokens, Announcing, Announces
  <2> QED
    BY <1>1, <2>2, <2>4, <2>5 DEF AnnounceInv
<1> QED
  BY <1>8, <1>9

LEMMA InitCounts == WorkspaceAssumption /\ Init => AnnounceInv
<1> SUFFICES ASSUME WorkspaceAssumption, Init PROVE AnnounceInv
  OBVIOUS
<1>1. PageInv
  BY InitTyped
<1>2. Earlier \subseteq Created
  BY DEF Init, Created, WorkspaceAssumption, Jobs
<1>3. announced = 0 /\ Flag(page) = 0
  <2>1. page.notify = FALSE
    BY DEF Init, FreshPage
  <2> QED
    BY <2>1 DEF Init, Flag
<1>4. Tokens(net) = {}
  <2>1. DOMAIN net = {Request("me", NoJob, "boot")}
    BY DEF Init, SetToBag
  <2>2. ~Announces(Request("me", NoJob, "boot"))
    BY RequestIs DEF Announces
  <2> QED
    BY <2>1, <2>2 DEF Tokens, Announcing
<1>5. Counted(net) /\ Cardinality(Tokens(net)) = 0
  BY <1>4, FS_EmptySet DEF Counted
<1>6. Cardinality(Created \ Earlier) \in Nat
  BY SubmittedFinite DEF Created
<1> QED
  BY <1>1, <1>2, <1>3, <1>5, <1>6 DEF AnnounceInv

LEMMA StepCounts == WorkspaceAssumption /\ AnnounceInv /\ [Next]_vars => AnnounceInv'
<1> SUFFICES ASSUME WorkspaceAssumption, AnnounceInv, [Next]_vars
             PROVE  AnnounceInv'
  OBVIOUS
<1>1. PageInv /\ PageInv' /\ Counted(net)
  BY StepTyped DEF AnnounceInv
<1>2. ASSUME Balanced, owner' = owner PROVE AnnounceInv'
  <2>1. Created' = Created
    BY <1>2 DEF Created, Jobs
  <2>2. Counted(net)' /\ Tokens(net)' = Tokens(net') /\ Flag(page)' = Flag(page')
    BY <1>2 DEF Balanced, Counted, Tokens, Announcing, Announces, Flag
  <2>3. Cardinality(Created \ Earlier) \in Nat
    BY SubmittedFinite DEF Created
  <2>4. /\ announced \in Nat /\ announced' \in Nat /\ Flag(page) \in {0, 1} /\ Flag(page') \in {0, 1}
        /\ Cardinality(Tokens(net)) \in Nat /\ Cardinality(Tokens(net')) \in Nat
    <3>1. page.notify \in BOOLEAN /\ page'.notify \in BOOLEAN
      BY <1>1 DEF PageInv, PageTyped
    <3> QED
      BY <1>1, <1>2, <3>1, FlagIs DEF PageInv, ServerTyped, Balanced, Counted
  <2> QED
    BY <1>1, <1>2, <2>1, <2>2, <2>3, <2>4 DEF AnnounceInv, Balanced
<1>3. CASE UNCHANGED vars \/ \E j \in Jobs : Progress(j)
  <2>1. page' = page /\ net' = net /\ announced' = announced /\ owner' = owner
    BY <1>3 DEF vars, server, Progress
  <2>2. announced + Flag(page) + Cardinality(Tokens(net)) <= announced + Flag(page) + Cardinality(Tokens(net))
    <3>1. page.notify \in BOOLEAN /\ announced \in Nat
      BY <1>1 DEF PageInv, ServerTyped, PageTyped
    <3> QED
      BY <1>1, <3>1, FlagIs DEF Counted
  <2> QED
    BY <1>1, <1>2, <2>1, <2>2 DEF Balanced
<1>4. CASE \E r \in UnderWay : Serve(r) \/ Lose(r) \/ RefreshTimesOut(r)
  <2>1. PICK r \in DOMAIN net : Serve(r) \/ Lose(r) \/ RefreshTimesOut(r)
    BY <1>4, UnderWayIs
  <2>2. owner' = owner
    BY <2>1 DEF Serve, Lose, RefreshTimesOut, server
  <2> QED
    BY <1>1, <1>2, <2>1, <2>2, ServesCount
<1>5. CASE \E r \in UnderWay : ServeGenerate(r)
  BY <1>1, <1>5, SubmissionCounts, UnderWayIs
<1>6. CASE \E r \in UnderWay : Deliver(r)
  <2>1. PICK r \in DOMAIN net : Deliver(r)
    BY <1>6, UnderWayIs
  <2>2. owner' = owner
    BY <2>1 DEF Deliver, server
  <2> QED
    BY <1>1, <1>2, <2>1, <2>2, DeliverCounts
<1>7. CASE \/ TimerFires
           \/ \E j \in Jobs : SelectJob(j)
           \/ SubmitPrompt \/ HistoryTab \/ RefreshJobsButton \/ RefreshAccount
           \/ \E u \in Users : Login(u)
           \/ Logout \/ Reload
  <2>1. owner' = owner
    BY <1>7 DEF TimerFires, SelectJob, SubmitPrompt, HistoryTab, RefreshJobsButton, RefreshAccount, Login,
                Logout, Reload, Click, server
  <2> QED
    BY <1>1, <1>2, <1>7, <2>1, ActsCount
<1> QED
  BY <1>3, <1>4, <1>5, <1>6, <1>7 DEF Next, ServeAny, DeliverAny

(* The page, its requests and the server are what the handlers take them    *)
(* for, whatever overlaps.                                                  *)
LEMMA TypeImplied == PageInv => TypeOK
<1> SUFFICES ASSUME PageInv PROVE TypeOK
  OBVIOUS
<1>1. Created \subseteq Jobs
  BY DEF Created
<1>2. /\ DOMAIN page = DOMAIN FreshPage(NoJob)
      /\ page.user \in Users \cup {NoUser}
      /\ DOMAIN page.jobs \subseteq Jobs /\ \A j \in DOMAIN page.jobs : page.jobs[j] \in Statuses
      /\ page.active \in Jobs \cup {NoJob} /\ page.remembered \in Jobs \cup {NoJob}
      /\ page.timers \subseteq Nat /\ page.pollTimer \in Nat
      /\ page.attempt \in 0..Patience
      /\ page.card = NoCard \/ (page.card.job \in Jobs /\ page.card.status \in Statuses)
  BY <1>1 DEF PageInv, PageTyped, TimerKnown, PageFields, IsList
<1>3. page.notify \in BOOLEAN
  BY DEF PageInv, PageTyped
<1>4. \A r \in UnderWay :
        /\ r.kind \in Kinds
        /\ r.kind = "poll" => r.job \in Created /\ (r.stage = "answered" => r.job \in DOMAIN r.list)
  BY UnderWayIs DEF PageInv, NetTyped, RequestTyped
<1> QED
  BY <1>2, <1>3, <1>4 DEF TypeOK, PageInv, ServerTyped

(* The page, the requests under way and the server keep their types: cards  *)
(* and the list of the page name only tasks that the server created, and a  *)
(* request polls only such a task.                                          *)
THEOREM WorkspaceTypeCorrect ==
  ASSUME WorkspaceAssumption PROVE Spec => []TypeOK
<1>1. Init => PageInv
  BY InitTyped
<1>2. PageInv /\ [Next]_vars => PageInv'
  BY StepTyped
<1> QED
  BY <1>1, <1>2, TypeImplied, PTL DEF Spec

(* No more completions are announced than tasks were submitted.             *)
THEOREM ToastsAlwaysCovered ==
  ASSUME WorkspaceAssumption PROVE Spec => []ToastsAreCovered
<1>1. AnnounceInv => ToastsAreCovered
  <2> SUFFICES ASSUME AnnounceInv PROVE ToastsAreCovered
    OBVIOUS
  <2>1. page.notify \in BOOLEAN /\ announced \in Nat
    BY DEF AnnounceInv, PageInv, ServerTyped, PageTyped
  <2>2. Flag(page) \in {0, 1} /\ Cardinality(Tokens(net)) \in Nat
    BY <2>1, FlagIs DEF AnnounceInv, Counted
  <2>3. Cardinality(Created \ Earlier) \in Nat
    BY SubmittedFinite DEF Created
  <2> QED
    BY <2>1, <2>2, <2>3 DEF AnnounceInv, ToastsAreCovered
<1>2. Init => AnnounceInv
  BY InitCounts
<1>3. AnnounceInv /\ [Next]_vars => AnnounceInv'
  BY StepCounts
<1> QED
  BY <1>1, <1>2, <1>3, PTL DEF Spec

-----------------------------------------------------------------------------
(* The polling of a session.  While nothing fails and nobody signs in or    *)
(* out, everything the page holds and asks for is of the account of the     *)
(* cookie, no answer is an error, and whenever a job is waited for there is *)
(* a timer or a poll.                                                       *)

Undisturbed == MaxErrors = 0 /\ Gestures \cap {"login", "logout"} = {}

Own == {j \in Jobs : cookie # NoUser /\ owner[j] = cookie}

SessionRequest(r, c, u) ==
  /\ r.as = c
  /\ r.kind \notin {"login", "logout"}
  /\ r.stage \in {"sent", "answered", "failed"}
  /\ r.stage = "failed" => r.kind = "generate"
  /\ r.then = "gone" => r.kind = "generate" /\ r.stage = "sent"
  /\ r.kind \in {"jobs", "poll", "gateways"} => u # NoUser
  /\ r.kind = "generate" /\ r.then # "gone" => u # NoUser

SessionNet(n, c, u) == \A r \in DOMAIN n : SessionRequest(r, c, u)

Asks(n) == \E r \in DOMAIN n : r.kind = "poll"

(* A page of the account c that polls for the job it waits for *)
SessionPage(p, n, c) ==
  /\ p.user \in {NoUser, c}
  /\ p.user = NoUser => p.active = NoJob /\ DOMAIN p.jobs = {}
  /\ p.active # NoJob => p.timers # {} \/ Asks(n)

SessionInv ==
  /\ PageInv
  /\ PageTyped(page, Own) /\ NetTyped(net, Own)
  /\ SessionPage(page, net, cookie)
  /\ SessionNet(net, cookie, page.user)

LEMMA PostSession ==
  ASSUME NEW n, IsBag(n), NEW c, NEW u, SessionNet(n, c, u), NEW r, SessionRequest(r, c, u)
  PROVE  SessionNet(Post(n, r), c, u) /\ DOMAIN n \subseteq DOMAIN Post(n, r) /\ r \in DOMAIN Post(n, r)
<1>1. DOMAIN Post(n, r) = DOMAIN n \cup {r}
  BY PostIs
<1> QED
  BY <1>1 DEF SessionNet

LEMMA FinishSession ==
  ASSUME IsBag(net), NEW c, NEW u, SessionNet(net, c, u), NEW r \in DOMAIN net
  PROVE  /\ SessionNet(Finish(r), c, u) /\ IsBag(Finish(r))
         /\ DOMAIN net \ {r} \subseteq DOMAIN Finish(r)
<1>1. DOMAIN Finish(r) = DOMAIN net \/ DOMAIN Finish(r) = DOMAIN net \ {r}
  BY FinishIs
<1>2. IsBag(Finish(r))
  BY FinishIs
<1> QED
  BY <1>1, <1>2 DEF SessionNet

(* A page that is sent for, and the polls that are under way *)
LEMMA SentSession ==
  ASSUME NEW kind \in Kinds \ {"login", "logout"}, NEW job, NEW then, then # "gone" \/ kind = "generate",
         NEW u, kind \in {"jobs", "poll", "gateways", "generate"} => u # NoUser
  PROVE  SessionRequest(Request(kind, job, then), cookie, u)
<1> DEFINE q == Request(kind, job, then)
<1>1. q.kind = kind /\ q.then = then /\ q.as = cookie /\ q.stage = "sent"
  BY RequestIs
<1> HIDE DEF q
<1>2. SessionRequest(q, cookie, u)
  BY <1>1 DEF SessionRequest
<1> QED
  BY <1>2 DEF q

LEMMA PollActiveSession ==
  ASSUME NEW n, IsBag(n), NEW p, SessionNet(n, cookie, p.user)
  PROVE  /\ SessionNet(PollActiveJob(n, p), cookie, p.user)
         /\ DOMAIN n \subseteq DOMAIN PollActiveJob(n, p)
         /\ p.active # NoJob /\ p.user # NoUser => Asks(PollActiveJob(n, p))
<1>1. CASE p.active = NoJob \/ p.user = NoUser
  BY <1>1 DEF PollActiveJob
<1>2. CASE ~(p.active = NoJob \/ p.user = NoUser)
  <2> DEFINE q == Request("poll", p.active, "poll")
  <2>1. SessionRequest(q, cookie, p.user)
    BY <1>2, SentSession DEF Kinds
  <2>2. q.kind = "poll"
    BY RequestIs
  <2>3. PollActiveJob(n, p) = Post(n, q)
    BY <1>2 DEF PollActiveJob
  <2> HIDE DEF q
  <2>4. SessionNet(Post(n, q), cookie, p.user) /\ DOMAIN n \subseteq DOMAIN Post(n, q) /\ q \in DOMAIN Post(n, q)
    BY <2>1, PostSession
  <2> QED
    BY <2>2, <2>3, <2>4 DEF Asks
<1> QED
  BY <1>1, <1>2

LEMMA RefreshJobsSession ==
  ASSUME NEW n, IsBag(n), NEW p, SessionNet(n, cookie, p.user), NEW then, then # "gone"
  PROVE  SessionNet(RefreshJobs(n, p, then), cookie, p.user) /\ DOMAIN n \subseteq DOMAIN RefreshJobs(n, p, then)
<1>1. CASE p.user = NoUser
  BY <1>1 DEF RefreshJobs
<1>2. CASE p.user # NoUser
  <2>1. SessionRequest(Request("jobs", NoJob, then), cookie, p.user)
    BY <1>2, SentSession DEF Kinds
  <2> QED
    BY <1>2, <2>1, PostSession DEF RefreshJobs
<1> QED
  BY <1>1, <1>2

(* What holds after a step of the page of a session *)
Session == SessionPage(page', net', cookie) /\ SessionNet(net', cookie, page'.user)

LEMMA DeliverSession ==
  ASSUME WorkspaceAssumption, SessionInv, NEW r \in DOMAIN net, Deliver(r)
  PROVE  Session /\ cookie' = cookie
<1>1. /\ IsBag(net) /\ PageTyped(page, Own) /\ Own \subseteq Jobs
      /\ RequestTyped(r, Own) /\ SessionRequest(r, cookie, page.user) /\ r.stage # "sent"
      /\ SessionNet(net, cookie, page.user) /\ SessionPage(page, net, cookie)
  BY DEF SessionInv, NetTyped, SessionNet, Own, Deliver
<1>2. /\ SessionNet(Finish(r), cookie, page.user) /\ IsBag(Finish(r))
      /\ DOMAIN net \ {r} \subseteq DOMAIN Finish(r)
  BY <1>1, FinishSession
<1>3. r.kind # "poll" /\ Asks(net) => Asks(Finish(r))
  BY <1>2 DEF Asks
<1>4. NoJob \notin Own
  BY DEF Own, Jobs, NoJob
<1>5. /\ r.as = cookie /\ r.then # "gone"
      /\ r.stage = "answered" \/ r.kind = "generate"
      /\ r.kind \in {"jobs", "poll", "gateways", "generate"} => page.user # NoUser
  BY <1>1 DEF SessionRequest
(* If no poll is taken away, a page like the one before still polls. *)
<1>6. ASSUME r.kind # "poll", Alike(page, page'), DOMAIN page'.jobs = DOMAIN page.jobs \/ page.user # NoUser,
             DOMAIN Finish(r) \subseteq DOMAIN net', SessionNet(net', cookie, page.user)
      PROVE  Session
  <2>1. Asks(net) => Asks(net')
    BY <1>3, <1>6 DEF Asks
  <2> QED
    BY <1>1, <1>6, <2>1 DEF Session, SessionPage, Alike
(* A page that waits for no job *)
<1>7. ASSUME page'.active = NoJob, page'.user \in {NoUser, cookie}, SessionNet(net', cookie, page'.user),
             page'.user = NoUser => DOMAIN page'.jobs = {}
      PROVE  Session
  BY <1>7 DEF Session, SessionPage
<1>8. CASE DeliverMe(r)
  <2>1. CASE cookie # NoUser
    <3>1. page' = [page EXCEPT !.user = cookie] /\ net' = Post(Finish(r), Request("gateways", NoJob, r.then))
      BY <1>5, <1>8, <2>1 DEF DeliverMe
    <3>2. SessionRequest(Request("gateways", NoJob, r.then), cookie, cookie)
      BY <1>5, <2>1, SentSession DEF Kinds
    <3>3. SessionNet(Finish(r), cookie, cookie)
      BY <1>2, <2>1 DEF SessionNet, SessionRequest
    <3>4. SessionNet(net', cookie, cookie) /\ DOMAIN Finish(r) \subseteq DOMAIN net'
      BY <1>2, <3>1, <3>2, <3>3, PostSession
    <3>5. page'.user = cookie /\ page'.active = page.active /\ page'.timers = page.timers
      BY <1>1, <3>1, Fields DEF PageTyped, TimerKnown
    <3>6. Asks(net) => Asks(net')
      BY <1>3, <1>8, <3>4 DEF Asks, DeliverMe
    <3>7. SessionPage(page', net', cookie)
      BY <1>1, <2>1, <3>5, <3>6 DEF SessionPage
    <3> QED
      BY <1>8, <3>4, <3>5, <3>7 DEF Session, DeliverMe
  <2>2. CASE cookie = NoUser
    <3>1. page' = SignOut(page) /\ net' = Finish(r)
      BY <1>5, <1>8, <2>2 DEF DeliverMe
    <3>2. page'.user = NoUser /\ DOMAIN page'.jobs = {} /\ page'.active = NoJob
      BY <1>1, <3>1, SignOutTyped
    <3>3. page.user = NoUser
      BY <1>1, <2>2 DEF SessionPage
    <3> QED
      BY <1>2, <1>7, <1>8, <3>1, <3>2, <3>3 DEF DeliverMe
  <2> QED
    BY <2>1, <2>2
<1>9. CASE DeliverGateways(r)
  <2>1. page.user # NoUser
    BY <1>5, <1>9 DEF DeliverGateways
  <2>2. page' = page /\ (net' = Finish(r) \/ net' = RefreshJobs(Finish(r), page, "hydrate"))
    BY <1>9, <2>1 DEF DeliverGateways
  <2>3. SessionNet(net', cookie, page.user) /\ DOMAIN Finish(r) \subseteq DOMAIN net'
    BY <1>2, <2>2, RefreshJobsSession
  <2>4. r.kind # "poll" /\ Alike(page, page') /\ cookie' = cookie
    BY <1>9, <2>2 DEF Alike, DeliverGateways
  <2> QED
    BY <1>6, <2>2, <2>3, <2>4
<1>10. CASE DeliverJobs(r)
  <2> DEFINE p == RenderJobs(page, r.list)
  <2>1. r.kind = "jobs" /\ r.stage = "answered" /\ page.user # NoUser /\ cookie' = cookie
    BY <1>5, <1>10 DEF DeliverJobs
  <2>2. /\ page' = AfterRefresh(r, p)
        /\ net' = IF PollsAfterRefresh(r, p) THEN PollActiveJob(Finish(r), page') ELSE Finish(r)
    BY <1>10, <2>1 DEF DeliverJobs
  <2>3. PageTyped(p, Own) /\ Alike(page, p)
    BY <1>1, <2>1, JobsTyped DEF RequestTyped
  <2> HIDE DEF p
  <2>4. /\ PageTyped(page', Own) /\ page'.user = p.user
        /\ PollsAfterRefresh(r, p) => page'.active \in Own
        /\ ~PollsAfterRefresh(r, p) => page'.active = NoJob \/ Alike(p, page')
    BY <1>1, <2>1, <2>2, <2>3, RefreshTyped
  <2>5. page'.user = page.user
    BY <2>3, <2>4 DEF Alike
  <2>6. CASE PollsAfterRefresh(r, p)
    <3>1. net' = PollActiveJob(Finish(r), page')
      BY <2>2, <2>6
    <3>2. SessionNet(net', cookie, page'.user) /\ (page'.active # NoJob /\ page'.user # NoUser => Asks(net'))
      BY <1>2, <2>5, <3>1, PollActiveSession
    <3>3. Asks(net')
      BY <1>4, <2>1, <2>4, <2>5, <2>6, <3>2
    <3> QED
      BY <1>1, <2>1, <2>5, <3>2, <3>3 DEF Session, SessionPage
  <2>7. CASE ~PollsAfterRefresh(r, p)
    <3>1. net' = Finish(r)
      BY <2>2, <2>7
    <3>2. CASE page'.active = NoJob
      BY <1>1, <1>2, <1>7, <2>1, <2>5, <3>1, <3>2 DEF SessionPage
    <3>3. CASE Alike(p, page')
      <4>1. Alike(page, page')
        BY <2>3, <3>3 DEF Alike
      <4> QED
        BY <1>2, <1>6, <2>1, <3>1, <4>1
    <3> QED
      BY <2>4, <2>7, <3>2, <3>3
  <2> QED
    BY <2>6, <2>7
<1>11. CASE DeliverPoll(r)
  <2>1. /\ r.kind = "poll" /\ r.stage = "answered" /\ r.job \in Own /\ r.list[r.job] \in Statuses
        /\ page.user # NoUser /\ cookie' = cookie
    BY <1>1, <1>5, <1>11 DEF DeliverPoll, RequestTyped
  <2> DEFINE shown == ShowPolled(page, r.job, r.list[r.job])
  <2>2. PageTyped(shown, Own) /\ Alike(page, shown)
    BY <1>1, <2>1, PolledTyped
  <2>3. CASE PollPending(r)
    <3> DEFINE q == [shown EXCEPT !.attempt = AtMost(@ + 1, Patience)]
    <3>1. page' = ScheduleJobPoll(q) /\ net' = Finish(r)
      BY <2>3 DEF PollPending
    <3> HIDE DEF shown
    <3>2. q.user = shown.user /\ q.active = shown.active /\ q.timers = shown.timers /\ DOMAIN q = PageFields
      BY <2>2, Fields DEF PageTyped, TimerKnown
    <3> HIDE DEF q
    <3>3. page'.user = q.user /\ page'.active = q.active /\ (q.active # NoJob => page'.timers # {})
      BY <3>1, <3>2, Fields DEF ScheduleJobPoll
    <3>4. page'.user = page.user
      BY <2>2, <3>2, <3>3 DEF Alike
    <3>5. SessionPage(page', net', cookie)
      BY <1>1, <2>1, <3>3, <3>4 DEF SessionPage
    <3> QED
      BY <1>2, <2>1, <3>1, <3>4, <3>5 DEF Session
  <2>4. CASE PollFinished(r)
    <3> DEFINE stopped == RememberActiveJob(StopJobPolling(shown), NoJob)
               req == [Request("jobs", r.job, "settled")
                         EXCEPT !.final = r.list[r.job], !.notify = page.notify]
    <3>1. page' = stopped /\ net' = Post(Finish(r), req)
      BY <2>1, <2>4 DEF PollFinished
    <3> HIDE DEF shown
    <3>2. stopped.active = NoJob /\ stopped.user = shown.user
      BY <1>1, <2>2, StopTyped
    <3>3. req.kind = "jobs" /\ req.as = cookie /\ req.stage = "sent" /\ req.then = "settled"
      <4> DEFINE o == Request("jobs", r.job, "settled")
      <4>1. o.kind = "jobs" /\ o.as = cookie /\ o.stage = "sent" /\ o.then = "settled"
            /\ DOMAIN o = RequestFields
        BY RequestIs
      <4>2. req = [o EXCEPT !.final = r.list[r.job], !.notify = page.notify]
        OBVIOUS
      <4> HIDE DEF o, req
      <4> QED
        BY <4>1, <4>2 DEF RequestFields
    <3> HIDE DEF stopped, req
    <3>4. page'.user = page.user
      BY <2>2, <3>1, <3>2 DEF Alike
    <3>5. SessionRequest(req, cookie, page.user)
      BY <2>1, <3>3 DEF SessionRequest
    <3>6. SessionNet(net', cookie, page'.user)
      BY <1>2, <3>1, <3>4, <3>5, PostSession
    <3>7. page'.user \in {NoUser, cookie} /\ page'.user # NoUser
      BY <1>1, <2>1, <3>4 DEF SessionPage
    <3> QED
      BY <1>7, <2>1, <3>1, <3>2, <3>6, <3>7
  <2>5. ~PollFailed(r)
    BY <2>1 DEF PollFailed
  <2> QED
    BY <1>11, <2>3, <2>4, <2>5 DEF DeliverPoll
<1>12. CASE DeliverGenerate(r)
  <2>1. r.kind = "generate" /\ page.user # NoUser /\ cookie' = cookie
    BY <1>5, <1>12 DEF DeliverGenerate
  <2>2. CASE r.stage = "answered"
    <3> DEFINE shown == ShowPolled(page, r.job, "running")
    <3>1. r.job \in Own /\ "running" \in Statuses
      BY <1>1, <2>1, <2>2 DEF RequestTyped, Statuses
    <3>2. PageTyped(shown, Own) /\ Alike(page, shown)
      BY <1>1, <3>1, PolledTyped
    <3>3. page' = StartJobPolling(shown, r.job, TRUE) /\ net' = PollActiveJob(Finish(r), page')
      BY <1>12, <2>2 DEF DeliverGenerate
    <3> HIDE DEF shown
    <3>4. page'.user = shown.user /\ page'.active = r.job
      BY <3>2, <3>3, Fields DEF PageTyped, TimerKnown, StartJobPolling, RememberActiveJob
    <3>5. page'.user = page.user
      BY <3>2, <3>4 DEF Alike
    <3>6. SessionNet(net', cookie, page'.user) /\ (page'.active # NoJob /\ page'.user # NoUser => Asks(net'))
      BY <1>2, <3>3, <3>5, PollActiveSession
    <3>7. Asks(net')
      BY <1>4, <2>1, <3>1, <3>4, <3>5, <3>6
    <3> QED
      BY <1>1, <2>1, <3>5, <3>6, <3>7 DEF Session, SessionPage
  <2>3. CASE r.stage # "answered"
    <3>1. page' = page /\ net' = Finish(r)
      BY <1>12, <2>3 DEF DeliverGenerate
    <3>2. Alike(page, page')
      BY <3>1 DEF Alike
    <3> QED
      BY <1>2, <1>6, <2>1, <3>1, <3>2
  <2> QED
    BY <2>2, <2>3
<1>13. ~DeliverLogin(r) /\ ~DeliverLogout(r)
  BY <1>1 DEF SessionRequest, DeliverLogin, DeliverLogout
<1> QED
  BY <1>8, <1>9, <1>10, <1>11, <1>12, <1>13 DEF Deliver

LEMMA ActsSession ==
  ASSUME WorkspaceAssumption, Undisturbed, SessionInv,
         \/ TimerFires
         \/ \E j \in Jobs : SelectJob(j)
         \/ SubmitPrompt \/ HistoryTab \/ RefreshJobsButton \/ RefreshAccount
         \/ \E u \in Users : Login(u)
         \/ Logout \/ Reload
  PROVE  Session /\ cookie' = cookie
<1>1. /\ IsBag(net) /\ PageTyped(page, Own) /\ NetTyped(net, Own) /\ Own \subseteq Jobs
      /\ cookie \in Users \cup {NoUser}
      /\ SessionNet(net, cookie, page.user) /\ SessionPage(page, net, cookie)
  BY DEF SessionInv, PageInv, ServerTyped, NetTyped, Own
<1>2. NoJob \notin Own
  BY DEF Own, Jobs, NoJob
(* The page as it was, with more requests under way *)
<1>3. ASSUME Alike(page, page'), DOMAIN page'.jobs = {} \/ DOMAIN page'.jobs = DOMAIN page.jobs,
             DOMAIN net \subseteq DOMAIN net', SessionNet(net', cookie, page.user)
      PROVE  Session
  <2>1. Asks(net) => Asks(net')
    BY <1>3 DEF Asks
  <2> QED
    BY <1>1, <1>3, <2>1 DEF Session, SessionPage, Alike
<1>4. ASSUME NEW kind \in Kinds \ {"login", "logout"}, NEW job, NEW then,
             then # "gone", kind \in {"jobs", "poll", "gateways", "generate"} => page.user # NoUser,
             net' = Post(net, Request(kind, job, then))
      PROVE  DOMAIN net \subseteq DOMAIN net' /\ SessionNet(net', cookie, page.user)
  <2>1. SessionRequest(Request(kind, job, then), cookie, page.user)
    BY <1>4, SentSession
  <2> QED
    BY <1>1, <1>4, <2>1, PostSession
<1>5. ASSUME page' = page PROVE Alike(page, page') /\ DOMAIN page'.jobs = DOMAIN page.jobs
  BY <1>5 DEF Alike
<1>6. CASE TimerFires
  <2>1. PICK t \in page.timers : page' = [page EXCEPT !.timers = @ \ {t}] /\ net' = PollActiveJob(net, page')
    BY <1>6 DEF TimerFires
  <2>2. page'.user = page.user /\ page'.active = page.active /\ page'.jobs = page.jobs
    BY <1>1, <2>1, Fields DEF PageTyped, TimerKnown
  <2>3. /\ SessionNet(net', cookie, page'.user)
        /\ page'.active # NoJob /\ page'.user # NoUser => Asks(net')
    BY <1>1, <2>1, <2>2, PollActiveSession
  <2>4. SessionPage(page', net', cookie)
    BY <1>1, <2>2, <2>3 DEF SessionPage
  <2> QED
    BY <1>6, <2>3, <2>4 DEF Session, TimerFires
<1>7. CASE \E j \in Jobs : SelectJob(j)
  <2>1. PICK j \in Jobs : SelectJob(j)
    BY <1>7
  <2> DEFINE shown == RenderResultCard(page, j, page.jobs[j])
  <2>2. /\ j \in Own /\ page.jobs[j] \in Statuses /\ DOMAIN page.jobs # {} /\ cookie' = cookie
    BY <1>1, <2>1 DEF SelectJob, PageTyped, IsList
  <2>3. \/ page' = StartJobPolling(shown, j, FALSE) /\ net' = PollActiveJob(net, page')
        \/ page' = shown /\ net' = net
    BY <2>1 DEF SelectJob
  <2>4. page.user # NoUser
    BY <1>1, <2>2 DEF SessionPage
  <2>5. PageTyped(shown, Own) /\ Alike(page, shown) /\ shown.jobs = page.jobs
    BY <1>1, <2>2, CardTyped
  <2> HIDE DEF shown
  <2>6. CASE page' = StartJobPolling(shown, j, FALSE) /\ net' = PollActiveJob(net, page')
    <3>1. page'.user = shown.user /\ page'.active = j
      BY <2>5, <2>6, Fields DEF PageTyped, TimerKnown, StartJobPolling, RememberActiveJob
    <3>2. page'.user = page.user
      BY <2>5, <3>1 DEF Alike
    <3>3. /\ SessionNet(net', cookie, page'.user)
          /\ page'.active # NoJob /\ page'.user # NoUser => Asks(net')
      BY <1>1, <2>6, <3>2, PollActiveSession
    <3>4. Asks(net')
      BY <1>2, <2>2, <2>4, <3>1, <3>2, <3>3
    <3> QED
      BY <1>1, <2>2, <2>4, <3>2, <3>3, <3>4 DEF Session, SessionPage
  <2>7. CASE page' = shown /\ net' = net
    BY <1>1, <1>3, <2>2, <2>5, <2>7
  <2> QED
    BY <2>3, <2>6, <2>7
<1>8. CASE SubmitPrompt
  BY <1>3, <1>4, <1>5, <1>8 DEF SubmitPrompt, SignedIn, Kinds
<1>9. CASE HistoryTab
  <2>1. DOMAIN net \subseteq DOMAIN net' /\ SessionNet(net', cookie, page.user)
    BY <1>1, <1>9, RefreshJobsSession DEF HistoryTab
  <2> QED
    BY <1>3, <1>5, <1>9, <2>1 DEF HistoryTab
<1>10. CASE RefreshJobsButton
  <2>1. DOMAIN net \subseteq DOMAIN net' /\ SessionNet(net', cookie, page.user)
    BY <1>1, <1>10, RefreshJobsSession DEF RefreshJobsButton
  <2>2. page' = page \/ page' = RenderJobs(page, NoList)
    BY <1>10 DEF RefreshJobsButton
  <2>3. Alike(page, RenderJobs(page, NoList)) /\ DOMAIN RenderJobs(page, NoList).jobs = {}
    BY <1>1, JobsTyped, NoListTyped
  <2>4. Alike(page, page') /\ (DOMAIN page'.jobs = {} \/ DOMAIN page'.jobs = DOMAIN page.jobs)
    BY <1>5, <2>2, <2>3
  <2> QED
    BY <1>3, <1>10, <2>1, <2>4 DEF RefreshJobsButton
<1>11. CASE RefreshAccount
  BY <1>3, <1>4, <1>5, <1>11 DEF RefreshAccount, Kinds
<1>12. CASE Reload
  <2>1. page' = FreshPage(page.remembered) /\ cookie' = cookie
    BY <1>12 DEF Reload
  <2>2. page'.user = NoUser /\ page'.active = NoJob /\ DOMAIN page'.jobs = {}
    <3>1. page.remembered \in Own \cup {NoJob}
      BY <1>1 DEF PageTyped
    <3> QED
      BY <2>1, <3>1, FreshTyped
  <2>3. ASSUME NEW q \in DOMAIN net' PROVE SessionRequest(q, cookie, NoUser)
    <3>1. CASE q = Request("me", NoJob, "boot")
      <4>1. SessionRequest(Request("me", NoJob, "boot"), cookie, NoUser)
        BY SentSession DEF Kinds
      <4> QED
        BY <3>1, <4>1
    <3>2. CASE \E r \in DOMAIN net : r.kind = "generate" /\ r.stage = "sent" /\ q = [r EXCEPT !.then = "gone"]
      <4>1. PICK r \in DOMAIN net : r.kind = "generate" /\ r.stage = "sent" /\ q = [r EXCEPT !.then = "gone"]
        BY <3>2
      <4>2. DOMAIN r = RequestFields /\ r.as = cookie
        BY <1>1, <4>1 DEF NetTyped, RequestTyped, SessionNet, SessionRequest
      <4>3. q.kind = "generate" /\ q.stage = "sent" /\ q.then = "gone" /\ q.as = cookie
        BY <4>1, <4>2 DEF RequestFields
      <4> QED
        BY <4>3 DEF SessionRequest
    <3> QED
      BY <1>1, <1>12, <3>1, <3>2, ReloadNet
  <2> QED
    BY <2>1, <2>2, <2>3 DEF Session, SessionPage, SessionNet
<1>13. CASE (\E u \in Users : Login(u)) \/ Logout
  BY <1>13 DEF Login, Logout, Click, Undisturbed
<1> QED
  BY <1>6, <1>7, <1>8, <1>9, <1>10, <1>11, <1>12, <1>13

(* The server answers every request of a session. *)
LEMMA ServesSession ==
  ASSUME WorkspaceAssumption, Undisturbed, SessionInv, NEW r \in DOMAIN net,
         Serve(r) \/ ServeGenerate(r) \/ Lose(r) \/ RefreshTimesOut(r)
  PROVE  Session /\ cookie' = cookie
<1>1. /\ IsBag(net) /\ PageTyped(page, Own) /\ errors \in 0..MaxErrors
      /\ RequestTyped(r, Own) /\ SessionRequest(r, cookie, page.user)
      /\ SessionNet(net, cookie, page.user) /\ SessionPage(page, net, cookie)
  BY DEF SessionInv, PageInv, ServerTyped, NetTyped, SessionNet
<1>2. /\ SessionNet(Finish(r), cookie, page.user) /\ IsBag(Finish(r))
      /\ DOMAIN net \ {r} \subseteq DOMAIN Finish(r)
  BY <1>1, FinishSession
<1>3. page' = page /\ cookie' = cookie
  BY DEF Serve, ServeGenerate, Lose, RefreshTimesOut
<1>4. ASSUME SessionNet(net', cookie, page.user), Asks(net) => Asks(net')
      PROVE  Session
  BY <1>1, <1>3, <1>4 DEF Session, SessionPage
<1>5. ASSUME NEW q, net' = Post(Finish(r), q), SessionRequest(q, cookie, page.user), q.kind = r.kind
      PROVE  Session
  <2>1. SessionNet(net', cookie, page.user) /\ DOMAIN Finish(r) \subseteq DOMAIN net' /\ q \in DOMAIN net'
    BY <1>2, <1>5, PostSession
  <2>2. Asks(net) => Asks(net')
    BY <1>2, <1>5, <2>1 DEF Asks
  <2> QED
    BY <1>4, <2>1, <2>2
<1>6. CASE Serve(r)
  <2> DEFINE q == [Answered(r) EXCEPT !.list = ReplyTo(r)]
  <2>1. Allowed(r)
    BY <1>1 DEF Allowed, SessionRequest, SessionPage, RequestTyped, Own
  <2>2. net' = Post(Finish(r), q) /\ r.kind # "generate"
    BY <1>6, <2>1 DEF Serve
  <2>3. q.kind = r.kind /\ q.as = r.as /\ q.stage = "answered" /\ q.then = r.then
    BY <1>1 DEF RequestTyped, RequestFields, Answered
  <2> HIDE DEF q
  <2>4. SessionRequest(q, cookie, page.user)
    BY <1>1, <2>2, <2>3 DEF SessionRequest
  <2> QED
    BY <1>3, <1>5, <2>2, <2>3, <2>4
<1>7. CASE ServeGenerate(r)
  <2>1. r.kind = "generate"
    BY <1>7 DEF ServeGenerate
  <2>2. CASE net' = Finish(r)
    <3>1. Asks(net) => Asks(net')
      BY <1>2, <2>1, <2>2 DEF Asks
    <3> QED
      BY <1>2, <1>3, <1>4, <2>2, <3>1
  <2>3. CASE r.then # "gone" /\ \E j \in Jobs : net' = Post(Finish(r), [Answered(r) EXCEPT !.job = j])
    <3>1. PICK j \in Jobs : net' = Post(Finish(r), [Answered(r) EXCEPT !.job = j])
      BY <2>3
    <3> DEFINE q == [Answered(r) EXCEPT !.job = j]
    <3>2. q.kind = r.kind /\ q.as = r.as /\ q.stage = "answered" /\ q.then = r.then
      BY <1>1 DEF RequestTyped, RequestFields, Answered
    <3> HIDE DEF q
    <3>3. SessionRequest(q, cookie, page.user)
      BY <1>1, <2>1, <2>3, <3>2 DEF SessionRequest
    <3> QED
      BY <1>3, <1>5, <3>1, <3>2, <3>3 DEF q
  <2>4. CASE r.then # "gone" /\ net' = Post(Finish(r), [r EXCEPT !.stage = "failed"])
    <3> DEFINE q == [r EXCEPT !.stage = "failed"]
    <3>1. q.kind = r.kind /\ q.as = r.as /\ q.stage = "failed" /\ q.then = r.then
      BY <1>1 DEF RequestTyped, RequestFields
    <3> HIDE DEF q
    <3>2. SessionRequest(q, cookie, page.user)
      BY <1>1, <2>1, <2>4, <3>1 DEF SessionRequest
    <3> QED
      BY <1>3, <1>5, <2>4, <3>1, <3>2 DEF q
  <2> QED
    BY <1>7, <2>2, <2>3, <2>4 DEF ServeGenerate
<1>8. CASE RefreshTimesOut(r)
  <2> DEFINE q == [r EXCEPT !.then = "expired"]
  <2>1. net' = Post(Finish(r), q)
    BY <1>8 DEF RefreshTimesOut
  <2>2. q.kind = r.kind /\ q.as = r.as /\ q.stage = r.stage /\ q.then = "expired" /\ r.kind = "jobs"
    BY <1>1, <1>8 DEF RequestTyped, RequestFields, RefreshTimesOut
  <2> HIDE DEF q
  <2>3. SessionRequest(q, cookie, page.user)
    BY <1>1, <2>2 DEF SessionRequest
  <2> QED
    BY <1>3, <1>5, <2>1, <2>2, <2>3
<1>9. ~Lose(r)
  BY <1>1 DEF Lose, Undisturbed
<1> QED
  BY <1>6, <1>7, <1>8, <1>9

LEMMA InitSession == WorkspaceAssumption /\ Init => SessionInv
<1> SUFFICES ASSUME WorkspaceAssumption, Init PROVE SessionInv
  OBVIOUS
<1>1. PageInv /\ cookie \in Users \cup {NoUser}
  BY InitTyped DEF Init
<1>2. page = FreshPage(NoJob) /\ DOMAIN net = {Request("me", NoJob, "boot")}
      /\ net[Request("me", NoJob, "boot")] = 1
  BY DEF Init, SetToBag
<1>3. PageTyped(page, Own) /\ page.user = NoUser /\ page.active = NoJob /\ DOMAIN page.jobs = {}
  BY <1>2, FreshTyped
<1>4. RequestTyped(Request("me", NoJob, "boot"), Own)
  BY <1>1, SentTyped DEF Kinds
<1>5. SessionRequest(Request("me", NoJob, "boot"), cookie, page.user)
  BY SentSession DEF Kinds
<1>6. NetTyped(net, Own) /\ SessionNet(net, cookie, page.user)
  BY <1>2, <1>4, <1>5 DEF NetTyped, IsBag, SessionNet
<1> QED
  BY <1>1, <1>3, <1>6 DEF SessionInv, SessionPage

LEMMA StepSession == WorkspaceAssumption /\ Undisturbed /\ SessionInv /\ [Next]_vars => SessionInv'
<1> SUFFICES ASSUME WorkspaceAssumption, Undisturbed, SessionInv, [Next]_vars
             PROVE  SessionInv'
  OBVIOUS
<1>1. /\ PageInv /\ PageInv' /\ PageTyped(page, Own) /\ NetTyped(net, Own) /\ Own \subseteq Jobs
      /\ cookie \in Users \cup {NoUser} /\ announced \in Nat
      /\ owner \in [Jobs -> Users \cup {NoUser}] /\ status \in [Jobs -> Statuses]
  BY StepTyped DEF SessionInv, PageInv, ServerTyped, Own
<1>2. Own \subseteq Created /\ \A k \in Created : owner[k] = cookie => k \in Own
  BY DEF Own, Created
<1>3. \A r \in DOMAIN net : r.as = cookie
  BY DEF SessionInv, SessionNet, SessionRequest
<1>4. ASSUME Session, cookie' = cookie, Own \subseteq Own', PageTyped(page', Own'), NetTyped(net', Own')
      PROVE  SessionInv'
  <2>1. (PageTyped(page, Own))' /\ (NetTyped(net, Own))'
    BY <1>4 DEF PageTyped, NetTyped, RequestTyped, IsList, TimerKnown, Statuses, Kinds
  <2>2. SessionPage(page, net, cookie)'
    BY <1>4 DEF Session, SessionPage, Asks
  <2>3. SessionNet(net, cookie, page.user)'
    BY <1>4 DEF Session, SessionNet, SessionRequest
  <2> QED
    BY <1>1, <2>1, <2>2, <2>3 DEF SessionInv
<1>5. ASSUME owner' = owner, cookie' = cookie PROVE Own' = Own
  BY <1>5 DEF Own, Jobs
<1>6. ASSUME Session, cookie' = cookie, owner' = owner, PageTyped(page', Own), NetTyped(net', Own)
      PROVE  SessionInv'
  <2>1. Own' = Own
    BY <1>5, <1>6
  <2> QED
    BY <1>4, <1>6, <2>1
<1>7. CASE UNCHANGED vars \/ \E j \in Jobs : Progress(j)
  <2>1. page' = page /\ net' = net /\ cookie' = cookie /\ owner' = owner
    BY <1>7 DEF vars, server, Progress
  <2>2. Session
    BY <2>1 DEF SessionInv, Session
  <2> QED
    BY <1>1, <1>6, <2>1, <2>2
<1>8. CASE \E r \in UnderWay : Serve(r) \/ ServeGenerate(r) \/ Lose(r) \/ RefreshTimesOut(r)
  <2>1. PICK r \in DOMAIN net : Serve(r) \/ ServeGenerate(r) \/ Lose(r) \/ RefreshTimesOut(r)
    BY <1>8, UnderWayIs
  <2>2. Session /\ cookie' = cookie
    BY <2>1, ServesSession
  <2>3. CASE Serve(r)
    <3>1. {k \in Created : owner[k] = r.as} \subseteq Own
      BY <1>2, <1>3
    <3>2. NetTyped(net', Own)
      BY <1>1, <2>3, <3>1, ServeTyped
    <3> QED
      BY <1>1, <1>6, <2>2, <2>3, <3>2 DEF Serve, server
  <2>4. CASE Lose(r) \/ RefreshTimesOut(r)
    <3>1. NetTyped(net', Own)
      BY <1>1, <2>4, LoseTyped
    <3> QED
      BY <1>1, <1>6, <2>2, <2>4, <3>1 DEF Lose, RefreshTimesOut, server
  <2>5. CASE ServeGenerate(r)
    <3>1. page' = page
      BY <2>5 DEF ServeGenerate
    <3>2. CASE r.as # NoUser /\ Created # Jobs
      <4>1. PICK j \in Jobs \ Created : owner' = [owner EXCEPT ![j] = r.as]
        BY <2>5, <3>2 DEF ServeGenerate
      <4>2. Own \subseteq Own'
        BY <1>1, <1>2, <2>2, <4>1 DEF Own, Jobs
      <4>3. \A k \in Jobs \ Created : owner' = [owner EXCEPT ![k] = r.as] => k \in Own'
        BY <1>1, <1>3, <2>2, <3>2 DEF Own, Jobs
      <4>4. NetTyped(net', Own')
        BY <1>1, <2>5, <4>2, <4>3, GenerateTyped
      <4>5. PageTyped(page', Own')
        BY <1>1, <3>1, <4>2, PageGrows
      <4> QED
        BY <1>4, <2>2, <4>2, <4>4, <4>5
    <3>3. CASE ~(r.as # NoUser /\ Created # Jobs)
      <4>1. /\ owner' = owner
            /\ net' = Finish(r) \/ net' = Post(Finish(r), [r EXCEPT !.stage = "failed"])
        BY <2>5, <3>3 DEF ServeGenerate
      <4>2. RequestTyped(r, Own) /\ NetTyped(Finish(r), Own)
        BY <1>1, FinishTyped DEF NetTyped
      <4>3. RequestTyped([r EXCEPT !.stage = "failed"], Own)
        BY <4>2, ChangedTyped
      <4>4. NetTyped(net', Own)
        BY <4>1, <4>2, <4>3, PostTyped
      <4> QED
        BY <1>1, <1>6, <2>2, <3>1, <4>1, <4>4
    <3> QED
      BY <3>2, <3>3
  <2> QED
    BY <2>1, <2>3, <2>4, <2>5
<1>9. CASE \E r \in UnderWay : Deliver(r)
  <2>1. PICK r \in DOMAIN net : Deliver(r)
    BY <1>9, UnderWayIs
  <2>2. PageTyped(page', Own) /\ NetTyped(net', Own)
    BY <1>1, <2>1, DeliverTyped
  <2>3. Session /\ cookie' = cookie
    BY <2>1, DeliverSession
  <2>4. owner' = owner
    BY <2>1 DEF Deliver, server
  <2> QED
    BY <1>6, <2>2, <2>3, <2>4
<1>10. CASE TimerFires
  <2>1. PageTyped(page', Own) /\ NetTyped(net', Own)
    BY <1>1, <1>10, FiresTyped
  <2>2. Session /\ cookie' = cookie /\ owner' = owner
    BY <1>10, ActsSession DEF TimerFires, server
  <2> QED
    BY <1>6, <2>1, <2>2
<1>11. CASE \E j \in Jobs : SelectJob(j)
  <2>1. PageTyped(page', Own) /\ NetTyped(net', Own)
    BY <1>1, <1>11, SelectTyped
  <2>2. Session /\ cookie' = cookie
    BY <1>11, ActsSession
  <2>3. owner' = owner
    BY <1>11 DEF SelectJob, Click, server
  <2> QED
    BY <1>6, <2>1, <2>2, <2>3
<1>12. CASE \/ SubmitPrompt \/ HistoryTab \/ RefreshJobsButton \/ RefreshAccount
            \/ \E u \in Users : Login(u)
            \/ Logout \/ Reload
  <2>1. PageTyped(page', Own) /\ NetTyped(net', Own)
    BY <1>1, <1>12, UserTypes
  <2>2. Session /\ cookie' = cookie
    BY <1>12, ActsSession
  <2>3. owner' = owner
    BY <1>12 DEF SubmitPrompt, HistoryTab, RefreshJobsButton, RefreshAccount, Login, Logout, Reload, Click, server
  <2> QED
    BY <1>6, <2>1, <2>2, <2>3
<1> QED
  BY <1>7, <1>8, <1>9, <1>10, <1>11, <1>12 DEF Next, ServeAny, DeliverAny

(* While no request fails and nobody signs in or out, a page that waits for *)
(* a job that it lists as pending is polling or about to hear from a        *)
(* request.                                                                 *)
THEOREM WaitingAlwaysPolls ==
  ASSUME WorkspaceAssumption, Undisturbed PROVE Spec => []WaitingIsPolling
<1>1. SessionInv => WaitingIsPolling
  <2> SUFFICES ASSUME SessionInv, page.active \in StillPending(page.jobs)
               PROVE  Polling
    BY DEF WaitingIsPolling
  <2>1. PageTyped(page, Own) /\ NoJob \notin Own
    BY DEF SessionInv, Own, Jobs, NoJob
  <2>2. page.active # NoJob
    BY <2>1 DEF PageTyped, IsList, StillPending
  <2> QED
    BY <2>2, UnderWayIs DEF SessionInv, SessionPage, Asks, Polling
<1>2. Init => SessionInv
  BY InitSession
<1>3. SessionInv /\ [Next]_vars => SessionInv'
  BY StepSession
<1> QED
  BY <1>1, <1>2, <1>3, PTL DEF Spec

==============================================================================
