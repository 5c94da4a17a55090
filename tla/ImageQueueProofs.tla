-------------------------- MODULE ImageQueueProofs --------------------------
(***************************************************************************)
(* The queue of the image gateway, for any tasks, instances, workers and   *)
(* clients, any limits, and any number of crashes and failing calls.       *)
(***************************************************************************)
EXTENDS ImageQueue, FiniteSetTheorems, SequenceTheorems, TLAPS

-----------------------------------------------------------------------------
(* Scripts: what may be left in the todo of a thread *)

CommandsOf(s) == {s[n] : n \in 1..Len(s)}

\* The look-ups.
Seeks == {Seek(set) : set \in {"waitingSet", "delayedSet", "active"}}

\* SADD and LPUSH go together, and nothing follows the release of a lock.
Scripts ==
  {s \in Seq(Commands) : \A n \in 1..Len(s) :
     /\ s[n] = Enlist => n < Len(s) /\ s[n + 1] = Push
     /\ s[n] = Unlock => n = Len(s)}

\* The empty script has no command.
LEMMA NothingToDo ==
  <<>> \in Scripts /\ CommandsOf(<<>>) = {}
BY SMT DEF Scripts, CommandsOf

\* A script of one or two commands consists of them.
LEMMA ShortScripts ==
  ASSUME NEW a, NEW b
  PROVE  CommandsOf(<<a>>) = {a} /\ CommandsOf(<<a, b>>) = {a, b}
BY SMT DEF CommandsOf

\* Scripts can be run one after the other, if the first keeps the lock.
LEMMA JoinedScripts ==
  ASSUME NEW s \in Scripts, NEW r \in Scripts, Unlock \notin CommandsOf(s)
  PROVE  s \o r \in Scripts /\ CommandsOf(s \o r) = CommandsOf(s) \cup CommandsOf(r)
<1> DEFINE q == s \o r
<1>1. s \in Seq(Commands) /\ r \in Seq(Commands)
  BY DEF Scripts
<1>2. /\ q \in Seq(Commands) /\ Len(q) = Len(s) + Len(r)
      /\ Len(s) \in Nat /\ Len(r) \in Nat
      /\ \A n \in 1..Len(s) : q[n] = s[n]
      /\ \A n \in 1..Len(r) : q[Len(s) + n] = r[n]
  BY <1>1, SMT
<1>3. ASSUME NEW n \in 1..Len(q)
      PROVE  \/ n \in 1..Len(s) /\ q[n] = s[n]
             \/ \E m \in 1..Len(r) : n = Len(s) + m /\ q[n] = r[m]
  <2>1. CASE n <= Len(s)
    BY <1>2, <2>1
  <2>2. CASE n > Len(s)
    <3>1. n - Len(s) \in 1..Len(r) /\ n = Len(s) + (n - Len(s))
      BY <1>2, <2>2
    <3> QED BY <3>1, <1>2
  <2> QED BY <1>2, <2>1, <2>2
<1>4. CommandsOf(q) = CommandsOf(s) \cup CommandsOf(r)
  <2>1. CommandsOf(q) \subseteq CommandsOf(s) \cup CommandsOf(r)
    BY <1>3 DEF CommandsOf
  <2>2. CommandsOf(s) \subseteq CommandsOf(q)
    BY <1>2 DEF CommandsOf
  <2>3. CommandsOf(r) \subseteq CommandsOf(q)
    <3>1. \A m \in 1..Len(r) : Len(s) + m \in 1..Len(q)
      BY <1>2
    <3> QED BY <3>1, <1>2 DEF CommandsOf
  <2> QED BY <2>1, <2>2, <2>3
<1>5. ASSUME NEW n \in 1..Len(q)
      PROVE  /\ q[n] = Enlist => n < Len(q) /\ q[n + 1] = Push
             /\ q[n] = Unlock => n = Len(q)
  <2>1. CASE n \in 1..Len(s) /\ q[n] = s[n]
    <3>1. q[n] # Unlock
      BY <2>1 DEF CommandsOf
    <3>2. ASSUME q[n] = Enlist
          PROVE  n < Len(q) /\ q[n + 1] = Push
      <4>1. n < Len(s) /\ s[n + 1] = Push
        BY <2>1, <3>2 DEF Scripts
      <4>2. n + 1 \in 1..Len(s)
        BY <4>1, <1>2
      <4> QED BY <4>1, <4>2, <1>2
    <3> QED BY <3>1, <3>2
  <2>2. ASSUME NEW m \in 1..Len(r), n = Len(s) + m, q[n] = r[m]
        PROVE  /\ q[n] = Enlist => n < Len(q) /\ q[n + 1] = Push
               /\ q[n] = Unlock => n = Len(q)
    <3>1. ASSUME q[n] = Enlist
          PROVE  n < Len(q) /\ q[n + 1] = Push
      <4>1. m < Len(r) /\ r[m + 1] = Push
        BY <2>2, <3>1 DEF Scripts
      <4>2. m + 1 \in 1..Len(r) /\ n + 1 = Len(s) + (m + 1)
        BY <4>1, <2>2, <1>2
      <4> QED BY <4>1, <4>2, <2>2, <1>2
    <3>2. q[n] = Unlock => n = Len(q)
      BY <2>2, <1>2 DEF Scripts
    <3> QED BY <3>1, <3>2
  <2> QED BY <1>3, <2>1, <2>2
<1> HIDE DEF q
<1>6. q \in Scripts
  BY <1>2, <1>5 DEF Scripts
<1> QED BY <1>4, <1>6 DEF q

\* What is left of a script when its first command has run.
LEMMA TailOfScript ==
  ASSUME NEW s \in Scripts, s # <<>>
  PROVE  /\ Head(s) \in Commands /\ Head(s) \in CommandsOf(s)
         /\ Tail(s) \in Scripts
         /\ CommandsOf(s) = {Head(s)} \cup CommandsOf(Tail(s))
         /\ Head(s) = Enlist => Tail(s) # <<>> /\ Head(Tail(s)) = Push
         /\ Head(s) = Unlock => Tail(s) = <<>>
<1> DEFINE r == Tail(s)
<1>1. s \in Seq(Commands) /\ Len(s) \in Nat /\ Len(s) > 0
  BY SMT DEF Scripts
<1>2. /\ Head(s) = s[1] /\ s[1] \in Commands
      /\ r \in Seq(Commands) /\ Len(r) = Len(s) - 1
      /\ \A n \in 1..Len(r) : r[n] = s[n + 1]
  BY <1>1, SMT
<1> HIDE DEF r
<1>3. CommandsOf(s) = {Head(s)} \cup CommandsOf(r)
  <2>1. CommandsOf(s) \subseteq {Head(s)} \cup CommandsOf(r)
    <3>1. ASSUME NEW n \in 1..Len(s)
          PROVE  s[n] \in {Head(s)} \cup CommandsOf(r)
      <4>1. CASE n = 1
        BY <4>1, <1>2
      <4>2. CASE n # 1
        <5>1. n - 1 \in 1..Len(r) /\ (n - 1) + 1 = n
          BY <4>2, <1>1, <1>2
        <5> QED BY <5>1, <1>2 DEF CommandsOf
      <4> QED BY <4>1, <4>2
    <3> QED BY <3>1 DEF CommandsOf
  <2>2. CommandsOf(r) \subseteq CommandsOf(s)
    <3>1. \A n \in 1..Len(r) : n + 1 \in 1..Len(s)
      BY <1>1, <1>2
    <3> QED BY <3>1, <1>2 DEF CommandsOf
  <2>3. Head(s) \in CommandsOf(s)
    BY <1>1, <1>2 DEF CommandsOf
  <2> QED BY <2>1, <2>2, <2>3
<1>4. ASSUME NEW n \in 1..Len(r)
      PROVE  /\ r[n] = Enlist => n < Len(r) /\ r[n + 1] = Push
             /\ r[n] = Unlock => n = Len(r)
  <2>1. n + 1 \in 1..Len(s) /\ r[n] = s[n + 1]
    BY <1>1, <1>2
  <2>2. /\ s[n + 1] = Enlist => n + 1 < Len(s) /\ s[(n + 1) + 1] = Push
        /\ s[n + 1] = Unlock => n + 1 = Len(s)
    BY <2>1 DEF Scripts
  <2>3. n + 1 < Len(s) => n + 1 \in 1..Len(r) /\ r[n + 1] = s[(n + 1) + 1]
    BY <1>1, <1>2
  <2>4. n + 1 < Len(s) => n < Len(r)
    BY <1>1, <1>2
  <2>5. n + 1 = Len(s) => n = Len(r)
    BY <1>1, <1>2
  <2> QED BY <2>1, <2>2, <2>3, <2>4, <2>5
<1>5. r \in Scripts
  BY <1>2, <1>4 DEF Scripts
<1>6. 1 \in 1..Len(s)
  BY <1>1
<1>7. ASSUME Head(s) = Enlist
      PROVE  r # <<>> /\ Head(r) = Push
  <2>1. 1 < Len(s) /\ s[1 + 1] = Push
    BY <1>2, <1>6, <1>7 DEF Scripts
  <2>2. Len(r) > 0 /\ r[1] = s[1 + 1]
    BY <2>1, <1>1, <1>2
  <2>3. r # <<>> /\ Head(r) = r[1]
    BY <2>2, <1>2, SMT DEF r
  <2> QED BY <2>1, <2>2, <2>3
<1>8. ASSUME Head(s) = Unlock
      PROVE  r = <<>>
  <2>1. 1 = Len(s)
    BY <1>2, <1>6, <1>8 DEF Scripts
  <2> QED BY <2>1, <1>2, SMT
<1> QED BY <1>2, <1>3, <1>5, <1>7, <1>8 DEF r

\* The procedures as scripts.  None of them but the finally block unlocks.
LEMMA Procedures ==
  /\ ClearActive \in Scripts
  /\ CommandsOf(ClearActive) = {Remove("active"), Remove("started")}
  /\ ForceWaiting \in Scripts
  /\ CommandsOf(ForceWaiting) =
       {Add("queued"), Remove("delayed"), Remove("delayedSet"), Enlist, Push}
  /\ ReleaseQueueMembership \in Scripts
  /\ CommandsOf(ReleaseQueueMembership) =
       {Remove("queued"), Remove("delayed"), Remove("waitingSet"), Remove("delayedSet")}
  /\ ScheduleRetry \in Scripts
  /\ CommandsOf(ScheduleRetry) = {Add("delayedSet"), Add("delayed")}
  /\ HoldTask \in Scripts
  /\ CommandsOf(HoldTask) =
       {Remove("delayedSet"), Add("active"), Add("started"), Remove("waitingSet")}
  /\ ListAgain \in Scripts
  /\ CommandsOf(ListAgain) = {Remove("delayedSet"), Add("waitingSet"), Push}
  /\ <<Remove("waitingSet")>> \in Scripts
  /\ CommandsOf(<<Remove("waitingSet")>>) = {Remove("waitingSet")}
  /\ <<Unlock>> \in Scripts /\ CommandsOf(<<Unlock>>) = {Unlock}
  /\ <<Seek("waitingSet"), Seek("delayedSet"), Seek("active")>> \in Scripts
  /\ CommandsOf(<<Seek("waitingSet"), Seek("delayedSet"), Seek("active")>>) = Seeks
  /\ <<Forget>> \in Scripts /\ CommandsOf(<<Forget>>) = {Forget}
  /\ <<Bury>> \in Scripts /\ CommandsOf(<<Bury>>) = {Bury}
  /\ <<Forget, Remove("delayed")>> \in Scripts
  /\ CommandsOf(<<Forget, Remove("delayed")>>) = {Forget, Remove("delayed")}
<1> USE DEF Scripts, Commands, Sets, Add, Remove, Seek, Enlist, Push, Unlock, Forget, Bury
<1>1. ClearActive \in Scripts
  BY SMT DEF ClearActive
<1>2. ForceWaiting \in Scripts
  BY SMTT(30) DEF ForceWaiting
<1>3. ReleaseQueueMembership \in Scripts
  BY SMTT(30) DEF ReleaseQueueMembership
<1>4. ScheduleRetry \in Scripts /\ HoldTask \in Scripts
  BY SMTT(30) DEF ScheduleRetry, HoldTask
<1>5. ListAgain \in Scripts
  BY SMTT(30) DEF ListAgain
<1>6. /\ <<Remove("waitingSet")>> \in Scripts /\ <<Unlock>> \in Scripts
      /\ <<Forget>> \in Scripts /\ <<Bury>> \in Scripts
      /\ <<Forget, Remove("delayed")>> \in Scripts
  BY SMTT(30)
<1>11. <<Seek("waitingSet"), Seek("delayedSet"), Seek("active")>> \in Scripts
  BY SMTT(30)
<1> HIDE DEF Scripts, Commands, Sets, Add, Remove, Seek, Enlist, Push, Unlock, Forget, Bury
<1>7. /\ CommandsOf(ClearActive) = {Remove("active"), Remove("started")}
      /\ CommandsOf(ScheduleRetry) = {Add("delayedSet"), Add("delayed")}
  BY SMTT(30) DEF CommandsOf, ClearActive, ScheduleRetry
<1>9. CommandsOf(ListAgain) = {Remove("delayedSet"), Add("waitingSet"), Push}
  BY SMTT(30) DEF CommandsOf, ListAgain
<1>10. /\ CommandsOf(<<Remove("waitingSet")>>) = {Remove("waitingSet")}
       /\ CommandsOf(<<Unlock>>) = {Unlock}
       /\ CommandsOf(<<Forget>>) = {Forget}
       /\ CommandsOf(<<Bury>>) = {Bury}
       /\ CommandsOf(<<Forget, Remove("delayed")>>) = {Forget, Remove("delayed")}
  BY ShortScripts
<1>8. /\ CommandsOf(ForceWaiting) =
           {Add("queued"), Remove("delayed"), Remove("delayedSet"), Enlist, Push}
      /\ CommandsOf(ReleaseQueueMembership) =
           {Remove("queued"), Remove("delayed"), Remove("waitingSet"), Remove("delayedSet")}
      /\ CommandsOf(HoldTask) =
           {Remove("delayedSet"), Add("active"), Add("started"), Remove("waitingSet")}
  BY SMTT(30) DEF CommandsOf, ForceWaiting, ReleaseQueueMembership, HoldTask
<1>12. CommandsOf(<<Seek("waitingSet"), Seek("delayedSet"), Seek("active")>>) = Seeks
  BY SMTT(30) DEF CommandsOf, Seeks
<1> QED BY <1>1, <1>2, <1>3, <1>4, <1>5, <1>6, <1>7, <1>8, <1>9, <1>10, <1>11, <1>12

\* The procedures that run after one another.
LEMMA JoinedProcedures ==
  /\ MoveToDead \in Scripts
  /\ CommandsOf(MoveToDead) =
       {Forget, Remove("delayed"), Remove("queued"), Remove("waitingSet"), Remove("delayedSet"), Bury}
  /\ <<Forget>> \o ReleaseQueueMembership \in Scripts
  /\ CommandsOf(<<Forget>> \o ReleaseQueueMembership) =
       {Forget, Remove("queued"), Remove("delayed"), Remove("waitingSet"), Remove("delayedSet")}
  /\ ClearActive \o ForceWaiting \in Scripts
  /\ CommandsOf(ClearActive \o ForceWaiting) =
       {Remove("active"), Remove("started"), Add("queued"), Remove("delayed"),
        Remove("delayedSet"), Enlist, Push}
  /\ ClearActive \o ReleaseQueueMembership \in Scripts
  /\ CommandsOf(ClearActive \o ReleaseQueueMembership) =
       {Remove("active"), Remove("started"), Remove("queued"), Remove("delayed"),
        Remove("waitingSet"), Remove("delayedSet")}
  /\ ClearActive \o <<Unlock>> \in Scripts
  /\ CommandsOf(ClearActive \o <<Unlock>>) = {Remove("active"), Remove("started"), Unlock}
  /\ HasPendingQueueState \in Scripts
  /\ CommandsOf(HasPendingQueueState) = Seeks \cup CommandsOf(ForceWaiting)
<1>1. /\ Unlock \notin {Remove("active"), Remove("started")}
      /\ Unlock \notin {Forget}
      /\ Unlock \notin {Forget, Remove("delayed")}
      /\ Unlock \notin {Remove("queued"), Remove("delayed"), Remove("waitingSet"), Remove("delayedSet")}
  BY DEF Unlock, Forget, Remove
<1>2. <<Forget, Remove("delayed")>> \o ReleaseQueueMembership \in Scripts
      /\ CommandsOf(<<Forget, Remove("delayed")>> \o ReleaseQueueMembership) =
           {Forget, Remove("delayed")} \cup
             {Remove("queued"), Remove("delayed"), Remove("waitingSet"), Remove("delayedSet")}
  <2>1. <<Forget, Remove("delayed")>> \in Scripts /\ Unlock \notin CommandsOf(<<Forget, Remove("delayed")>>)
    BY <1>1, Procedures
  <2>2. ReleaseQueueMembership \in Scripts
    BY Procedures
  <2>3. /\ <<Forget, Remove("delayed")>> \o ReleaseQueueMembership \in Scripts
        /\ CommandsOf(<<Forget, Remove("delayed")>> \o ReleaseQueueMembership) =
             CommandsOf(<<Forget, Remove("delayed")>>) \cup CommandsOf(ReleaseQueueMembership)
    BY <2>1, <2>2, JoinedScripts
  <2> QED BY <2>3, Procedures
<1>3. Unlock \notin CommandsOf(<<Forget, Remove("delayed")>> \o ReleaseQueueMembership)
  BY <1>1, <1>2
<1>4. /\ MoveToDead \in Scripts
      /\ CommandsOf(MoveToDead) =
           ({Forget, Remove("delayed")} \cup
             {Remove("queued"), Remove("delayed"), Remove("waitingSet"), Remove("delayedSet")}) \cup {Bury}
  <2>1. <<Bury>> \in Scripts /\ CommandsOf(<<Bury>>) = {Bury}
    BY Procedures
  <2>2. /\ (<<Forget, Remove("delayed")>> \o ReleaseQueueMembership) \o <<Bury>> \in Scripts
        /\ CommandsOf((<<Forget, Remove("delayed")>> \o ReleaseQueueMembership) \o <<Bury>>) =
             CommandsOf(<<Forget, Remove("delayed")>> \o ReleaseQueueMembership) \cup CommandsOf(<<Bury>>)
    BY <1>2, <1>3, <2>1, JoinedScripts, Zenon
  <2> QED BY <1>2, <2>1, <2>2, Zenon DEF MoveToDead
<1>5. /\ <<Forget>> \o ReleaseQueueMembership \in Scripts
      /\ CommandsOf(<<Forget>> \o ReleaseQueueMembership) = {Forget} \cup
           {Remove("queued"), Remove("delayed"), Remove("waitingSet"), Remove("delayedSet")}
  <2>1. <<Forget>> \in Scripts /\ Unlock \notin CommandsOf(<<Forget>>)
    BY <1>1, Procedures
  <2>2. ReleaseQueueMembership \in Scripts
    BY Procedures
  <2>3. /\ <<Forget>> \o ReleaseQueueMembership \in Scripts
        /\ CommandsOf(<<Forget>> \o ReleaseQueueMembership) =
             CommandsOf(<<Forget>>) \cup CommandsOf(ReleaseQueueMembership)
    BY <2>1, <2>2, JoinedScripts
  <2> QED BY <2>3, Procedures
<1>6. /\ ClearActive \o ForceWaiting \in Scripts
      /\ CommandsOf(ClearActive \o ForceWaiting) = {Remove("active"), Remove("started")} \cup
           {Add("queued"), Remove("delayed"), Remove("delayedSet"), Enlist, Push}
  <2>1. ClearActive \in Scripts /\ Unlock \notin CommandsOf(ClearActive)
    BY <1>1, Procedures
  <2>2. ForceWaiting \in Scripts
    BY Procedures
  <2>3. /\ ClearActive \o ForceWaiting \in Scripts
        /\ CommandsOf(ClearActive \o ForceWaiting) =
             CommandsOf(ClearActive) \cup CommandsOf(ForceWaiting)
    BY <2>1, <2>2, JoinedScripts
  <2> QED BY <2>3, Procedures
<1>7. /\ ClearActive \o ReleaseQueueMembership \in Scripts
      /\ CommandsOf(ClearActive \o ReleaseQueueMembership) = {Remove("active"), Remove("started")} \cup
           {Remove("queued"), Remove("delayed"), Remove("waitingSet"), Remove("delayedSet")}
  <2>1. ClearActive \in Scripts /\ Unlock \notin CommandsOf(ClearActive)
    BY <1>1, Procedures
  <2>2. ReleaseQueueMembership \in Scripts
    BY Procedures
  <2>3. /\ ClearActive \o ReleaseQueueMembership \in Scripts
        /\ CommandsOf(ClearActive \o ReleaseQueueMembership) =
             CommandsOf(ClearActive) \cup CommandsOf(ReleaseQueueMembership)
    BY <2>1, <2>2, JoinedScripts
  <2> QED BY <2>3, Procedures
<1>8. /\ ClearActive \o <<Unlock>> \in Scripts
      /\ CommandsOf(ClearActive \o <<Unlock>>) = {Remove("active"), Remove("started")} \cup {Unlock}
  <2>1. ClearActive \in Scripts /\ Unlock \notin CommandsOf(ClearActive)
    BY <1>1, Procedures
  <2>2. <<Unlock>> \in Scripts
    BY Procedures
  <2>3. /\ ClearActive \o <<Unlock>> \in Scripts
        /\ CommandsOf(ClearActive \o <<Unlock>>) =
             CommandsOf(ClearActive) \cup CommandsOf(<<Unlock>>)
    BY <2>1, <2>2, JoinedScripts
  <2> QED BY <2>3, Procedures
<1>9. /\ HasPendingQueueState \in Scripts
      /\ CommandsOf(HasPendingQueueState) = Seeks \cup CommandsOf(ForceWaiting)
  <2> DEFINE q == <<Seek("waitingSet"), Seek("delayedSet"), Seek("active")>>
  <2>1. q \in Scripts /\ CommandsOf(q) = Seeks /\ ForceWaiting \in Scripts
    BY Procedures
  <2>2. Unlock \notin Seeks
    BY DEF Seeks, Seek, Unlock
  <2>3. HasPendingQueueState = q \o ForceWaiting
    BY DEF HasPendingQueueState
  <2> HIDE DEF q
  <2>4. q \o ForceWaiting \in Scripts
        /\ CommandsOf(q \o ForceWaiting) = CommandsOf(q) \cup CommandsOf(ForceWaiting)
    BY <2>1, <2>2, JoinedScripts
  <2> QED BY <2>1, <2>3, <2>4
<1> QED
  <2>1. /\ CommandsOf(MoveToDead) =
             {Forget, Remove("delayed"), Remove("queued"), Remove("waitingSet"), Remove("delayedSet"), Bury}
        /\ CommandsOf(<<Forget>> \o ReleaseQueueMembership) =
             {Forget, Remove("queued"), Remove("delayed"), Remove("waitingSet"), Remove("delayedSet")}
    BY <1>4, <1>5
  <2>2. CommandsOf(ClearActive \o ForceWaiting) =
          {Remove("active"), Remove("started"), Add("queued"), Remove("delayed"),
           Remove("delayedSet"), Enlist, Push}
    BY <1>6
  <2>3. CommandsOf(ClearActive \o ReleaseQueueMembership) =
          {Remove("active"), Remove("started"), Remove("queued"), Remove("delayed"),
           Remove("waitingSet"), Remove("delayedSet")}
    BY <1>7
  <2>4. CommandsOf(ClearActive \o <<Unlock>>) = {Remove("active"), Remove("started"), Unlock}
    BY <1>8
  <2> QED BY <1>4, <1>5, <1>6, <1>7, <1>8, <1>9, <2>1, <2>2, <2>3, <2>4

-----------------------------------------------------------------------------
(* The threads *)

InstanceLabels == {"down", "starting", "booting", "up"}
ClientLabels == {"down", "idle", "admitting", "enqueueing", "checking", "listing", "refusing",
                 "generating", "calling"}
WorkerLabels == {"down", "idle", "popped", "locking", "postponing", "held", "loaded", "working",
                 "settling", "caught", "givingUp", "counting", "releasing", "recovering", "gone"}
OnTask == (ClientLabels \cup WorkerLabels) \ {"down", "idle", "gone"}
AfterLock == {"held", "loaded", "working", "settling", "caught", "givingUp", "counting", "releasing"}

(* What a thread may be doing: x is the thread, r its record.  Only a        *)
(* worker that took the lock holds, calls, settles and unlocks, and only one *)
(* that has just taken it shows the task as active.  No worker looks a task  *)
(* up in the sets, and only the tasks of sync requests are run by clients.   *)
ThreadOK(x, r) ==
  /\ x \in Instances => r.pc \in InstanceLabels
  /\ x \in Clients => r.pc \in ClientLabels
  /\ x \in Workers => r.pc \in WorkerLabels
  /\ r.todo \in Scripts
  /\ r.todo # <<>> \/ r.pc \in OnTask => r.task \in Tasks
  /\ r.pc \in {"down", "starting", "up", "admitting", "refusing", "generating", "calling", "gone",
               "loaded", "working"} => r.todo = <<>>
  /\ r.pc \in {"held", "loaded", "working", "settling"} => r.locked
  /\ r.locked => r.pc \in AfterLock
  /\ Unlock \in CommandsOf(r.todo) => r.pc = "releasing" /\ r.locked
  /\ Add("active") \in CommandsOf(r.todo) \/ Add("started") \in CommandsOf(r.todo) => r.pc = "held"
  /\ r.pc = "admitting" => r.fresh
  /\ CommandsOf(r.todo) \cap Seeks # {} => r.pc \in {"listing", "booting"}
  /\ r.pc \in {"generating", "calling"} => r.task \in SyncTasks

ThreadsOK == \A x \in Threads : ThreadOK(x, th[x])

Typed == TypeOK /\ ThreadsOK

\* The rows of the threads that are not x stay, and x becomes r.
LEMMA Becoming ==
  ASSUME th \in [Threads -> Thread], NEW x \in Threads, NEW r \in Thread, Become(x, r)
  PROVE  th' \in [Threads -> Thread] /\ th'[x] = r /\ \A y \in Threads \ {x} : th'[y] = th[y]
BY DEF Become

\* One thread that becomes what it may be leaves the threads sound.
LEMMA BecomingOK ==
  ASSUME th \in [Threads -> Thread], ThreadsOK, NEW x \in Threads, NEW r \in Thread,
         ThreadOK(x, r), Become(x, r)
  PROVE  th' \in [Threads -> Thread] /\ ThreadsOK'
<1>1. th' \in [Threads -> Thread] /\ th'[x] = r /\ \A y \in Threads \ {x} : th'[y] = th[y]
  BY Becoming
<1>2. ASSUME NEW y \in Threads
      PROVE  ThreadOK(y, th'[y])
  BY <1>1 DEF ThreadsOK
<1> QED BY <1>1, <1>2 DEF ThreadsOK, ThreadOK

\* A thread that starts again has nothing of what it did before.
LEMMA Restarted ==
  ASSUME NEW label \in Labels
  PROVE  /\ At(label) \in Thread
         /\ At(label).pc = label /\ At(label).task = NoTask /\ At(label).todo = <<>>
         /\ ~At(label).fresh /\ ~At(label).locked /\ At(label).rest = {}
<1>1. <<>> \in Seq(Commands) /\ {} \in SUBSET (Tasks \X Statuses)
  BY SMT
<1> QED BY <1>1 DEF At, Thread

\* A thread that starts again at a label of its own is sound.
LEMMA RestartedOK ==
  ASSUME NEW x \in Threads, NEW label \in {"down", "idle", "up", "gone", "starting", "booting"},
         x \in Instances => label \in InstanceLabels,
         x \in Clients => label \in ClientLabels,
         x \in Workers => label \in WorkerLabels
  PROVE  At(label) \in Thread /\ ThreadOK(x, At(label))
<1>1. label \in Labels /\ label \notin OnTask
  BY DEF Labels, OnTask, ClientLabels, WorkerLabels
<1>2. /\ At(label) \in Thread
      /\ At(label).pc = label /\ At(label).task = NoTask /\ At(label).todo = <<>>
      /\ ~At(label).fresh /\ ~At(label).locked
  BY <1>1, Restarted
<1>3. At(label).todo \in Scripts /\ CommandsOf(At(label).todo) = {}
  BY <1>2, NothingToDo
<1> QED BY <1>1, <1>2, <1>3 DEF ThreadOK

\* What the run of a thread's first command makes of the thread.
LEMMA Executed ==
  ASSUME Typed, NEW x \in Threads, Execute(x)
  PROVE  /\ th[x].todo # <<>> /\ th[x].task \in Tasks
         /\ Head(th[x].todo) \in Commands /\ Head(th[x].todo) \in CommandsOf(th[x].todo)
         /\ th' \in [Threads -> Thread] /\ \A y \in Threads \ {x} : th'[y] = th[y]
         /\ \/ th[x].pc = "idle" /\ th'[x] = At("idle")
            \/ th'[x] = [th[x] EXCEPT !.todo = th'[x].todo]
         /\ th'[x].todo \in Scripts
         /\ CommandsOf(th'[x].todo) \subseteq CommandsOf(th[x].todo)
         /\ \/ CommandsOf(th[x].todo) \subseteq {Head(th[x].todo), Push} \cup CommandsOf(th'[x].todo)
            \/ th[x].pc \in {"listing", "booting"} /\ Head(th[x].todo) \in Seeks
         /\ Head(th[x].todo) = Unlock => th'[x].todo = <<>>
<1> DEFINE t == th[x].task
           s == th[x].todo
           skip == Head(s)[1] = "enlist" /\ t \in member["waitingSet"]
           found == Head(s)[1] = "seek" /\ t \in member[Head(s)[2]]
           todo == IF found THEN <<>> ELSE IF skip THEN Tail(Tail(s)) ELSE Tail(s)
           r == IF todo = <<>> /\ th[x].pc = "idle" THEN At("idle") ELSE [th[x] EXCEPT !.todo = todo]
<1>1. s # <<>> /\ Become(x, r)
  BY DEF Execute
<1>2. th \in [Threads -> Thread] /\ ThreadOK(x, th[x]) /\ s \in Scripts /\ t \in Tasks
  BY <1>1 DEF Typed, TypeOK, ThreadsOK, ThreadOK
<1> HIDE DEF s, t
<1>3. /\ Head(s) \in Commands /\ Head(s) \in CommandsOf(s)
      /\ Tail(s) \in Scripts
      /\ CommandsOf(s) = {Head(s)} \cup CommandsOf(Tail(s))
      /\ Head(s) = Enlist => Tail(s) # <<>> /\ Head(Tail(s)) = Push
      /\ Head(s) = Unlock => Tail(s) = <<>>
  BY <1>1, <1>2, TailOfScript
<1>4. /\ skip => Head(s) = Enlist
      /\ found => Head(s) \in Seeks
  BY <1>3 DEF Commands, Add, Remove, Seek, Seeks, Enlist, Push, Unlock, Forget, Bury
<1>5. ASSUME skip
      PROVE  Tail(Tail(s)) \in Scripts /\ CommandsOf(Tail(s)) = {Push} \cup CommandsOf(Tail(Tail(s)))
  BY <1>3, <1>4, <1>5, TailOfScript
<1>6. /\ todo \in Scripts
      /\ CommandsOf(todo) \subseteq CommandsOf(s)
      /\ ~found => CommandsOf(s) \subseteq {Head(s), Push} \cup CommandsOf(todo)
  BY <1>3, <1>5, NothingToDo
<1>7. Head(s) = Unlock => ~skip /\ ~found
  BY <1>4 DEF Enlist, Unlock, Seeks, Seek
<1>13. found => th[x].pc \in {"listing", "booting"} /\ Head(s) \in Seeks
  BY <1>2, <1>3, <1>4 DEF ThreadOK, s
<1>8. Head(s) = Unlock => todo = <<>>
  BY <1>3, <1>7
<1> HIDE DEF skip, found, todo
<1>9. r \in Thread /\ r.todo = todo
  <2>1. At("idle") \in Thread /\ At("idle").todo = <<>>
    BY Restarted DEF Labels
  <2>2. th[x] \in Thread /\ todo \in Seq(Commands)
    BY <1>2, <1>6 DEF Scripts
  <2>3. [th[x] EXCEPT !.todo = todo] \in Thread /\ [th[x] EXCEPT !.todo = todo].todo = todo
    BY <2>2 DEF Thread
  <2> QED BY <2>1, <2>3
<1>10. th' \in [Threads -> Thread] /\ th'[x] = r /\ \A y \in Threads \ {x} : th'[y] = th[y]
  BY <1>1, <1>2, <1>9, Becoming
<1>11. th'[x].todo = todo
  BY <1>9, <1>10
<1>12. \/ th[x].pc = "idle" /\ th'[x] = At("idle")
       \/ th'[x] = [th[x] EXCEPT !.todo = th'[x].todo]
  BY <1>10, <1>11
<1> QED BY <1>1, <1>2, <1>3, <1>6, <1>8, <1>10, <1>11, <1>12, <1>13 DEF s, t

\* Execute keeps the types.
LEMMA ExecuteTyped ==
  ASSUME Typed, NEW x \in Threads, Execute(x)
  PROVE  Typed'
<1> DEFINE t == th[x].task
           command == Head(th[x].todo)
<1> USE DEF Typed, TypeOK
<1>1. th' \in [Threads -> Thread] /\ t \in Tasks /\ command \in Commands
  BY Executed
<1>2. /\ member' \in [Sets -> SUBSET Tasks]
      /\ due' \subseteq member'["delayed"] /\ stale' \subseteq member'["started"]
  <2>1. /\ member' = IF command[1] \in {"add", "enlist"} THEN [member EXCEPT ![command[2]] = @ \cup {t}]
                     ELSE IF command[1] = "remove" THEN [member EXCEPT ![command[2]] = @ \ {t}]
                     ELSE member
        /\ due' = IF command[2] = "delayed" THEN due \ {t} ELSE due
        /\ stale' = IF command[2] = "started" THEN stale \ {t} ELSE stale
    BY DEF Execute
  <2>2. command[1] \in {"add", "enlist", "remove"} => command[2] \in Sets
    BY <1>1 DEF Commands, Add, Remove, Seek, Enlist, Push, Unlock, Forget, Bury, Sets
  <2> HIDE DEF t, command
  <2>3. member \in [Sets -> SUBSET Tasks] /\ due \subseteq member["delayed"] /\ stale \subseteq member["started"]
        /\ "delayed" \in Sets /\ "started" \in Sets
    BY DEF Sets
  <2> QED BY <1>1, <2>1, <2>2, <2>3
<1>3. waiting' \in Seq(Tasks)
  <2>1. waiting' = <<t>> \o waiting \/ waiting' = waiting
    BY DEF Execute
  <2>2. <<t>> \o waiting \in Seq(Tasks)
    BY <1>1, SMT
  <2> QED BY <2>1, <2>2
<1>4. lock' \in [Tasks -> Workers \cup {Free}] /\ attempts' \in [Tasks -> Nat] /\ dead' \subseteq Tasks
  BY <1>1 DEF Execute
<1>5. ThreadsOK'
  <2>1. ASSUME NEW y \in Threads
        PROVE  ThreadOK(y, th'[y])
    <3>1. CASE y # x
      BY <3>1, Executed DEF ThreadsOK
    <3>2. CASE y = x /\ th[x].pc = "idle" /\ th'[x] = At("idle")
      <4>1. ThreadOK(x, th[x])
        BY DEF ThreadsOK
      <4> QED BY <3>2, <4>1, RestartedOK DEF ThreadOK, Labels
    <3>3. CASE y = x /\ th'[x] = [th[x] EXCEPT !.todo = th'[x].todo]
      <4>1. ThreadOK(x, th[x]) /\ th[x] \in Thread
        BY DEF ThreadsOK
      <4>2. /\ th'[x].pc = th[x].pc /\ th'[x].task = th[x].task /\ th'[x].locked = th[x].locked
            /\ th'[x].fresh = th[x].fresh
        BY <3>3, <4>1 DEF Thread
      <4>3. /\ th[x].todo # <<>>
            /\ th'[x].todo \in Scripts
            /\ CommandsOf(th'[x].todo) \subseteq CommandsOf(th[x].todo)
        BY Executed
      <4> QED BY <3>3, <4>1, <4>2, <4>3, <1>1 DEF ThreadOK
    <3> QED BY <3>1, <3>2, <3>3, Executed
  <2> QED BY <2>1 DEF ThreadsOK
<1>6. status' = status /\ crashes' = crashes /\ errors' = errors /\ beats' = beats
  BY DEF Execute, outside
<1> QED BY <1>1, <1>2, <1>3, <1>4, <1>5, <1>6

\* A thread that becomes another sound one keeps the types, if nothing else changes.
LEMMA MoveTyped ==
  ASSUME Typed, NEW x \in Threads, NEW r \in Thread, ThreadOK(x, r), Become(x, r),
         status' \in [Tasks -> Statuses],
         UNCHANGED <<redis, outside>>
  PROVE  Typed'
<1>1. th' \in [Threads -> Thread] /\ ThreadsOK'
  BY BecomingOK DEF Typed, TypeOK
<1> QED BY <1>1 DEF Typed, TypeOK, redis, outside

\* The fields of a thread that goes on with its task.
LEMMA GoingOn ==
  ASSUME NEW r \in Thread, NEW label \in Labels, NEW s \in Scripts
  PROVE  /\ [r EXCEPT !.pc = label] \in Thread
         /\ [r EXCEPT !.pc = label, !.todo = s] \in Thread
         /\ [r EXCEPT !.pc = label, !.todo = s].todo = s
         /\ [r EXCEPT !.pc = label, !.todo = s].pc = label
         /\ [r EXCEPT !.pc = label, !.todo = s].task = r.task
         /\ [r EXCEPT !.pc = label, !.todo = s].locked = r.locked
         /\ [r EXCEPT !.pc = label, !.todo = s].fresh = r.fresh
         /\ [r EXCEPT !.pc = label].todo = r.todo
         /\ [r EXCEPT !.pc = label].pc = label
         /\ [r EXCEPT !.pc = label].task = r.task
         /\ [r EXCEPT !.pc = label].locked = r.locked
         /\ [r EXCEPT !.pc = label].fresh = r.fresh
BY DEF Thread, Scripts

\* A thread that starts on a task.
LEMMA Starting ==
  ASSUME NEW t \in Tasks, NEW label \in Labels
  PROVE  /\ [At(label) EXCEPT !.task = t] \in Thread
         /\ [At(label) EXCEPT !.task = t].pc = label
         /\ [At(label) EXCEPT !.task = t].task = t
         /\ [At(label) EXCEPT !.task = t].todo = <<>>
         /\ ~[At(label) EXCEPT !.task = t].locked
         /\ [At(label) EXCEPT !.task = t].rest = {}
         /\ \A s \in Scripts :
              /\ [At(label) EXCEPT !.task = t, !.todo = s] \in Thread
              /\ [At(label) EXCEPT !.task = t, !.todo = s].pc = label
              /\ [At(label) EXCEPT !.task = t, !.todo = s].task = t
              /\ [At(label) EXCEPT !.task = t, !.todo = s].todo = s
              /\ ~[At(label) EXCEPT !.task = t, !.todo = s].locked
              /\ [At(label) EXCEPT !.task = t, !.todo = s].rest = {}
<1>1. <<>> \in Seq(Commands) /\ {} \in SUBSET (Tasks \X Statuses)
  BY SMT
<1> QED BY <1>1 DEF At, Thread, Scripts

\* And has no script yet.
LEMMA StartingAlone ==
  ASSUME NEW t \in Tasks, NEW label \in Labels, NEW r, r = [At(label) EXCEPT !.task = t]
  PROVE  r \in Thread /\ r.pc = label /\ r.task = t /\ r.todo = <<>> /\ ~r.locked
<1>1. <<>> \in Seq(Commands) /\ {} \in SUBSET (Tasks \X Statuses)
  BY SMT
<1> QED BY <1>1 DEF At, Thread

\* CreateTask and RepeatRequest keep the types.
LEMMA ArriveTyped ==
  ASSUME Typed, NEW c \in Clients, NEW t \in Tasks, Arrive(c, t)
  PROVE  Typed'
<1>1. c \in Threads /\ c \notin Instances /\ c \notin Workers
  BY QueueAssumption DEF Threads
<1>2. CASE CreateTask(c, t) /\ t \notin SyncTasks
  <2>0. t \notin SyncTasks
    BY <1>2
  <2> DEFINE r == [At("admitting") EXCEPT !.task = t, !.fresh = TRUE]
  <2>1. r \in Thread /\ r.pc = "admitting" /\ r.task = t /\ r.todo = <<>> /\ ~r.locked /\ r.fresh
    <3>1. <<>> \in Seq(Commands) /\ {} \in SUBSET (Tasks \X Statuses)
      BY SMT
    <3> QED BY <3>1 DEF At, Thread, Labels
  <2> HIDE DEF r
  <2>2. ThreadOK(c, r)
    BY <1>1, <2>1, NothingToDo DEF ThreadOK, ClientLabels
  <2>3. Become(c, r) /\ status' \in [Tasks -> Statuses] /\ UNCHANGED <<redis, outside>>
    BY <1>2, <2>0 DEF CreateTask, r, Typed, TypeOK, Statuses, Pending
  <2> QED BY <1>1, <2>1, <2>2, <2>3, MoveTyped
<1>4. CASE CreateTask(c, t) /\ t \in SyncTasks
  <2> DEFINE r == [At("generating") EXCEPT !.task = t]
  <2>1. r \in Thread /\ r.pc = "generating" /\ r.task = t /\ r.todo = <<>> /\ ~r.locked
    <3>1. "generating" \in Labels
      BY DEF Labels
    <3> QED BY <3>1, StartingAlone DEF r
  <2> HIDE DEF r
  <2>2. ThreadOK(c, r)
    BY <1>1, <1>4, <2>1, NothingToDo DEF ThreadOK, ClientLabels
  <2>3. Become(c, r) /\ status' \in [Tasks -> Statuses] /\ UNCHANGED <<redis, outside>>
    BY <1>4 DEF CreateTask, Start, r, Typed, TypeOK, Statuses, Pending
  <2> QED BY <1>1, <2>1, <2>2, <2>3, MoveTyped
<1>3. CASE RepeatRequest(c, t)
  <2> DEFINE r == [At("enqueueing") EXCEPT !.task = t]
  <2>1. r \in Thread /\ r.pc = "enqueueing" /\ r.task = t /\ r.todo = <<>> /\ ~r.locked
    <3>1. "enqueueing" \in Labels
      BY DEF Labels
    <3> QED BY <3>1, StartingAlone DEF r
  <2> HIDE DEF r
  <2>2. ThreadOK(c, r)
    BY <1>1, <2>1, NothingToDo DEF ThreadOK, ClientLabels
  <2>3. Become(c, r) /\ status' \in [Tasks -> Statuses] /\ UNCHANGED <<redis, outside>>
    BY <1>3 DEF RepeatRequest, Start, r, Typed, TypeOK
  <2> QED BY <1>1, <2>1, <2>2, <2>3, MoveTyped
<1> QED BY <1>2, <1>3, <1>4 DEF Arrive

\* failTask keeps the type of the rows.
LEMMA FailTaskTyped ==
  ASSUME status \in [Tasks -> Statuses], NEW t \in Tasks, FailTask(t)
  PROVE  status' \in [Tasks -> Statuses]
BY DEF FailTask, Statuses, Terminal

\* The steps of a client keep the types.
LEMMA ClientTyped ==
  ASSUME Typed, NEW c \in Clients, ClientStep(c)
  PROVE  Typed'
<1>1. c \in Threads /\ c \notin Instances /\ c \notin Workers
  BY QueueAssumption DEF Threads
<1>2. th[c] \in Thread /\ ThreadOK(c, th[c]) /\ status \in [Tasks -> Statuses]
  BY <1>1 DEF Typed, TypeOK, ThreadsOK
<1>3. At("idle") \in Thread /\ ThreadOK(c, At("idle"))
  BY <1>1, RestartedOK DEF ClientLabels
<1>4. CASE Admit(c) \/ Overloaded(c)
  <2> PICK label \in {"enqueueing", "refusing"} :
        /\ Become(c, [th[c] EXCEPT !.pc = label]) /\ UNCHANGED <<status, redis, outside>>
        /\ Ready(c, "admitting")
    BY <1>4 DEF Admit, Overloaded, Goto
  <2> DEFINE r == [th[c] EXCEPT !.pc = label]
  <2>1. /\ r \in Thread /\ r.pc = label /\ r.task = th[c].task /\ r.todo = th[c].todo
        /\ r.locked = th[c].locked /\ r.fresh = th[c].fresh
    <3>1. label \in Labels
      BY DEF Labels
    <3>2. th[c] \in Thread
      BY <1>2
    <3> QED BY <3>1, <3>2 DEF Thread
  <2> HIDE DEF r
  <2>2. ThreadOK(c, r)
    BY <1>1, <1>2, <2>1, NothingToDo DEF ThreadOK, ClientLabels, Ready, OnTask, AfterLock
  <2> QED BY <1>1, <1>2, <2>1, <2>2, MoveTyped DEF r
<1>5. CASE Enqueue(c)
  <2> DEFINE t == th[c].task
             r == IF t \in member["queued"] THEN [th[c] EXCEPT !.pc = "checking"] ELSE At("idle")
  <2>1. t \in Tasks /\ Ready(c, "enqueueing") /\ Become(c, r)
    BY <1>2, <1>5 DEF Enqueue, ThreadOK, Ready, OnTask, ClientLabels
  <2>2. r \in Thread /\ ThreadOK(c, r)
    <3> DEFINE q == [th[c] EXCEPT !.pc = "checking"]
    <3>1. /\ q \in Thread /\ q.pc = "checking" /\ q.task = th[c].task /\ q.todo = th[c].todo
          /\ q.locked = th[c].locked /\ q.fresh = th[c].fresh
      <4>1. "checking" \in Labels
        BY DEF Labels
      <4> QED BY <1>2, <4>1, GoingOn, NothingToDo
    <3> HIDE DEF q
    <3>2. ThreadOK(c, q)
      BY <1>1, <1>2, <2>1, <3>1, NothingToDo DEF ThreadOK, ClientLabels, Ready, OnTask, AfterLock
    <3> QED BY <1>3, <3>1, <3>2 DEF q
  <2> HIDE DEF r
  <2>3. th' \in [Threads -> Thread] /\ ThreadsOK'
    BY <1>1, <2>1, <2>2, BecomingOK DEF Typed, TypeOK
  <2>4. member' \in [Sets -> SUBSET Tasks] /\ waiting' \in Seq(Tasks)
        /\ member'["delayed"] = member["delayed"] /\ member'["started"] = member["started"]
    <3> HIDE DEF t
    <3>1. <<t>> \o waiting \in Seq(Tasks)
      BY <2>1, SMT DEF Typed, TypeOK
    <3>2. CASE t \in member["queued"]
      BY <1>5, <3>2 DEF Enqueue, Script, Typed, TypeOK, t
    <3>3. CASE t \notin member["queued"]
      <4>1. /\ member' = [member EXCEPT !["queued"] = @ \cup {t}, !["waitingSet"] = @ \cup {t}]
            /\ waiting' = <<t>> \o waiting
        BY <1>5, <3>3 DEF Enqueue, Script, t
      <4>2. member \in [Sets -> SUBSET Tasks] 
            /\ {"queued", "waitingSet", "delayed", "started"} \subseteq Sets
        BY DEF Typed, TypeOK, Sets
      <4>3. member' \in [Sets -> SUBSET Tasks]
        BY <2>1, <4>1, <4>2
      <4>4. member'["delayed"] = member["delayed"] /\ member'["started"] = member["started"]
        BY <4>1, <4>2
      <4> QED BY <3>1, <4>1, <4>3, <4>4
    <3> QED BY <3>2, <3>3
  <2> QED BY <1>5, <2>3, <2>4 DEF Enqueue, Typed, TypeOK, outside
<1>6. CASE CheckQueued(c)
  <2>1. Ready(c, "checking") /\ UNCHANGED <<status, redis, outside>>
    BY <1>6 DEF CheckQueued
  <2>2. PICK s \in {HasPendingQueueState, ForceWaiting} : Then(c, "listing", s)
    BY <1>6 DEF CheckQueued
  <2>3. s \in Scripts /\ CommandsOf(s) \cap {Unlock, Add("active"), Add("started")} = {}
    BY Procedures, JoinedProcedures DEF Add, Remove, Seeks, Seek, Unlock, Enlist, Push
  <2> DEFINE r == [th[c] EXCEPT !.pc = "listing", !.todo = s]
  <2>4. /\ r \in Thread /\ r.pc = "listing" /\ r.task = th[c].task /\ r.todo = s
        /\ r.locked = th[c].locked
    <3>1. "listing" \in Labels
      BY DEF Labels
    <3> QED BY <1>2, <2>3, <3>1 DEF Thread, Scripts
  <2>5. Become(c, r)
    BY <2>2 DEF Then
  <2> HIDE DEF r
  <2>6. ThreadOK(c, r)
    <3>1. "checking" \in OnTask /\ "checking" \notin AfterLock
      BY DEF OnTask, ClientLabels, AfterLock
    <3> QED BY <1>1, <1>2, <2>1, <2>3, <2>4, <3>1 DEF ThreadOK, ClientLabels, Ready
  <2> QED BY <1>1, <1>2, <2>1, <2>4, <2>5, <2>6, MoveTyped
<1>7. CASE Listed(c)
  BY <1>1, <1>2, <1>3, <1>7, MoveTyped DEF Listed
<1>8. CASE Refuse(c)
  <2>1. th[c].task \in Tasks
    BY <1>2, <1>8 DEF Refuse, Ready, ThreadOK, OnTask, ClientLabels
  <2>2. status' \in [Tasks -> Statuses]
    BY <1>2, <1>8, <2>1, FailTaskTyped DEF Refuse
  <2> QED BY <1>1, <1>3, <1>8, <2>2, MoveTyped DEF Refuse
<1>9. CASE ClaimInRequest(c) \/ EndInRequest(c)
  <2>1. /\ th[c].pc \in {"generating", "calling"} /\ th[c].todo = <<>> /\ th[c].task \in Tasks
        /\ th[c].task \in SyncTasks /\ UNCHANGED <<redis, outside>>
    BY <1>2, <1>9 DEF ClaimInRequest, EndInRequest, Ready, ThreadOK, OnTask, ClientLabels
  <2>2. status' \in [Tasks -> Statuses]
    <3>1. \/ status' \in {status, [status EXCEPT ![th[c].task] = "processing"],
                          [status EXCEPT ![th[c].task] = "success"]}
          \/ FailTask(th[c].task)
      BY <1>9 DEF ClaimInRequest, EndInRequest
    <3> QED BY <1>2, <2>1, <3>1, FailTaskTyped DEF Statuses, Pending, Terminal
  <2>3. CASE Become(c, At("idle"))
    BY <1>1, <1>3, <2>1, <2>2, <2>3, MoveTyped
  <2>4. CASE Goto(c, "calling")
    <3> DEFINE r == [th[c] EXCEPT !.pc = "calling"]
    <3>1. /\ r \in Thread /\ r.pc = "calling" /\ r.task = th[c].task /\ r.todo = th[c].todo
          /\ r.locked = th[c].locked /\ r.fresh = th[c].fresh
      <4>1. "calling" \in Labels
        BY DEF Labels
      <4> QED BY <1>2, <4>1, GoingOn, NothingToDo
    <3>2. Become(c, r)
      BY <2>4 DEF Goto
    <3> HIDE DEF r
    <3>3. ThreadOK(c, r)
      BY <1>1, <1>2, <2>1, <3>1, NothingToDo DEF ThreadOK, ClientLabels, AfterLock
    <3> QED BY <1>1, <2>1, <2>2, <3>1, <3>2, <3>3, MoveTyped
  <2> QED BY <1>9, <2>3, <2>4 DEF ClaimInRequest, EndInRequest
<1> QED BY <1>4, <1>5, <1>6, <1>7, <1>8, <1>9 DEF ClientStep

\* What no procedure but HoldTask and the finally block does.
Quiet(s) ==
  /\ s \in Scripts
  /\ CommandsOf(s) \cap {Unlock, Add("active"), Add("started")} = {}
  /\ CommandsOf(s) \cap Seeks = {}

\* The quiet procedures.
LEMMA QuietProcedures ==
  /\ Quiet(<<>>) /\ Quiet(<<Remove("waitingSet")>>) /\ Quiet(ClearActive)
  /\ Quiet(ForceWaiting) /\ Quiet(ReleaseQueueMembership) /\ Quiet(ScheduleRetry)
  /\ Quiet(ListAgain) /\ Quiet(MoveToDead) /\ Quiet(<<Forget>> \o ReleaseQueueMembership)
  /\ Quiet(ClearActive \o ForceWaiting) /\ Quiet(ClearActive \o ReleaseQueueMembership)
<1>1. Quiet(<<>>) /\ Quiet(<<Remove("waitingSet")>>) /\ Quiet(ClearActive)
  BY NothingToDo, Procedures DEF Quiet, Seeks, Seek, Unlock, Add, Remove
<1>2. Quiet(ForceWaiting) /\ Quiet(ReleaseQueueMembership)
  BY Procedures DEF Quiet, Seeks, Seek, Unlock, Add, Remove, Enlist, Push
<1>3. Quiet(ScheduleRetry) /\ Quiet(ListAgain)
  BY Procedures DEF Quiet, Seeks, Seek, Unlock, Add, Remove, Push
<1>4. Quiet(MoveToDead) /\ Quiet(<<Forget>> \o ReleaseQueueMembership)
  BY JoinedProcedures DEF Quiet, Seeks, Seek, Unlock, Add, Remove, Forget, Bury
<1>5. Quiet(ClearActive \o ForceWaiting) /\ Quiet(ClearActive \o ReleaseQueueMembership)
  BY JoinedProcedures DEF Quiet, Seeks, Seek, Unlock, Add, Remove, Enlist, Push
<1> QED BY <1>1, <1>2, <1>3, <1>4, <1>5

\* The steps of an instance keep the types.
LEMMA InstanceTyped ==
  ASSUME Typed, NEW i \in Instances, InstanceStep(i)
  PROVE  Typed'
<1>1. i \in Threads /\ i \notin Clients /\ i \notin Workers
  BY QueueAssumption DEF Threads
<1>2. th[i] \in Thread /\ ThreadOK(i, th[i]) /\ status \in [Tasks -> Statuses]
  BY <1>1 DEF Typed, TypeOK, ThreadsOK
<1>3. CASE Boot(i)
  <2>1. ASSUME NEW x \in Threads
        PROVE  th'[x] \in Thread /\ ThreadOK(x, th'[x])
    <3>1. x = i \/ x \in Clients \/ th'[x] = th[x]
      BY <1>3 DEF Boot
    <3>2. CASE th'[x] = th[x]
      BY <3>2 DEF Typed, TypeOK, ThreadsOK
    <3>3. CASE x = i /\ th'[x] = At("starting")
      BY <1>1, <3>3, RestartedOK DEF InstanceLabels
    <3>4. CASE x \in Clients /\ th'[x] = At("idle")
      BY <3>4, RestartedOK, QueueAssumption DEF ClientLabels
    <3> QED BY <1>3, <3>2, <3>3, <3>4 DEF Boot
  <2>2. th' \in [Threads -> Thread] /\ ThreadsOK'
    BY <1>3, <2>1 DEF Boot, ThreadsOK
  <2> QED BY <1>3, <2>2 DEF Boot, Typed, TypeOK, redis, outside
<1>6. CASE PendingTasks(i)
  <2> DEFINE rows == {<<t, status[t]>> : t \in {s \in Tasks : status[s] \in Pending}}
             r == [At("booting") EXCEPT !.rest = rows]
  <2>1. rows \in SUBSET (Tasks \X Statuses)
    BY <1>2
  <2> HIDE DEF rows
  <2>2. r \in Thread /\ r.pc = "booting" /\ r.todo = <<>> /\ ~r.locked
    <3>1. <<>> \in Seq(Commands)
      BY SMT
    <3> QED BY <2>1, <3>1 DEF At, Thread, Labels
  <2> HIDE DEF r
  <2>3. ThreadOK(i, r)
    BY <1>1, <2>2, NothingToDo DEF ThreadOK, InstanceLabels, OnTask, ClientLabels, WorkerLabels
  <2>4. Become(i, r) /\ UNCHANGED <<status, redis, outside>>
    BY <1>6 DEF PendingTasks, r, rows
  <2> QED BY <1>1, <1>2, <2>2, <2>3, <2>4, MoveTyped
<1>4. CASE RecoverPendingTask(i)
  <2>1. PICK row \in th[i].rest,
             s \in {ClearActive \o ForceWaiting, HasPendingQueueState, ForceWaiting} :
          /\ Ready(i, "booting")
          /\ status' \in {status, [status EXCEPT ![row[1]] = "queued"]}
          /\ Become(i, [th[i] EXCEPT !.rest = @ \ {row}, !.task = row[1], !.todo = s])
          /\ UNCHANGED <<redis, outside>>
    <3>1. PICK row \in th[i].rest :
            LET t == row[1]
                requeued == row[2] = "processing" /\ status[t] = "processing" IN
            /\ status' = IF requeued THEN [status EXCEPT ![t] = "queued"] ELSE status
            /\ Become(i, [th[i] EXCEPT
                 !.rest = @ \ {row},
                 !.task = t,
                 !.todo = IF requeued THEN ClearActive \o ForceWaiting
                          ELSE IF t \in member["queued"] THEN HasPendingQueueState
                          ELSE ForceWaiting])
      BY <1>4 DEF RecoverPendingTask
    <3> DEFINE requeued == row[2] = "processing" /\ status[row[1]] = "processing"
               s == IF requeued THEN ClearActive \o ForceWaiting
                    ELSE IF row[1] \in member["queued"] THEN HasPendingQueueState
                    ELSE ForceWaiting
    <3>2. /\ status' \in {status, [status EXCEPT ![row[1]] = "queued"]}
          /\ Become(i, [th[i] EXCEPT !.rest = @ \ {row}, !.task = row[1], !.todo = s])
      BY <3>1
    <3>3. s \in {ClearActive \o ForceWaiting, HasPendingQueueState, ForceWaiting}
      OBVIOUS
    <3> HIDE DEF s
    <3>4. Ready(i, "booting") /\ UNCHANGED <<redis, outside>>
      BY <1>4 DEF RecoverPendingTask
    <3> QED BY <3>2, <3>3, <3>4
  <2> DEFINE r == [th[i] EXCEPT !.rest = @ \ {row}, !.task = row[1], !.todo = s]
  <2>2. /\ row[1] \in Tasks /\ s \in Scripts
        /\ CommandsOf(s) \cap {Unlock, Add("active"), Add("started")} = {}
    <3>1. row[1] \in Tasks
      BY <1>2 DEF Thread
    <3>2. CASE s = HasPendingQueueState
      BY <3>1, <3>2, Procedures, JoinedProcedures DEF Add, Remove, Seeks, Seek, Unlock, Enlist, Push
    <3>3. CASE s \in {ClearActive \o ForceWaiting, ForceWaiting}
      BY <3>1, <3>3, QuietProcedures DEF Quiet
    <3> QED BY <3>2, <3>3
  <2>3. r \in Thread /\ r.pc = th[i].pc /\ r.task = row[1] /\ r.todo = s /\ r.locked = th[i].locked
    BY <1>2, <2>2 DEF Thread, Scripts
  <2> HIDE DEF r
  <2>4. "booting" \notin AfterLock /\ "booting" \notin OnTask /\ "booting" \in InstanceLabels
    BY DEF AfterLock, OnTask, ClientLabels, WorkerLabels, InstanceLabels
  <2>5. ThreadOK(i, r)
    BY <1>1, <1>2, <2>1, <2>2, <2>3, <2>4 DEF ThreadOK, Ready
  <2>6. status' \in [Tasks -> Statuses]
    BY <1>2, <2>1, <2>2 DEF Statuses, Pending
  <2> QED BY <1>1, <2>1, <2>3, <2>5, <2>6, MoveTyped DEF r
<1>5. CASE StartWorkers(i)
  <2>1. ASSUME NEW x \in Threads
        PROVE  th'[x] \in Thread /\ ThreadOK(x, th'[x])
    <3>1. x = i \/ x \in Workers \/ th'[x] = th[x]
      BY <1>5 DEF StartWorkers
    <3>2. CASE th'[x] = th[x]
      BY <3>2 DEF Typed, TypeOK, ThreadsOK
    <3>3. CASE x = i /\ th'[x] = At("up")
      BY <1>1, <3>3, RestartedOK DEF InstanceLabels
    <3>4. CASE x \in Workers /\ th'[x] = At("idle")
      BY <3>4, RestartedOK, QueueAssumption DEF WorkerLabels
    <3> QED BY <1>5, <3>2, <3>3, <3>4 DEF StartWorkers
  <2>2. th' \in [Threads -> Thread] /\ ThreadsOK'
    BY <1>5, <2>1 DEF StartWorkers, ThreadsOK
  <2> QED BY <1>5, <2>2 DEF StartWorkers, Typed, TypeOK, redis, outside
<1> QED BY <1>3, <1>4, <1>5, <1>6 DEF InstanceStep

\* A worker that goes on with its task, from one label of its loop to another.
LEMMA WorkerGoesOn ==
  ASSUME Typed, NEW w \in Workers, th[w].task \in Tasks,
         NEW label \in WorkerLabels, label \notin {"down", "gone"}, NEW s \in Scripts,
         label \in {"loaded", "working"} => s = <<>>,
         label \in {"held", "loaded", "working", "settling"} => th[w].locked,
         th[w].locked => label \in AfterLock,
         Unlock \in CommandsOf(s) => label = "releasing" /\ th[w].locked,
         Add("active") \in CommandsOf(s) \/ Add("started") \in CommandsOf(s) => label = "held",
         CommandsOf(s) \cap Seeks = {}
  PROVE  /\ [th[w] EXCEPT !.pc = label, !.todo = s] \in Thread
         /\ ThreadOK(w, [th[w] EXCEPT !.pc = label, !.todo = s])
<1>1. w \in Threads /\ w \notin Instances /\ w \notin Clients
  BY QueueAssumption DEF Threads
<1>2. th[w] \in Thread /\ label \in Labels
  BY <1>1 DEF Typed, TypeOK, WorkerLabels, Labels
<1> DEFINE r == [th[w] EXCEPT !.pc = label, !.todo = s]
<1>3. r \in Thread /\ r.pc = label /\ r.todo = s /\ r.task = th[w].task /\ r.locked = th[w].locked
  BY <1>2 DEF Thread, Scripts
<1> HIDE DEF r
<1>4. label \notin {"starting", "up", "admitting", "refusing", "generating", "calling"}
  BY DEF WorkerLabels
<1>5. ThreadOK(w, r)
  BY <1>1, <1>3, <1>4 DEF ThreadOK
<1> QED BY <1>3, <1>5 DEF r

\* Then as a step of a worker.
LEMMA ThenTyped ==
  ASSUME Typed, NEW w \in Workers, th[w].pc \in OnTask,
         NEW label \in WorkerLabels, label \notin {"down", "gone", "held", "loaded", "working"},
         NEW s, Quiet(s),
         label = "settling" => th[w].locked,
         th[w].locked => label \in AfterLock,
         Then(w, label, s),
         status' \in [Tasks -> Statuses],
         UNCHANGED <<redis, outside>>
  PROVE  Typed'
<1>1. w \in Threads /\ ThreadOK(w, th[w])
  BY DEF Threads, Typed, ThreadsOK
<1>2. th[w].task \in Tasks /\ s \in Scripts
  BY <1>1 DEF ThreadOK, Quiet
<1> DEFINE r == [th[w] EXCEPT !.pc = label, !.todo = s]
<1>3. r \in Thread /\ ThreadOK(w, r)
  BY <1>2, WorkerGoesOn DEF Quiet
<1>4. Become(w, r)
  BY DEF Then
<1> HIDE DEF r
<1> QED BY <1>1, <1>3, <1>4, MoveTyped

\* Goto as a step of a worker that has run its script.
LEMMA GotoTyped ==
  ASSUME Typed, NEW w \in Workers, th[w].pc \in OnTask, th[w].todo = <<>>,
         NEW label \in WorkerLabels, label \notin {"down", "gone"},
         label \in {"held", "loaded", "working", "settling"} => th[w].locked,
         th[w].locked => label \in AfterLock,
         Goto(w, label),
         status' \in [Tasks -> Statuses],
         UNCHANGED <<redis, outside>>
  PROVE  Typed'
<1>1. w \in Threads /\ th[w] \in Thread /\ ThreadOK(w, th[w])
  BY DEF Threads, Typed, TypeOK, ThreadsOK
<1>2. th[w].task \in Tasks /\ <<>> \in Scripts /\ CommandsOf(<<>>) = {}
  BY <1>1, NothingToDo DEF ThreadOK
<1> DEFINE r == [th[w] EXCEPT !.pc = label, !.todo = <<>>]
<1>3. r \in Thread /\ ThreadOK(w, r)
  BY <1>2, WorkerGoesOn
<1>4. [th[w] EXCEPT !.pc = label] = r
  BY <1>1 DEF Thread
<1>5. Become(w, r)
  BY <1>4 DEF Goto
<1> HIDE DEF r
<1> QED BY <1>1, <1>3, <1>5, MoveTyped

\* What processOnce makes of a row, or of an exception.
LEMMA SettleTyped ==
  ASSUME Typed, NEW w \in Workers, th[w].pc \in {"held", "loaded", "working"},
         Succeeded(w) \/ Retried(w) \/ Failed(w) \/ Skipped(w),
         status' \in [Tasks -> Statuses],
         UNCHANGED <<redis, outside>>
  PROVE  Typed'
<1>1. PICK s \in {<<Forget>> \o ReleaseQueueMembership, ScheduleRetry, MoveToDead} :
        Then(w, "settling", s)
  BY DEF Succeeded, Retried, Failed, Skipped, Settle
<1>2. Quiet(s)
  BY QuietProcedures
<1>3. w \in Threads /\ ThreadOK(w, th[w])
  BY DEF Threads, Typed, ThreadsOK
<1>4. th[w].locked
  BY <1>3 DEF ThreadOK
<1>5. th[w].pc \in OnTask /\ "settling" \in WorkerLabels /\ "settling" \in AfterLock
  BY DEF OnTask, WorkerLabels, AfterLock
<1> QED BY <1>1, <1>2, <1>4, <1>5, ThenTyped

\* The steps of a worker up to the lock keep the types.
LEMMA FindTyped ==
  ASSUME Typed, NEW w \in Workers, NEW t \in Tasks,
         \/ ReleaseDueDelayed(w, t)
         \/ RecoverStalledActive(w, t)
         \/ RequeueStalled(w)
         \/ Pop(w)
         \/ CheckPopped(w)
         \/ TryLock(w)
         \/ Postpone(w)
  PROVE  Typed'
<1>1. w \in Threads /\ w \notin Instances /\ w \notin Clients
  BY QueueAssumption DEF Threads
<1>2. th[w] \in Thread /\ ThreadOK(w, th[w]) /\ status \in [Tasks -> Statuses]
  BY <1>1 DEF Typed, TypeOK, ThreadsOK
<1>3. At("idle") \in Thread /\ ThreadOK(w, At("idle"))
  BY <1>1, RestartedOK DEF WorkerLabels
<1>4. ASSUME NEW u \in Tasks, NEW s, Quiet(s)
      PROVE  /\ [At("idle") EXCEPT !.task = u, !.todo = s] \in Thread
             /\ ThreadOK(w, [At("idle") EXCEPT !.task = u, !.todo = s])
  <2> DEFINE r == [At("idle") EXCEPT !.task = u, !.todo = s]
  <2>1. "idle" \in Labels /\ s \in Scripts /\ {} \in SUBSET (Tasks \X Statuses)
    BY <1>4 DEF Labels, Quiet
  <2>2. r \in Thread /\ r.pc = "idle" /\ r.task = u /\ r.todo = s /\ ~r.locked
    BY <1>4, <2>1 DEF At, Thread, Scripts
  <2> HIDE DEF r
  <2>3. ThreadOK(w, r)
    BY <1>1, <1>4, <2>1, <2>2 DEF ThreadOK, WorkerLabels, Quiet
  <2> QED BY <2>2, <2>3 DEF r
<1>5. CASE ReleaseDueDelayed(w, t)
  <2>1. th' \in [Threads -> Thread] /\ ThreadsOK'
    <3>1. CASE UNCHANGED th
      BY <3>1 DEF Typed, TypeOK, ThreadsOK
    <3>2. CASE Become(w, [At("idle") EXCEPT !.task = t, !.todo = ListAgain])
      BY <1>1, <1>4, <3>2, QuietProcedures, BecomingOK DEF Typed, TypeOK
    <3> QED BY <1>5, <3>1, <3>2 DEF ReleaseDueDelayed
  <2>2. member' \in [Sets -> SUBSET Tasks] /\ due' \subseteq member'["delayed"]
        /\ member'["started"] = member["started"]
    BY <1>5 DEF ReleaseDueDelayed, Typed, TypeOK, Sets
  <2> QED BY <1>5, <2>1, <2>2 DEF ReleaseDueDelayed, Typed, TypeOK, outside
<1>6. CASE RecoverStalledActive(w, t)
  <2>1. UNCHANGED <<status, redis, outside>>
    BY <1>6 DEF RecoverStalledActive
  <2>2. CASE Become(w, [At("idle") EXCEPT !.task = t, !.todo = ClearActive \o ReleaseQueueMembership])
    BY <1>1, <1>2, <1>4, <2>1, <2>2, QuietProcedures, MoveTyped
  <2>3. CASE Become(w, [At("recovering") EXCEPT !.task = t, !.todo = ClearActive,
                                               !.rest = {<<t, status[t]>>}])
    <3> DEFINE r == [At("recovering") EXCEPT !.task = t, !.todo = ClearActive,
                                            !.rest = {<<t, status[t]>>}]
    <3>1. {<<t, status[t]>>} \in SUBSET (Tasks \X Statuses) /\ Quiet(ClearActive)
      BY <1>2, QuietProcedures
    <3>2. r \in Thread /\ r.pc = "recovering" /\ r.task = t /\ r.todo = ClearActive /\ ~r.locked
      BY <3>1 DEF At, Thread, Labels, Quiet, Scripts
    <3> HIDE DEF r
    <3>3. ThreadOK(w, r)
      BY <1>1, <3>1, <3>2 DEF ThreadOK, WorkerLabels, Quiet
    <3> QED BY <1>1, <1>2, <2>1, <2>3, <3>2, <3>3, MoveTyped DEF r
  <2> QED BY <1>6, <2>2, <2>3 DEF RecoverStalledActive
<1>7. CASE RequeueStalled(w)
  <2>1. th[w].task \in Tasks
    BY <1>2, <1>7 DEF RequeueStalled, Ready, ThreadOK, OnTask, WorkerLabels
  <2>2. status' \in [Tasks -> Statuses] /\ UNCHANGED <<redis, outside>>
    BY <1>2, <1>7, <2>1 DEF RequeueStalled, Statuses, Pending
  <2>3. CASE Become(w, At("idle"))
    BY <1>1, <1>3, <2>2, <2>3, MoveTyped
  <2>4. CASE Become(w, [At("idle") EXCEPT !.task = th[w].task, !.todo = ForceWaiting])
    BY <1>1, <1>4, <2>1, <2>2, <2>4, QuietProcedures, MoveTyped
  <2> QED BY <1>7, <2>3, <2>4 DEF RequeueStalled
<1>8. CASE Pop(w)
  <2> DEFINE u == waiting[Len(waiting)]
             r == [At("popped") EXCEPT !.task = u]
  <2>1. u \in Tasks /\ waiting' \in Seq(Tasks)
    BY <1>8, SMT DEF Pop, Typed, TypeOK
  <2>2. Become(w, r)
    BY <1>8 DEF Pop, Start
  <2> HIDE DEF u
  <2>3. r \in Thread /\ r.pc = "popped" /\ r.task = u /\ r.todo = <<>> /\ ~r.locked
    <3>1. "popped" \in Labels
      BY DEF Labels
    <3> QED BY <2>1, <3>1, StartingAlone DEF r
  <2> HIDE DEF r
  <2>4. ThreadOK(w, r)
    BY <1>1, <2>1, <2>3, NothingToDo DEF ThreadOK, WorkerLabels
  <2>5. th' \in [Threads -> Thread] /\ ThreadsOK'
    BY <1>1, <2>2, <2>3, <2>4, BecomingOK DEF Typed, TypeOK
  <2> QED BY <1>8, <2>1, <2>5 DEF Pop, Typed, TypeOK, outside
<1>9. CASE CheckPopped(w)
  <2>1. /\ Ready(w, "popped") /\ UNCHANGED <<status, redis, outside>>
        /\ Then(w, "idle", <<Remove("waitingSet")>>) \/ Goto(w, "locking")
    BY <1>9 DEF CheckPopped
  <2>2. /\ {"idle", "locking"} \subseteq WorkerLabels /\ "popped" \in OnTask
        /\ "popped" \notin AfterLock
    BY DEF WorkerLabels, OnTask, AfterLock
  <2>3. ~th[w].locked
    BY <1>2, <2>1, <2>2 DEF ThreadOK, Ready
  <2>4. Quiet(<<>>) /\ Quiet(<<Remove("waitingSet")>>)
    BY QuietProcedures
  <2>5. CASE Then(w, "idle", <<Remove("waitingSet")>>)
    BY <1>2, <2>1, <2>2, <2>3, <2>4, <2>5, ThenTyped DEF Ready
  <2>6. CASE Goto(w, "locking")
    BY <1>2, <2>1, <2>2, <2>3, <2>6, GotoTyped DEF Ready
  <2> QED BY <2>1, <2>5, <2>6
<1>10. CASE TryLock(w)
  <2>1. th[w].task \in Tasks /\ ~th[w].locked /\ th[w].todo = <<>> /\ th[w].pc = "locking"
    BY <1>2, <1>10 DEF TryLock, Ready, ThreadOK, OnTask, WorkerLabels, AfterLock
  <2>2. lock' \in [Tasks -> Workers \cup {Free}]
    <3>1. lock \in [Tasks -> Workers \cup {Free}]
      BY DEF Typed, TypeOK
    <3>2. lock' = lock \/ lock' = [lock EXCEPT ![th[w].task] = w]
      BY <1>10 DEF TryLock
    <3> QED BY <2>1, <3>1, <3>2
  <2>3. CASE Become(w, [th[w] EXCEPT !.pc = "held", !.todo = HoldTask, !.locked = TRUE])
    <3> DEFINE r == [th[w] EXCEPT !.pc = "held", !.todo = HoldTask, !.locked = TRUE]
    <3>1. HoldTask \in Scripts /\ Unlock \notin CommandsOf(HoldTask) /\ CommandsOf(HoldTask) \cap Seeks = {}
      BY Procedures DEF Unlock, Add, Remove, Seeks, Seek
    <3>2. r \in Thread /\ r.pc = "held" /\ r.task = th[w].task /\ r.todo = HoldTask /\ r.locked
      BY <1>2, <3>1 DEF Thread, Labels, Scripts
    <3> HIDE DEF r
    <3>3. ThreadOK(w, r)
      BY <1>1, <2>1, <3>1, <3>2 DEF ThreadOK, WorkerLabels, AfterLock
    <3>4. th' \in [Threads -> Thread] /\ ThreadsOK'
      BY <1>1, <2>3, <3>2, <3>3, BecomingOK DEF Typed, TypeOK, r
    <3> QED BY <1>10, <2>2, <3>4 DEF TryLock, Typed, TypeOK, outside
  <2>4. CASE Then(w, "postponing", <<Remove("waitingSet")>>) /\ UNCHANGED lock
    <3>1. UNCHANGED <<redis, outside>> /\ status' = status
      BY <1>10, <2>4 DEF TryLock, redis
    <3>2. "postponing" \in WorkerLabels /\ "locking" \in OnTask
      BY DEF WorkerLabels, OnTask
    <3> QED BY <1>2, <2>1, <2>4, <3>1, <3>2, QuietProcedures, ThenTyped
  <2> QED BY <1>10, <2>3, <2>4 DEF TryLock
<1>11. CASE Postpone(w)
  <2>1. Ready(w, "postponing") /\ UNCHANGED <<status, redis, outside>>
    BY <1>11 DEF Postpone
  <2>2. CASE Become(w, At("idle"))
    BY <1>1, <1>2, <1>3, <2>1, <2>2, MoveTyped
  <2>3. CASE Then(w, "idle", ScheduleRetry)
    <3>1. "idle" \in WorkerLabels /\ "postponing" \in OnTask /\ "postponing" \notin AfterLock
      BY DEF WorkerLabels, OnTask, AfterLock
    <3>2. ~th[w].locked
      BY <1>2, <2>1, <3>1 DEF ThreadOK, Ready
    <3> QED BY <1>2, <2>1, <2>3, <3>1, <3>2, QuietProcedures, ThenTyped DEF Ready
  <2> QED BY <1>11, <2>2, <2>3 DEF Postpone
<1> QED BY <1>5, <1>6, <1>7, <1>8, <1>9, <1>10, <1>11

\* The steps of a worker with its lock keep the types.
LEMMA WorkTyped ==
  ASSUME Typed, NEW w \in Workers,
         \/ BeginAttempt(w)
         \/ ClaimTask(w)
         \/ EndAttempt(w)
         \/ AttemptThrows(w)
  PROVE  Typed'
<1>1. w \in Threads /\ w \notin Instances /\ w \notin Clients
  BY QueueAssumption DEF Threads
<1>2. th[w] \in Thread /\ ThreadOK(w, th[w]) /\ status \in [Tasks -> Statuses]
  BY <1>1 DEF Typed, TypeOK, ThreadsOK
<1>3. {"held", "loaded", "working"} \subseteq OnTask
  BY DEF OnTask, WorkerLabels
<1>4. {"queued", "processing", "success", "failed"} \subseteq Statuses
  BY DEF Statuses, Pending, Terminal
<1>5. CASE BeginAttempt(w)
  <2>1. Ready(w, "held") /\ th[w].locked /\ th[w].task \in Tasks
    BY <1>2, <1>3, <1>5 DEF BeginAttempt, Ready, ThreadOK
  <2>2. CASE Skipped(w) /\ UNCHANGED attempts
    <3>1. UNCHANGED <<redis, outside>> /\ status' = status
      BY <1>5, <2>2 DEF BeginAttempt, redis
    <3> QED BY <1>2, <2>1, <2>2, <3>1, SettleTyped DEF Ready
  <2>3. CASE /\ attempts' = [attempts EXCEPT ![th[w].task] = @ + 1]
             /\ Become(w, [th[w] EXCEPT !.pc = "loaded", !.attempt = attempts[th[w].task] + 1])
    <3> DEFINE n == attempts[th[w].task] + 1
               r == [th[w] EXCEPT !.pc = "loaded", !.attempt = n]
    <3>1. n \in Nat /\ attempts' \in [Tasks -> Nat]
      BY <2>1, <2>3 DEF Typed, TypeOK
    <3> HIDE DEF n
    <3>2. r \in Thread /\ r.pc = "loaded" /\ r.task = th[w].task /\ r.todo = th[w].todo
          /\ r.locked = th[w].locked
      BY <1>2, <3>1 DEF Thread, Labels
    <3> HIDE DEF r
    <3>3. ThreadOK(w, r)
      BY <1>1, <1>2, <2>1, <3>2, NothingToDo DEF ThreadOK, WorkerLabels, AfterLock, Ready
    <3>4. th' \in [Threads -> Thread] /\ ThreadsOK'
      BY <1>1, <2>3, <3>2, <3>3, BecomingOK DEF Typed, TypeOK, r, n
    <3> QED BY <1>5, <3>1, <3>4 DEF BeginAttempt, Typed, TypeOK, outside
  <2> QED BY <1>5, <2>2, <2>3 DEF BeginAttempt
<1>6. CASE ClaimTask(w)
  <2>1. Ready(w, "loaded") /\ th[w].task \in Tasks /\ th[w].locked /\ UNCHANGED <<redis, outside>>
    BY <1>2, <1>3, <1>6 DEF ClaimTask, Ready, ThreadOK
  <2>2. CASE Goto(w, "working") /\ status' = [status EXCEPT ![th[w].task] = "processing"]
    <3>1. status' \in [Tasks -> Statuses]
      BY <1>2, <1>4, <2>1, <2>2
    <3>2. "working" \in WorkerLabels /\ "working" \in AfterLock
      BY DEF WorkerLabels, AfterLock
    <3> QED BY <1>2, <1>3, <2>1, <2>2, <3>1, <3>2, GotoTyped DEF Ready
  <2>3. CASE FailTask(th[w].task) /\ Failed(w)
    <3>1. status' \in [Tasks -> Statuses]
      BY <1>2, <2>1, <2>3, FailTaskTyped
    <3> QED BY <2>1, <2>3, <3>1, SettleTyped DEF Ready
  <2>4. CASE UNCHANGED status /\ Outcome(w, status[th[w].task])
    <3>1. Succeeded(w) \/ Retried(w) \/ Failed(w)
      BY <2>4 DEF Outcome
    <3> QED BY <1>2, <2>1, <2>4, <3>1, SettleTyped DEF Ready
  <2> QED BY <1>6, <2>2, <2>3, <2>4 DEF ClaimTask
<1>7. CASE EndAttempt(w)
  <2>1. Ready(w, "working") /\ th[w].task \in Tasks /\ UNCHANGED <<redis, outside>>
    BY <1>2, <1>3, <1>7 DEF EndAttempt, Ready, ThreadOK
  <2>2. status' \in [Tasks -> Statuses]
    <3>1. \/ status' \in {status, [status EXCEPT ![th[w].task] = "success"],
                          [status EXCEPT ![th[w].task] = "queued"]}
          \/ FailTask(th[w].task)
      BY <1>7 DEF EndAttempt
    <3> QED BY <1>2, <1>4, <2>1, <3>1, FailTaskTyped
  <2>3. Succeeded(w) \/ Retried(w) \/ Failed(w)
    BY <1>7 DEF EndAttempt, Outcome
  <2> QED BY <2>1, <2>2, <2>3, SettleTyped DEF Ready
<1>8. CASE AttemptThrows(w)
  <2>1. /\ th[w].pc \in {"loaded", "working"} /\ th[w].task \in Tasks /\ UNCHANGED <<redis, outside>>
    BY <1>2, <1>3, <1>8 DEF AttemptThrows, Ready, ThreadOK
  <2>2. status' \in [Tasks -> Statuses]
    <3>1. \/ status' = status
          \/ status' = [status EXCEPT ![th[w].task] = IF @ = "processing" THEN "queued" ELSE @]
          \/ FailTask(th[w].task)
      BY <1>8 DEF AttemptThrows
    <3> QED BY <1>2, <1>4, <2>1, <3>1, FailTaskTyped
  <2>3. Succeeded(w) \/ Retried(w) \/ Failed(w) \/ Skipped(w)
    BY <1>8 DEF AttemptThrows
  <2> QED BY <2>1, <2>2, <2>3, SettleTyped DEF Ready
<1> QED BY <1>5, <1>6, <1>7, <1>8

\* The steps of a worker that lets go of its task keep the types.
LEMMA LeaveTyped ==
  ASSUME Typed, NEW w \in Workers,
         \/ Release(w)
         \/ NextRound(w)
         \/ MarkWorkerException(w)
         \/ GiveUp(w)
  PROVE  Typed'
<1>1. w \in Threads /\ w \notin Instances /\ w \notin Clients
  BY QueueAssumption DEF Threads
<1>2. th[w] \in Thread /\ ThreadOK(w, th[w]) /\ status \in [Tasks -> Statuses]
  BY <1>1 DEF Typed, TypeOK, ThreadsOK
<1>3. /\ {"settling", "caught", "givingUp", "counting", "releasing"} \subseteq OnTask \cap AfterLock
      /\ {"settling", "caught", "givingUp", "counting", "releasing"} \subseteq WorkerLabels
  BY DEF OnTask, WorkerLabels, AfterLock
<1>4. CASE Release(w)
  <2>1. th[w].pc \in OnTask /\ th[w].task \in Tasks
    BY <1>2, <1>3, <1>4 DEF Release, Ready, ThreadOK
  <2>2. UNCHANGED <<redis, outside>> /\ status' = status
    BY <1>4 DEF Release
  <2>3. CASE ~th[w].locked
    <3>1. Then(w, "releasing", <<>>)
      BY <1>4, <2>3 DEF Release
    <3> QED BY <1>2, <1>3, <2>1, <2>2, <3>1, QuietProcedures, ThenTyped
  <2>4. CASE th[w].locked
    <3> DEFINE s == ClearActive \o <<Unlock>>
               r == [th[w] EXCEPT !.pc = "releasing", !.todo = s]
    <3>1. Become(w, r)
      BY <1>4, <2>4 DEF Release, Then
    <3>2. /\ s \in Scripts
          /\ Add("active") \notin CommandsOf(s) /\ Add("started") \notin CommandsOf(s)
          /\ CommandsOf(s) \cap Seeks = {}
      BY JoinedProcedures DEF Add, Remove, Unlock, Seeks, Seek
    <3> HIDE DEF s
    <3>3. r \in Thread /\ ThreadOK(w, r)
      BY <1>3, <2>1, <2>4, <3>2, WorkerGoesOn
    <3> HIDE DEF r
    <3> QED BY <1>1, <1>2, <2>2, <3>1, <3>3, MoveTyped
  <2> QED BY <2>3, <2>4
<1>5. CASE NextRound(w)
  <2>1. /\ At("idle") \in Thread /\ ThreadOK(w, At("idle"))
        /\ At("gone") \in Thread /\ ThreadOK(w, At("gone"))
    BY <1>1, RestartedOK DEF WorkerLabels
  <2>2. Become(w, At("idle")) \/ Become(w, At("gone"))
    BY <1>5 DEF NextRound
  <2>3. UNCHANGED <<redis, outside>> /\ status' = status
    BY <1>5 DEF NextRound
  <2> QED BY <1>1, <1>2, <2>1, <2>2, <2>3, MoveTyped
<1>6. CASE MarkWorkerException(w)
  <2>1. PICK label \in {"counting", "givingUp"}, s \in {ReleaseQueueMembership, MoveToDead} :
          Then(w, label, s)
    BY <1>6 DEF MarkWorkerException
  <2>2. UNCHANGED <<redis, outside>> /\ status' = status /\ th[w].pc = "caught"
    BY <1>6 DEF MarkWorkerException, Ready
  <2>3. Quiet(s)
    BY QuietProcedures
  <2> QED BY <1>2, <1>3, <2>1, <2>2, <2>3, ThenTyped
<1>7. CASE GiveUp(w)
  <2>1. Ready(w, "givingUp") /\ th[w].task \in Tasks /\ UNCHANGED <<redis, outside>>
    BY <1>2, <1>3, <1>7 DEF GiveUp, Ready, ThreadOK
  <2>2. status' \in [Tasks -> Statuses]
    BY <1>2, <1>7, <2>1, FailTaskTyped DEF GiveUp
  <2>3. Goto(w, "counting")
    BY <1>7 DEF GiveUp
  <2> QED BY <1>2, <1>3, <2>1, <2>2, <2>3, GotoTyped DEF Ready
<1> QED BY <1>4, <1>5, <1>6, <1>7

\* Time keeps the types.
LEMMA TimeTyped ==
  ASSUME Typed, NEW t \in Tasks, TimePasses(t)
  PROVE  Typed'
<1>1. /\ UNCHANGED <<status, member, waiting, attempts, dead, th, outside>>
      /\ due' \subseteq member["delayed"] /\ stale' \subseteq member["started"]
      /\ lock' \in [Tasks -> Workers \cup {Free}]
  BY DEF TimePasses, DelayElapses, EntryStales, LockExpires, Typed, TypeOK
<1> QED BY <1>1 DEF Typed, TypeOK, ThreadsOK, outside

\* Heartbeats keep the types.
LEMMA BeatTyped ==
  ASSUME Typed, NEW w \in Workers, Beat(w)
  PROVE  Typed'
<1>1. /\ UNCHANGED <<status, due, waiting, lock, attempts, dead, th, crashes, errors>>
      /\ "started" \in Sets /\ "delayed" \in Sets /\ beats \in [Workers -> SUBSET SlowBeats]
      /\ member \in [Sets -> SUBSET Tasks] /\ due \subseteq member["delayed"]
      /\ stale \subseteq member["started"]
  BY DEF Beat, Heartbeat, HeartbeatChecks, HeartbeatWrites, Typed, TypeOK, Sets, redis, outside
<1>2. ASSUME Beating(w)
      PROVE  th[w].task \in Tasks
  <2>1. w \in Threads /\ ThreadOK(w, th[w])
    BY DEF Typed, ThreadsOK, Threads
  <2> QED BY <1>2, <2>1 DEF Beating, Ready, ThreadOK, OnTask, WorkerLabels
<1>3. /\ member' \in [Sets -> SUBSET Tasks] /\ member'["delayed"] = member["delayed"]
      /\ stale' \subseteq member'["started"]
  <2>1. ASSUME NEW t \in Tasks, Refresh(t)
        PROVE  /\ member' \in [Sets -> SUBSET Tasks] /\ member'["delayed"] = member["delayed"]
               /\ stale' \subseteq member'["started"]
    BY <1>1, <2>1 DEF Refresh
  <2>2. CASE Heartbeat(w) \/ \E t \in Tasks : HeartbeatWrites(w, t)
    BY <1>2, <2>1, <2>2 DEF Heartbeat, HeartbeatWrites
  <2>3. CASE HeartbeatChecks(w)
    BY <1>1, <2>3 DEF HeartbeatChecks, redis
  <2> QED BY <2>2, <2>3 DEF Beat
<1>4. beats' \in [Workers -> SUBSET SlowBeats]
  BY <1>1, <1>2 DEF Beat, Heartbeat, HeartbeatChecks, HeartbeatWrites, outside
<1> QED BY <1>1, <1>3, <1>4 DEF Typed, TypeOK, ThreadsOK

\* Crashes and failing calls keep the types.
LEMMA FaultTyped ==
  ASSUME Typed, Fault
  PROVE  Typed'
<1>1. ASSUME NEW i \in Instances, Crash(i)
      PROVE  Typed'
  <2>1. ASSUME NEW x \in Threads
        PROVE  th'[x] \in Thread /\ ThreadOK(x, th'[x])
    <3>1. CASE th'[x] = th[x]
      BY <3>1 DEF Typed, TypeOK, ThreadsOK
    <3>2. CASE th'[x] = At("down")
      BY <3>2, RestartedOK DEF InstanceLabels, ClientLabels, WorkerLabels
    <3> QED BY <1>1, <3>1, <3>2 DEF Crash
  <2>2. th' \in [Threads -> Thread] /\ ThreadsOK'
    BY <1>1, <2>1 DEF Crash, ThreadsOK
  <2>3. crashes' \in 0..MaxCrashes /\ beats' \in [Workers -> SUBSET SlowBeats]
    BY <1>1, QueueAssumption DEF Crash, Typed, TypeOK
  <2> QED BY <1>1, <2>2, <2>3 DEF Crash, Typed, TypeOK, redis
<1>2. ASSUME NEW c \in Clients, ClientError(c)
      PROVE  Typed'
  <2>1. c \in Threads /\ c \notin Instances /\ c \notin Workers
    BY QueueAssumption DEF Threads
  <2>2. th[c] \in Thread /\ ThreadOK(c, th[c]) /\ th[c].task \in Tasks
    BY <1>2, <2>1 DEF Typed, TypeOK, ThreadsOK, ThreadOK, ClientError, OnTask, ClientLabels
  <2>4. th' \in [Threads -> Thread] /\ ThreadsOK'
    <3>1. CASE Become(c, At("idle"))
      <4>1. At("idle") \in Thread /\ ThreadOK(c, At("idle"))
        BY <2>1, RestartedOK DEF ClientLabels
      <4> QED BY <2>1, <3>1, <4>1, BecomingOK DEF Typed, TypeOK
    <3>2. CASE Become(c, [At("refusing") EXCEPT !.task = th[c].task])
      <4> DEFINE r == [At("refusing") EXCEPT !.task = th[c].task]
      <4>1. r \in Thread /\ r.pc = "refusing" /\ r.task = th[c].task /\ r.todo = <<>> /\ ~r.locked
        <5> DEFINE u == th[c].task
        <5>1. "refusing" \in Labels /\ u \in Tasks /\ <<>> \in Seq(Commands) /\ {} \in SUBSET (Tasks \X Statuses)
          BY <2>2, SMT DEF Labels
        <5>2. r = [At("refusing") EXCEPT !.task = u]
          OBVIOUS
        <5> HIDE DEF r, u
        <5>3. r \in Thread /\ r.pc = "refusing" /\ r.task = u /\ r.todo = <<>> /\ ~r.locked
          BY <5>1, <5>2 DEF At, Thread
        <5> QED BY <5>3 DEF u
      <4> HIDE DEF r
      <4>2. ThreadOK(c, r)
        BY <2>1, <2>2, <4>1, NothingToDo DEF ThreadOK, ClientLabels
      <4> QED BY <2>1, <3>2, <4>1, <4>2, BecomingOK DEF Typed, TypeOK, r
    <3> QED BY <1>2, <3>1, <3>2 DEF ClientError
  <2>5. member' \in [Sets -> SUBSET Tasks] /\ waiting' \in Seq(Tasks)
        /\ member'["delayed"] = member["delayed"] /\ member'["started"] = member["started"]
    <3> DEFINE t == th[c].task
    <3>1. CASE UNCHANGED <<member, waiting>>
      BY <3>1 DEF Typed, TypeOK
    <3>2. CASE /\ member' = [member EXCEPT !["queued"] = @ \cup {t}, !["waitingSet"] = @ \cup {t}]
               /\ waiting' = <<t>> \o waiting
      <4> HIDE DEF t
      <4>1. <<t>> \o waiting \in Seq(Tasks)
        BY <2>2, SMT DEF Typed, TypeOK, t
      <4>2. member \in [Sets -> SUBSET Tasks] /\ t \in Tasks
            /\ {"queued", "waitingSet", "delayed", "started"} \subseteq Sets
        BY <2>2 DEF Typed, TypeOK, Sets, t
      <4>3. member' \in [Sets -> SUBSET Tasks]
        BY <3>2, <4>2
      <4>4. member'["delayed"] = member["delayed"] /\ member'["started"] = member["started"]
        BY <3>2, <4>2
      <4> QED BY <3>2, <4>1, <4>3, <4>4
    <3> QED BY <1>2, <3>1, <3>2 DEF ClientError, Script
  <2>6. errors' \in 0..MaxErrors
    BY <1>2, QueueAssumption DEF ClientError, Typed, TypeOK
  <2> QED BY <1>2, <2>4, <2>5, <2>6 DEF ClientError, Typed, TypeOK
<1>3. ASSUME NEW w \in Workers, WorkerError(w)
      PROVE  Typed'
  <2>1. w \in Threads /\ w \notin Instances /\ w \notin Clients
    BY QueueAssumption DEF Threads
  <2>2. th[w] \in Thread /\ ThreadOK(w, th[w])
    BY <2>1 DEF Typed, TypeOK, ThreadsOK
  <2>3. th' \in [Threads -> Thread] /\ ThreadsOK'
    <3>1. CASE Become(w, At("idle")) \/ Become(w, At("gone"))
      <4>1. /\ At("idle") \in Thread /\ ThreadOK(w, At("idle"))
            /\ At("gone") \in Thread /\ ThreadOK(w, At("gone"))
        BY <2>1, RestartedOK DEF WorkerLabels
      <4> QED BY <2>1, <3>1, <4>1, BecomingOK DEF Typed, TypeOK
    <3>2. CASE \E label \in {"caught", "counting"} : th[w].pc \in OnTask /\ Then(w, label, <<>>)
      <4> PICK label \in {"caught", "counting"} : th[w].pc \in OnTask /\ Then(w, label, <<>>)
        BY <3>2
      <4> DEFINE r == [th[w] EXCEPT !.pc = label, !.todo = <<>>]
      <4>1. th[w].task \in Tasks
        BY <2>2 DEF ThreadOK
      <4>2. label \in WorkerLabels /\ label \in AfterLock
        BY DEF WorkerLabels, AfterLock
      <4>3. r \in Thread /\ ThreadOK(w, r)
        BY <4>1, <4>2, NothingToDo, WorkerGoesOn
      <4>4. Become(w, r)
        BY DEF Then
      <4> HIDE DEF r
      <4> QED BY <2>1, <4>3, <4>4, BecomingOK DEF Typed, TypeOK
    <3>3. CASE th[w].pc = "counting" /\ Become(w, [th[w] EXCEPT !.todo = <<>>, !.dying = TRUE])
      <4> DEFINE r == [th[w] EXCEPT !.todo = <<>>, !.dying = TRUE]
      <4>1. /\ r \in Thread /\ r.pc = "counting" /\ r.todo = <<>> /\ r.task = th[w].task
            /\ r.locked = th[w].locked
        <5>1. <<>> \in Seq(Commands)
          BY SMT
        <5> QED BY <2>2, <3>3, <5>1 DEF Thread
      <4> HIDE DEF r
      <4>2. "counting" \in OnTask
        BY DEF OnTask, WorkerLabels
      <4>3. ThreadOK(w, r)
        BY <2>1, <2>2, <3>3, <4>1, <4>2, NothingToDo DEF ThreadOK
      <4> QED BY <2>1, <3>3, <4>1, <4>3, BecomingOK DEF Typed, TypeOK, r
    <3>4. {"popped", "locking", "postponing", "held", "loaded", "working", "settling",
           "caught", "givingUp"} \subseteq OnTask
      BY DEF OnTask, WorkerLabels
    <3> QED BY <1>3, <3>1, <3>2, <3>3, <3>4 DEF WorkerError
  <2>4. errors' \in 0..MaxErrors
    BY <1>3, QueueAssumption DEF WorkerError, Typed, TypeOK
  <2> QED BY <1>3, <2>3, <2>4 DEF WorkerError, Typed, TypeOK, redis
<1> QED BY <1>1, <1>2, <1>3 DEF Fault

\* The types are right at the beginning.
LEMMA InitTyped ==
  Init => Typed
<1> SUFFICES ASSUME Init PROVE Typed
  OBVIOUS
<1> USE QueueAssumption DEF Init
<1>1. ASSUME NEW x \in Threads
      PROVE  th[x] \in Thread /\ ThreadOK(x, th[x])
  <2>1. PICK label \in {"down", "up", "idle"} :
          /\ th[x] = At(label)
          /\ x \in Instances => label # "idle"
          /\ x \notin Instances => label # "up"
    OBVIOUS
  <2>2. /\ x \in Instances => label \in InstanceLabels
        /\ x \in Clients => label \in ClientLabels
        /\ x \in Workers => label \in WorkerLabels
    BY <2>1 DEF InstanceLabels, ClientLabels, WorkerLabels
  <2> QED BY <2>1, <2>2, RestartedOK
<1>2. th \in [Threads -> Thread] /\ ThreadsOK
  BY <1>1 DEF ThreadsOK
<1>3. waiting \in Seq(Tasks)
  BY SMT
<1> QED BY <1>2, <1>3 DEF Typed, TypeOK, Statuses

\* Every step keeps the types.
LEMMA NextTyped ==
  Typed /\ [Next]_vars => Typed'
<1> SUFFICES ASSUME Typed, [Next]_vars PROVE Typed'
  OBVIOUS
<1>1. ASSUME NEW x \in Threads, Step(x)
      PROVE  Typed'
  <2>1. ASSUME x \in Workers, WorkerStep(x)
        PROVE  Typed'
    <3>1. CASE \E t \in Tasks : ReleaseDueDelayed(x, t) \/ RecoverStalledActive(x, t)
      BY <2>1, <3>1, FindTyped
    <3>2. CASE RequeueStalled(x) \/ Pop(x) \/ CheckPopped(x) \/ TryLock(x) \/ Postpone(x)
      <4>1. \E t : t \in Tasks
        <5>1. CASE Pop(x)
          BY <5>1, SMT DEF Pop, Typed, TypeOK
        <5>2. CASE th[x].pc \in OnTask
          BY <2>1, <5>2 DEF Typed, ThreadsOK, ThreadOK
        <5> QED
          BY <3>2, <5>1, <5>2 DEF RequeueStalled, CheckPopped, TryLock, Postpone, Ready, OnTask, WorkerLabels
      <4> QED BY <2>1, <3>2, <4>1, FindTyped
    <3>3. CASE BeginAttempt(x) \/ ClaimTask(x) \/ EndAttempt(x) \/ AttemptThrows(x)
      BY <2>1, <3>3, WorkTyped
    <3>4. CASE Release(x) \/ NextRound(x) \/ MarkWorkerException(x) \/ GiveUp(x)
      BY <2>1, <3>4, LeaveTyped
    <3> QED BY <2>1, <3>1, <3>2, <3>3, <3>4 DEF WorkerStep
  <2> QED BY <1>1, <2>1, ExecuteTyped, ClientTyped, InstanceTyped DEF Step
<1>2. CASE UNCHANGED vars
  BY <1>2 DEF vars, redis, outside, Typed, TypeOK, ThreadsOK
<1> QED BY <1>1, <1>2, ArriveTyped, BeatTyped, TimeTyped, FaultTyped DEF Next

\* The structures in Redis, the rows and the threads always have their types.
THEOREM TypeCorrect == Spec => []TypeOK
<1>1. Typed => TypeOK
  BY DEF Typed
<1> QED BY <1>1, InitTyped, NextTyped, PTL DEF Spec

-----------------------------------------------------------------------------
(* The inductive invariant *)

(* The workers of an instance run while it is up, and its web server from    *)
(* the start.                                                                *)
Serving(x) == IF x \in Workers THEN {"up"} ELSE {"starting", "booting", "up"}

Hosted ==
  \A x \in Workers \cup Clients : th[x].pc # "down" => th[Host[x]].pc \in Serving(x)

(* A worker that took the lock of its task and has not given it back, or     *)
(* lost it by an exception, is the one that the lock names.                  *)
Guards(r) == r.locked /\ (r.pc = "releasing" => Unlock \in CommandsOf(r.todo))

LocksHeld ==
  \A w \in Workers : Guards(th[w]) => lock[th[w].task] = w

(* A task whose attempts are used up while it is not settled is with the     *)
(* worker that makes the last of them, and that worker will know.            *)
Bound == MaxAttempts + crashes + errors

Attempting(r, t) ==
  /\ r.task = t
  /\ r.pc \in {"loaded", "working"} \/ (r.pc = "settling" /\ Forget \in CommandsOf(r.todo))

AttemptsCounted ==
  /\ \A w \in Workers :
       th[w].pc \in {"loaded", "working"} => attempts[th[w].task] <= th[w].attempt
  /\ \A t \in Tasks :
       /\ attempts[t] <= Bound
       /\ attempts[t] = Bound /\ status[t] \notin Terminal =>
            \E w \in Workers : Attempting(th[w], t)

QueueInv == Typed /\ Hosted /\ LocksHeld /\ AttemptsCounted

(* The limit is read from the rows, of which there are finitely many. *)
Decided ==
  {t \in Tasks \ SyncTasks :
                 /\ status[t] \in Pending
                 /\ \A c \in Clients : th[c].task = t => th[c].pc \notin {"admitting", "refusing"}}

LimitInv ==
  /\ IsFiniteSet({t \in Tasks : status[t] \in Pending})
  /\ crashes = 0 => Cardinality(Decided) <= QueueLimit

NoFaults == crashes = 0 /\ errors = 0

(* What Redis holds for a task has its worker, who will take it back, but    *)
(* for what a late heartbeat may have written.                               *)
Shows(r, t, set) ==
  r.task = t /\ r.locked /\ (r.pc = "releasing" => Remove(set) \in CommandsOf(r.todo))

Beaten(set) == IF set = "started" THEN SlowBeats ELSE {}

HeldByWorkers ==
  /\ \A w \in Workers : th[w].pc \notin {"caught", "givingUp", "counting"}
  /\ \A t \in Tasks : lock[t] # Free => th[lock[t]].task = t /\ Guards(th[lock[t]])
  /\ \A set \in {"active", "started"} : \A t \in member[set] \ Beaten(set) :
       \E w \in Workers : Shows(th[w], t, set)

(* Who may be working on what, and who may bury what, when no instance       *)
(* starts beside the others.  A sync task is run by its request as well.     *)
AllUp == \A i \in Instances : th[i].pc = "up"

KnownTasks ==
  /\ \A n \in 1..Len(waiting) : status[waiting[n]] # "none"
  /\ \A x \in Threads : th[x].task # NoTask => status[th[x].task] # "none"
  /\ \A t \in member["delayed"] : status[t] # "none"

\* Rows read by a worker.
NoneProcessing(rows) == \A row \in rows : row[1] \notin SyncTasks => row[2] # "processing"

ProcessedByWorkers ==
  /\ \A t \in Tasks \ SyncTasks : status[t] = "processing" =>
       \E w \in Workers : th[w].task = t /\ th[w].pc = "working"
  /\ \A w \in Workers : th[w].pc = "working" /\ th[w].task \notin SyncTasks =>
       status[th[w].task] \in {"processing"} \cup Terminal
  /\ \A w \in Workers : NoneProcessing(th[w].rest)

BuriedHaveFailed ==
  /\ \A t \in dead \ SyncTasks : status[t] = "failed"
  /\ \A x \in Threads : Bury \in CommandsOf(th[x].todo) /\ th[x].task \notin SyncTasks =>
       status[th[x].task] = "failed"

DeadInv == AllUp /\ KnownTasks /\ ProcessedByWorkers /\ BuriedHaveFailed

(* Who still has a pending task: a request that has to list it, or a worker  *)
(* that will run it, list it or schedule its retry.                          *)
Waits(r) == r.pc \in {"admitting", "enqueueing", "refusing"}

Keeping(r) ==
  \/ Waits(r)
  \/ r.pc \in {"popped", "locking", "postponing", "held", "loaded", "working"}
  \/ Push \in CommandsOf(r.todo) \/ Add("delayed") \in CommandsOf(r.todo)

(* A task is enqueued by the request that created it, and by no other.       *)
OneRequestPerTask ==
  /\ stale = {}
  /\ \A t \in member["queued"] : status[t] # "none"
  /\ \A c \in Clients : th[c].pc \notin {"checking", "listing"}
  /\ \A c \in Clients : Waits(th[c]) =>
       /\ th[c].task \notin member["queued"]
       /\ \A d \in Clients : Waits(th[d]) /\ th[d].task = th[c].task => d = c

(* Only settled tasks leave the sets for good, and a worker that is through  *)
(* with a pending one has scheduled its retry, which is not due before it    *)
(* has unlocked the task.  Sync tasks are no concern of the queue's.         *)
SoundScript(r) ==
  /\ Enlist \notin CommandsOf(r.todo) /\ Add("queued") \notin CommandsOf(r.todo)
  /\ Remove("queued") \in CommandsOf(r.todo) \/ Remove("delayed") \in CommandsOf(r.todo) =>
       r.task \in SyncTasks \/ status[r.task] \in Terminal
  /\ r.pc # "recovering"
  /\ r.pc \in {"settling", "releasing"} /\ r.task \notin SyncTasks /\ status[r.task] \in Pending =>
       /\ r.locked
       /\ Add("delayed") \in CommandsOf(r.todo) \/ r.task \in member["delayed"] \ due

QueuedOrWaiting ==
  \A t \in Tasks \ SyncTasks : status[t] \in Pending =>
    t \in member["queued"] \/ \E c \in Clients : th[c].task = t /\ Waits(th[c])

InGoodHands ==
  \A t \in Tasks \ SyncTasks : status[t] \in Pending =>
    Carried(t) \/ \E x \in Threads : th[x].task = t /\ Keeping(th[x])

ForgetInv ==
  /\ OneRequestPerTask
  /\ \A x \in Threads : SoundScript(th[x])
  /\ QueuedOrWaiting
  /\ InGoodHands

-----------------------------------------------------------------------------
(* What every step has in common *)

OthersStay(x) == \A y \in Threads \ {x} : th'[y] = th[y]

\* A thread that becomes something leaves the others alone.
LEMMA BecomingAlone ==
  ASSUME th \in [Threads -> Thread], NEW x \in Threads, NEW r, Become(x, r)
  PROVE  OthersStay(x) /\ th'[x] = r
BY DEF Become, OthersStay

\* The steps of a client are steps of a running thread, and of it alone.
LEMMA ClientAlone ==
  ASSUME Typed, NEW c \in Clients,
         ClientStep(c) \/ ClientError(c) \/ \E t \in Tasks : Arrive(c, t)
  PROVE  th[c].pc # "down" /\ OthersStay(c)
<1>1. c \in Threads /\ th \in [Threads -> Thread]
  BY DEF Threads, Typed, TypeOK
<1>2. CASE Admit(c) \/ Overloaded(c)
  BY <1>1, <1>2, BecomingAlone DEF Admit, Overloaded, Ready, Goto
<1>3. CASE Enqueue(c)
  BY <1>1, <1>3, BecomingAlone DEF Enqueue, Ready
<1>4. CASE CheckQueued(c)
  BY <1>1, <1>4, BecomingAlone DEF CheckQueued, Ready, Then
<1>5. CASE Listed(c) \/ Refuse(c)
  BY <1>1, <1>5, BecomingAlone DEF Listed, Refuse, Ready
<1>6. CASE ClientError(c)
  BY <1>1, <1>6, BecomingAlone DEF ClientError
<1>7. CASE \E t \in Tasks : Arrive(c, t)
  BY <1>1, <1>7, BecomingAlone DEF Arrive, CreateTask, RepeatRequest, Ready, Start
<1>8. CASE ClaimInRequest(c) \/ EndInRequest(c)
  BY <1>1, <1>8, BecomingAlone DEF ClaimInRequest, EndInRequest, Ready, Goto
<1> QED BY <1>2, <1>3, <1>4, <1>5, <1>6, <1>7, <1>8 DEF ClientStep

\* The steps of a worker are steps of a running thread, and of it alone.
LEMMA WorkerAlone ==
  ASSUME Typed, NEW w \in Workers, WorkerStep(w) \/ WorkerError(w)
  PROVE  th[w].pc # "down" /\ OthersStay(w)
<1>1. w \in Threads /\ th \in [Threads -> Thread]
  BY DEF Threads, Typed, TypeOK
<1>2. ASSUME NEW t \in Tasks, ReleaseDueDelayed(w, t) \/ RecoverStalledActive(w, t)
      PROVE  th[w].pc # "down" /\ OthersStay(w)
  <2>1. th[w].pc = "idle" /\ (UNCHANGED th \/ \E r : Become(w, r))
    BY <1>2 DEF ReleaseDueDelayed, RecoverStalledActive, Ready
  <2> QED BY <1>1, <2>1, BecomingAlone DEF OthersStay
<1>3. CASE RequeueStalled(w)
  BY <1>1, <1>3, BecomingAlone DEF RequeueStalled, Ready
<1>4. CASE Pop(w) \/ CheckPopped(w)
  BY <1>1, <1>4, BecomingAlone DEF Pop, CheckPopped, Ready, Start, Then, Goto
<1>5. CASE TryLock(w) \/ Postpone(w)
  BY <1>1, <1>5, BecomingAlone DEF TryLock, Postpone, Ready, Then
<1>6. CASE BeginAttempt(w)
  BY <1>1, <1>6, BecomingAlone DEF BeginAttempt, Ready, Skipped, Settle, Then
<1>7. CASE ClaimTask(w) \/ EndAttempt(w) \/ AttemptThrows(w)
  <2>1. th[w].pc # "down"
    BY <1>7 DEF ClaimTask, EndAttempt, AttemptThrows, Ready
  <2>2. \/ \E s : Then(w, "settling", s)
        \/ Goto(w, "working")
    BY <1>7 DEF ClaimTask, EndAttempt, AttemptThrows, Outcome, Succeeded, Skipped, Retried, Failed, Settle
  <2> QED BY <1>1, <2>1, <2>2, BecomingAlone DEF Then, Goto
<1>8. CASE Release(w) \/ NextRound(w)
  BY <1>1, <1>8, BecomingAlone DEF Release, NextRound, Ready, Then
<1>9. CASE MarkWorkerException(w) \/ GiveUp(w)
  BY <1>1, <1>9, BecomingAlone DEF MarkWorkerException, GiveUp, Ready, Then, Goto
<1>10. CASE WorkerError(w)
  BY <1>1, <1>10, BecomingAlone DEF WorkerError, Then
<1> QED BY <1>2, <1>3, <1>4, <1>5, <1>6, <1>7, <1>8, <1>9, <1>10 DEF WorkerStep

\* A heartbeat changes what is known of the time a task was started, and no more.
LEMMA BeatsAlone ==
  ASSUME Typed, NEW w \in Workers, Beat(w)
  PROVE  /\ UNCHANGED <<status, due, waiting, lock, attempts, dead, th, crashes, errors>>
         /\ \A set \in Sets \ {"started"} : member'[set] = member[set]
<1>1. CASE Heartbeat(w)
  BY <1>1 DEF Heartbeat, Refresh, outside, Typed, TypeOK
<1>2. CASE HeartbeatChecks(w)
  BY <1>2 DEF HeartbeatChecks, redis
<1>3. ASSUME NEW t \in Tasks, HeartbeatWrites(w, t)
      PROVE  /\ UNCHANGED <<status, due, waiting, lock, attempts, dead, th, crashes, errors>>
             /\ \A set \in Sets \ {"started"} : member'[set] = member[set]
  BY <1>3 DEF HeartbeatWrites, Refresh, Typed, TypeOK
<1> QED BY <1>1, <1>2, <1>3 DEF Beat

\* The threads of an instance that is not up are down.
LEMMA HostedStep ==
  ASSUME Typed, Hosted, [Next]_vars
  PROVE  Hosted'
<1>1. th \in [Threads -> Thread] /\ Instances \subseteq Threads
      /\ Workers \subseteq Threads /\ Clients \subseteq Threads
  BY DEF Threads, Typed, TypeOK
<1>2. ASSUME NEW x \in Workers \cup Clients, th[x].pc # "down", OthersStay(x)
      PROVE  Hosted'
  <2>1. th[Host[x]].pc \in Serving(x)
    BY <1>2 DEF Hosted
  <2>2. \A i \in Instances : i # x
    BY QueueAssumption
  <2>3. ASSUME NEW y \in Workers \cup Clients
        PROVE  th'[Host[y]] = th[Host[y]]
    BY <1>1, <1>2, <2>2, QueueAssumption DEF OthersStay
  <2>4. ASSUME NEW y \in Workers \cup Clients, th'[y].pc # "down"
        PROVE  th'[Host[y]].pc \in Serving(y)
    BY <1>1, <1>2, <2>1, <2>3, <2>4 DEF Hosted, OthersStay
  <2> QED BY <2>4 DEF Hosted
<1>3. ASSUME NEW i \in Instances, OthersStay(i),
             \A y \in Workers \cup Clients : th[i].pc \in Serving(y) => th'[i].pc \in Serving(y)
      PROVE  Hosted'
  <2>1. \A y \in Workers \cup Clients : y # i
    BY QueueAssumption
  <2>2. ASSUME NEW y \in Workers \cup Clients, th'[y].pc # "down"
        PROVE  th'[Host[y]].pc \in Serving(y)
    <3>1. th'[y] = th[y] /\ (Host[y] # i => th'[Host[y]] = th[Host[y]])
      BY <1>1, <1>3, <2>1, QueueAssumption DEF OthersStay
    <3>2. th[Host[y]].pc \in Serving(y)
      BY <2>2, <3>1 DEF Hosted
    <3> QED BY <1>3, <3>1, <3>2
  <2> QED BY <2>2 DEF Hosted
<1>4. ASSUME NEW x \in Threads, Execute(x)
      PROVE  Hosted'
  <2>1. OthersStay(x) /\ th[x] \in Thread /\ ThreadOK(x, th[x]) /\ th[x].todo # <<>>
    BY <1>1, <1>4, Executed DEF OthersStay, Typed, ThreadsOK
  <2>2. th[x].pc # "down"
    BY <2>1 DEF ThreadOK
  <2>3. CASE x \in Instances
    <3>1. th[x].pc # "idle"
      BY <2>1, <2>3 DEF ThreadOK, InstanceLabels
    <3>2. th'[x] = [th[x] EXCEPT !.todo = th'[x].todo]
      BY <1>4, <3>1, Executed
    <3>3. th'[x].pc = th[x].pc
      BY <2>1, <3>2 DEF Thread
    <3> QED BY <1>3, <2>1, <2>3, <3>3
  <2> QED BY <1>2, <2>1, <2>2, <2>3 DEF Threads
<1>5. ASSUME NEW i \in Instances, InstanceStep(i)
      PROVE  Hosted'
  <2>1. CASE Boot(i)
    <3>1. ASSUME NEW y \in Workers \cup Clients, th'[y].pc # "down"
          PROVE  th'[Host[y]].pc \in Serving(y)
      <4>1. y \notin Instances /\ Host[y] \in Instances /\ y \in Threads /\ Host[y] \in Threads
        BY <1>1, QueueAssumption
      <4>2. th'[i].pc = "starting" /\ (Host[y] # i => th'[Host[y]] = th[Host[y]])
        <5>1. i \in Threads /\ Host[y] \notin Clients
          BY <1>1, <4>1, QueueAssumption
        <5> QED BY <2>1, <4>1, <5>1 DEF Boot, At
      <4>3. CASE Host[y] = i /\ y \in Clients
        BY <4>2, <4>3, QueueAssumption DEF Serving
      <4>4. CASE Host[y] # i \/ y \notin Clients
        <5>1. th'[y] = th[y]
          BY <2>1, <4>1, <4>4 DEF Boot
        <5>2. th[Host[y]].pc \in Serving(y)
          BY <3>1, <5>1 DEF Hosted
        <5>3. Host[y] # i
          BY <2>1, <4>4, <5>2 DEF Boot, Serving
        <5> QED BY <4>2, <5>2, <5>3
      <4> QED BY <4>3, <4>4
    <3> QED BY <3>1 DEF Hosted
  <2>4. CASE PendingTasks(i)
    <3> DEFINE r == [At("booting") EXCEPT !.rest =
                      {<<t, status[t]>> : t \in {s \in Tasks : status[s] \in Pending}}]
    <3>1. Become(i, r) /\ r.pc = "booting"
      BY <2>4 DEF PendingTasks, At
    <3> HIDE DEF r
    <3>2. OthersStay(i) /\ th'[i].pc = "booting" /\ th[i].pc = "starting"
      BY <1>1, <2>4, <3>1, BecomingAlone DEF PendingTasks, Ready
    <3>3. \A y \in Workers \cup Clients : th[i].pc \in Serving(y) => th'[i].pc \in Serving(y)
      BY <3>2 DEF Serving
    <3> QED BY <1>3, <3>2, <3>3
  <2>2. CASE RecoverPendingTask(i)
    <3>1. PICK row, s : Become(i, [th[i] EXCEPT !.rest = @ \ {row}, !.task = row[1], !.todo = s])
      BY <2>2 DEF RecoverPendingTask
    <3>2. OthersStay(i) /\ th'[i] = [th[i] EXCEPT !.rest = @ \ {row}, !.task = row[1], !.todo = s]
      BY <1>1, <3>1, BecomingAlone
    <3>3. th'[i].pc = th[i].pc
      BY <1>1, <3>2 DEF Thread
    <3> QED BY <1>3, <3>2, <3>3
  <2>3. CASE StartWorkers(i)
    <3>1. ASSUME NEW y \in Workers \cup Clients, th'[y].pc # "down"
          PROVE  th'[Host[y]].pc \in Serving(y)
      <4>1. y \notin Instances /\ Host[y] \in Instances
        BY QueueAssumption
      <4>2. CASE Host[y] = i
        <5>1. th'[i].pc = "up"
          BY <1>1, <2>3 DEF StartWorkers, At
        <5> QED BY <4>2, <5>1 DEF Serving
      <4>3. CASE Host[y] # i
        <5>1. th'[y] = th[y] /\ th'[Host[y]] = th[Host[y]]
          BY <1>1, <2>3, <4>1, <4>3, QueueAssumption DEF StartWorkers
        <5> QED BY <3>1, <5>1 DEF Hosted
      <4> QED BY <4>2, <4>3
    <3> QED BY <3>1 DEF Hosted
  <2> QED BY <1>5, <2>1, <2>2, <2>3, <2>4 DEF InstanceStep
<1>6. ASSUME NEW i \in Instances, Crash(i)
      PROVE  Hosted'
  <2>1. ASSUME NEW y \in Workers \cup Clients, th'[y].pc # "down"
        PROVE  th'[Host[y]].pc \in Serving(y)
    <3>1. y \notin Instances /\ Host[y] \in Instances /\ Host[y] \in Threads /\ y \in Threads
      BY <1>1, QueueAssumption
    <3>2. CASE Host[y] = i
      BY <1>6, <2>1, <3>1, <3>2 DEF Crash, At
    <3>3. CASE Host[y] # i
      <4>1. th'[y] = th[y] /\ th'[Host[y]] = th[Host[y]]
        BY <1>6, <3>1, <3>3 DEF Crash
      <4> QED BY <2>1, <4>1 DEF Hosted
    <3> QED BY <3>2, <3>3
  <2> QED BY <2>1 DEF Hosted
<1>7. CASE UNCHANGED th
  BY <1>7 DEF Hosted
<1>8. ASSUME NEW x \in Threads, Step(x)
      PROVE  Hosted'
  BY <1>2, <1>4, <1>5, <1>8, ClientAlone, WorkerAlone DEF Step
<1>9. ASSUME NEW t \in Tasks, TimePasses(t)
      PROVE  UNCHANGED th
  BY <1>9 DEF TimePasses, DelayElapses, EntryStales, LockExpires
<1>10. CASE Fault
  BY <1>2, <1>6, <1>10, ClientAlone, WorkerAlone DEF Fault
<1>11. ASSUME NEW c \in Clients, NEW t \in Tasks, Arrive(c, t)
       PROVE  Hosted'
  BY <1>2, <1>11, ClientAlone
<1>12. ASSUME NEW w \in Workers, Beat(w)
       PROVE  UNCHANGED th
  BY <1>12, BeatsAlone
<1> QED BY <1>7, <1>8, <1>9, <1>10, <1>11, <1>12 DEF Next, vars

-----------------------------------------------------------------------------
(* The lock *)

(* A worker that keeps what it took keeps its task. *)
Keeps(w) ==
  \/ ~th'[w].locked
  \/ th[w].pc # "releasing" /\ th'[w].task = th[w].task /\ th'[w].locked = th[w].locked

\* A worker that takes another label, and perhaps other commands, keeps its task.
LEMMA KeepsGoingOn ==
  ASSUME Typed, NEW w \in Workers, th[w].pc # "releasing", NEW label, NEW s,
         Then(w, label, s) \/ Goto(w, label)
  PROVE  Keeps(w)
<1>1. w \in Threads /\ th \in [Threads -> Thread] /\ th[w] \in Thread
  BY DEF Threads, Typed, TypeOK
<1>2. CASE Then(w, label, s)
  <2>1. th'[w] = [th[w] EXCEPT !.pc = label, !.todo = s]
    BY <1>1, <1>2, BecomingAlone DEF Then
  <2> QED BY <1>1, <2>1 DEF Keeps, Thread
<1>3. CASE Goto(w, label)
  <2>1. th'[w] = [th[w] EXCEPT !.pc = label]
    BY <1>1, <1>3, BecomingAlone DEF Goto
  <2> QED BY <1>1, <2>1 DEF Keeps, Thread
<1> QED BY <1>2, <1>3

\* A worker that starts again or on another task holds no lock.
LEMMA KeepsNothing ==
  ASSUME Typed, NEW w \in Workers, NEW label, NEW u, NEW s, NEW rows,
         \/ Become(w, At(label))
         \/ Become(w, [At(label) EXCEPT !.task = u])
         \/ Become(w, [At(label) EXCEPT !.task = u, !.todo = s])
         \/ Become(w, [At(label) EXCEPT !.task = u, !.todo = s, !.rest = rows])
  PROVE  ~th'[w].locked
<1>1. w \in Threads /\ th \in [Threads -> Thread]
  BY DEF Threads, Typed, TypeOK
<1>2. /\ ~At(label).locked
      /\ ~[At(label) EXCEPT !.task = u].locked
      /\ ~[At(label) EXCEPT !.task = u, !.todo = s].locked
      /\ ~[At(label) EXCEPT !.task = u, !.todo = s, !.rest = rows].locked
  BY DEF At
<1> QED BY <1>1, <1>2, BecomingAlone

\* Every step of a worker but the one that takes the lock.
LEMMA WorkerKeeps ==
  ASSUME Typed, NEW w \in Workers,
         \/ WorkerStep(w) /\ (TryLock(w) => UNCHANGED lock)
         \/ WorkerError(w)
  PROVE  Keeps(w)
<1>1. w \in Threads /\ th \in [Threads -> Thread] /\ th[w] \in Thread /\ ThreadOK(w, th[w])
  BY DEF Threads, Typed, TypeOK, ThreadsOK
<1>2. ASSUME NEW t \in Tasks, ReleaseDueDelayed(w, t) \/ RecoverStalledActive(w, t)
      PROVE  Keeps(w)
  <2>1. CASE UNCHANGED th
    <3>1. th[w].pc # "releasing"
      BY <1>2 DEF ReleaseDueDelayed, RecoverStalledActive, Ready
    <3> QED BY <2>1, <3>1 DEF Keeps
  <2>2. CASE ~UNCHANGED th
    <3>1. ~th'[w].locked
      BY <1>2, <2>2, KeepsNothing DEF ReleaseDueDelayed, RecoverStalledActive
    <3> QED BY <3>1 DEF Keeps
  <2> QED BY <2>1, <2>2
<1>3. CASE RequeueStalled(w) \/ Pop(w)
  BY <1>3, KeepsNothing DEF Keeps, RequeueStalled, Pop, Start
<1>4. CASE CheckPopped(w)
  BY <1>4, KeepsGoingOn DEF CheckPopped, Ready
<1>5. CASE TryLock(w) /\ UNCHANGED lock
  <2>1. lock[th[w].task] # Free
    <3>1. th[w].task \in Tasks
      BY <1>1, <1>5 DEF TryLock, Ready, ThreadOK, OnTask, WorkerLabels
    <3>2. lock \in [Tasks -> Workers \cup {Free}] /\ w # Free
      BY QueueAssumption DEF Typed, TypeOK
    <3>3. lock' = [lock EXCEPT ![th[w].task] = w] => lock'[th[w].task] = w
      BY <3>1, <3>2
    <3> QED BY <1>5, <3>2, <3>3 DEF TryLock
  <2> QED BY <1>5, <2>1, KeepsGoingOn DEF TryLock, Ready
<1>6. CASE Postpone(w)
  <2>1. CASE Become(w, At("idle"))
    BY <2>1, KeepsNothing DEF Keeps
  <2>2. CASE Then(w, "idle", ScheduleRetry)
    BY <1>6, <2>2, KeepsGoingOn DEF Postpone, Ready
  <2> QED BY <1>6, <2>1, <2>2 DEF Postpone
<1>7. CASE BeginAttempt(w)
  <2>1. CASE Skipped(w)
    BY <1>7, <2>1, KeepsGoingOn DEF BeginAttempt, Ready, Skipped, Settle
  <2>2. CASE ~Skipped(w)
    <3>1. PICK n : th'[w] = [th[w] EXCEPT !.pc = "loaded", !.attempt = n]
      BY <1>1, <1>7, <2>2, BecomingAlone DEF BeginAttempt
    <3>2. th[w].pc # "releasing"
      BY <1>7 DEF BeginAttempt, Ready
    <3> QED BY <1>1, <3>1, <3>2 DEF Keeps, Thread
  <2> QED BY <2>1, <2>2
<1>8. CASE ClaimTask(w) \/ EndAttempt(w) \/ AttemptThrows(w)
  <2>1. th[w].pc # "releasing"
    BY <1>8 DEF ClaimTask, EndAttempt, AttemptThrows, Ready
  <2>2. \/ \E s : Then(w, "settling", s)
        \/ Goto(w, "working")
    BY <1>8 DEF ClaimTask, EndAttempt, AttemptThrows, Outcome, Succeeded, Skipped, Retried, Failed, Settle
  <2> QED BY <2>1, <2>2, KeepsGoingOn
<1>9. CASE Release(w)
  BY <1>9, KeepsGoingOn DEF Release, Ready
<1>10. CASE NextRound(w)
  BY <1>10, KeepsNothing DEF Keeps, NextRound
<1>11. CASE MarkWorkerException(w) \/ GiveUp(w)
  BY <1>11, KeepsGoingOn DEF MarkWorkerException, GiveUp, Ready
<1>12. CASE WorkerError(w)
  <2>1. CASE Become(w, At("idle")) \/ Become(w, At("gone"))
    BY <2>1, KeepsNothing DEF Keeps
  <2>2. CASE \E label : th[w].pc # "releasing" /\ Then(w, label, <<>>)
    BY <2>2, KeepsGoingOn
  <2>3. CASE th[w].pc = "counting" /\ Become(w, [th[w] EXCEPT !.todo = <<>>, !.dying = TRUE])
    <3>1. th'[w] = [th[w] EXCEPT !.todo = <<>>, !.dying = TRUE]
      BY <1>1, <2>3, BecomingAlone
    <3> QED BY <1>1, <2>3, <3>1 DEF Keeps, Thread
  <2> QED BY <1>12, <2>1, <2>2, <2>3 DEF WorkerError
<1> QED BY <1>2, <1>3, <1>4, <1>5, <1>6, <1>7, <1>8, <1>9, <1>10, <1>11, <1>12 DEF WorkerStep

\* Steps that leave the locks alone, and take none, keep LocksHeld.
LEMMA LockFrame ==
  ASSUME Typed, Typed', LocksHeld, UNCHANGED lock,
         \A w \in Workers : Keeps(w) \/ th'[w] = th[w]
  PROVE  LocksHeld'
<1>1. ASSUME NEW w \in Workers, Guards(th'[w])
      PROVE  lock'[th'[w].task] = w
  <2>1. CASE th'[w] = th[w]
    BY <1>1, <2>1 DEF LocksHeld
  <2>2. CASE Keeps(w)
    <3>1. th[w].locked /\ th[w].pc # "releasing" /\ th'[w].task = th[w].task
      BY <1>1, <2>2 DEF Keeps, Guards
    <3> QED BY <3>1 DEF LocksHeld, Guards
  <2> QED BY <1>1, <2>1, <2>2
<1> QED BY <1>1 DEF LocksHeld, Guards

\* A worker that guards its task has one.
LEMMA GuardedTask ==
  ASSUME Typed, NEW w \in Workers, Guards(th[w])
  PROVE  th[w].task \in Tasks /\ th[w].pc \in AfterLock
<1>1. ThreadOK(w, th[w])
  BY DEF Typed, ThreadsOK, Threads
<1>2. AfterLock \subseteq OnTask
  BY DEF AfterLock, OnTask, WorkerLabels
<1> QED BY <1>1, <1>2 DEF ThreadOK, Guards

\* SET NX gives the lock to nobody while a worker guards the task.
LEMMA TryLockGuarded ==
  ASSUME Typed, Typed', LocksHeld, NEW w \in Workers, TryLock(w)
  PROVE  LocksHeld'
<1>1. w \in Threads /\ th \in [Threads -> Thread] /\ ThreadOK(w, th[w])
  BY DEF Threads, Typed, TypeOK, ThreadsOK
<1>2. CASE UNCHANGED lock
  <2>1. Keeps(w)
    BY <1>2, WorkerKeeps DEF WorkerStep
  <2>2. OthersStay(w)
    BY WorkerAlone DEF WorkerStep
  <2> QED BY <1>2, <2>1, <2>2, LockFrame DEF OthersStay, Threads
<1>3. CASE ~UNCHANGED lock
  <2> DEFINE t == th[w].task
  <2>1. /\ lock[t] = Free /\ lock' = [lock EXCEPT ![t] = w]
        /\ Become(w, [th[w] EXCEPT !.pc = "held", !.todo = HoldTask, !.locked = TRUE])
    BY <1>3 DEF TryLock
  <2>2. th'[w] = [th[w] EXCEPT !.pc = "held", !.todo = HoldTask, !.locked = TRUE] /\ OthersStay(w)
    BY <1>1, <2>1, BecomingAlone
  <2>3. t \in Tasks /\ lock \in [Tasks -> Workers \cup {Free}]
    BY <1>1 DEF TryLock, Ready, ThreadOK, OnTask, WorkerLabels, Typed, TypeOK
  <2>4. th'[w].task = t
    BY <1>1, <2>2 DEF Thread
  <2> HIDE DEF t
  <2>5. ASSUME NEW v \in Workers, Guards(th'[v])
        PROVE  lock'[th'[v].task] = v
    <3>1. CASE v = w
      BY <2>1, <2>3, <2>4, <3>1
    <3>2. CASE v # w
      <4>1. th'[v] = th[v]
        BY <2>2, <3>2 DEF OthersStay, Threads
      <4>2. lock[th[v].task] = v /\ th[v].task \in Tasks
        BY <2>5, <4>1, GuardedTask DEF LocksHeld
      <4>3. th[v].task # t
        BY <2>1, <4>2, QueueAssumption
      <4> QED BY <2>1, <2>3, <4>1, <4>2, <4>3
    <3> QED BY <3>1, <3>2
  <2> QED BY <2>5 DEF LocksHeld, Guards
<1> QED BY <1>2, <1>3

\* Commands release only the lock of the worker that runs them.
LEMMA ExecuteGuarded ==
  ASSUME Typed, Typed', LocksHeld, NEW x \in Threads, Execute(x)
  PROVE  LocksHeld'
<1> DEFINE t == th[x].task
           command == Head(th[x].todo)
<1>1. /\ th[x] \in Thread /\ ThreadOK(x, th[x])
      /\ lock \in [Tasks -> Workers \cup {Free}] /\ t \in Tasks
  BY Executed DEF Typed, TypeOK, ThreadsOK
<1>2. lock' = IF command[1] = "unlock" THEN [lock EXCEPT ![t] = Free] ELSE lock
  BY DEF Execute
<1>3. ASSUME NEW w \in Workers, Guards(th'[w])
      PROVE  /\ Guards(th[w]) /\ th'[w].task = th[w].task
             /\ w = x => command # Unlock
  <2>1. CASE w # x
    BY <1>3, <2>1, Executed DEF Threads
  <2>2. CASE w = x
    <3>1. /\ CommandsOf(th'[x].todo) \subseteq CommandsOf(th[x].todo)
          /\ command = Unlock => th'[x].todo = <<>>
          /\ command \in CommandsOf(th[x].todo)
      BY Executed
    <3>2. CASE th'[x] = [th[x] EXCEPT !.todo = th'[x].todo]
      <4>1. th'[x].pc = th[x].pc /\ th'[x].locked = th[x].locked /\ th'[x].task = th[x].task
        BY <1>1, <3>2 DEF Thread
      <4>2. command = Unlock => th[x].pc = "releasing"
        BY <1>1, <3>1 DEF ThreadOK
      <4>3. command # Unlock
        BY <1>3, <2>2, <3>1, <4>1, <4>2, NothingToDo DEF Guards
      <4> QED BY <1>3, <2>2, <3>1, <4>1, <4>3 DEF Guards
    <3>3. CASE th'[x] = At("idle")
      <4>1. ~th'[x].locked
        BY <3>3 DEF At
      <4> QED BY <1>3, <2>2, <4>1 DEF Guards
    <3> QED BY <3>2, <3>3, Executed
  <2> QED BY <2>1, <2>2
<1>4. ASSUME NEW w \in Workers, Guards(th'[w])
      PROVE  lock'[th'[w].task] = w
  <2>1. Guards(th[w]) /\ th'[w].task = th[w].task /\ lock[th[w].task] = w
    BY <1>3, <1>4 DEF LocksHeld
  <2>2. CASE command[1] # "unlock"
    BY <1>2, <2>1, <2>2
  <2>3. CASE command[1] = "unlock"
    <3>1. command = Unlock /\ command \in CommandsOf(th[x].todo)
      <4>1. command \in Commands /\ command \in CommandsOf(th[x].todo)
        BY Executed
      <4> HIDE DEF command
      <4> QED BY <2>3, <4>1 DEF Commands, Add, Remove, Seek, Enlist, Push, Unlock, Forget, Bury
    <3>2. th[x].pc = "releasing" /\ th[x].locked
      BY <1>1, <3>1 DEF ThreadOK
    <3>3. x \in Workers
      BY <1>1, <3>2 DEF ThreadOK, Threads, InstanceLabels, ClientLabels
    <3>4. Guards(th[x])
      BY <3>1, <3>2 DEF Guards
    <3>5. lock[t] = x
      BY <3>3, <3>4 DEF LocksHeld
    <3>6. w # x
      BY <1>3, <1>4, <3>1
    <3>7. th[w].task # t /\ th[w].task \in Tasks
      BY <2>1, <3>5, <3>6, GuardedTask
    <3> HIDE DEF t, command
    <3> QED BY <1>1, <1>2, <2>1, <3>7
  <2> QED BY <2>2, <2>3
<1> QED BY <1>4 DEF LocksHeld, Guards

\* A worker that guards its task keeps the lock until it gives it back.
LEMMA LocksHeldStep ==
  ASSUME Typed, Typed', LocksHeld, [Next]_vars
  PROVE  LocksHeld'
<1>0. Workers \subseteq Threads /\ th \in [Threads -> Thread]
  BY DEF Threads, Typed, TypeOK
<1>1. ASSUME NEW x \in Threads, Step(x)
      PROVE  LocksHeld'
  <2>1. CASE Execute(x)
    BY <2>1, ExecuteGuarded
  <2>2. CASE x \in Clients /\ ClientStep(x)
    <3>1. OthersStay(x) /\ x \notin Workers
      BY <2>2, ClientAlone, QueueAssumption
    <3>2. UNCHANGED lock
      BY <2>2 DEF ClientStep, Admit, Overloaded, Enqueue, CheckQueued, Listed, Refuse,
        ClaimInRequest, EndInRequest, redis
    <3> QED BY <1>0, <3>1, <3>2, LockFrame DEF OthersStay
  <2>3. CASE x \in Instances /\ InstanceStep(x)
    <3>1. UNCHANGED lock
      BY <2>3 DEF InstanceStep, Boot, PendingTasks, RecoverPendingTask, StartWorkers, redis
    <3>2. ASSUME NEW w \in Workers
          PROVE  Keeps(w) \/ th'[w] = th[w]
      <4>1. w # x
        BY <2>3, QueueAssumption
      <4>2. CASE StartWorkers(x)
        <5>1. th'[w] = th[w] \/ th'[w] = At("idle")
          BY <1>0, <4>1, <4>2 DEF StartWorkers
        <5> QED BY <5>1 DEF Keeps, At
      <4>3. CASE PendingTasks(x) \/ RecoverPendingTask(x)
        BY <1>0, <4>1, <4>3 DEF PendingTasks, RecoverPendingTask, Become
      <4>4. CASE Boot(x)
        BY <1>0, <4>1, <4>4, QueueAssumption DEF Boot
      <4> QED BY <2>3, <4>2, <4>3, <4>4 DEF InstanceStep
    <3> QED BY <3>1, <3>2, LockFrame
  <2>4. CASE x \in Workers /\ WorkerStep(x)
    <3>1. CASE TryLock(x)
      BY <2>4, <3>1, TryLockGuarded
    <3>2. CASE ~TryLock(x)
      <4>1. UNCHANGED lock
        BY <2>4, <3>2 DEF WorkerStep, ReleaseDueDelayed, RecoverStalledActive, RequeueStalled, Pop,
          CheckPopped, Postpone, BeginAttempt, ClaimTask, EndAttempt, AttemptThrows, Release,
          NextRound, MarkWorkerException, GiveUp, redis
      <4>2. Keeps(x) /\ OthersStay(x)
        BY <2>4, <3>2, WorkerKeeps, WorkerAlone
      <4> QED BY <1>0, <4>1, <4>2, LockFrame DEF OthersStay
    <3> QED BY <3>1, <3>2
  <2> QED BY <1>1, <2>1, <2>2, <2>3, <2>4 DEF Step
<1>2. ASSUME NEW c \in Clients, NEW t \in Tasks, Arrive(c, t)
      PROVE  LocksHeld'
  <2>1. OthersStay(c) /\ c \notin Workers
    BY <1>2, ClientAlone, QueueAssumption
  <2>2. UNCHANGED lock
    BY <1>2 DEF Arrive, CreateTask, RepeatRequest, redis
  <2> QED BY <1>0, <2>1, <2>2, LockFrame DEF OthersStay
<1>3. ASSUME NEW t \in Tasks, TimePasses(t)
      PROVE  LocksHeld'
  <2>1. UNCHANGED th
    BY <1>3 DEF TimePasses, DelayElapses, EntryStales, LockExpires
  <2>2. CASE UNCHANGED lock
    BY <2>1, <2>2, LockFrame
  <2>3. CASE LockExpires(t)
    <3>1. ASSUME NEW w \in Workers, Guards(th[w])
          PROVE  lock'[th[w].task] = w
      <4>1. lock[th[w].task] = w /\ th[w].task \in Tasks
        BY <3>1, GuardedTask DEF LocksHeld
      <4>2. th[w].task # t
        BY <2>3, <3>1, <4>1 DEF LockExpires, Holds, Guards
      <4> QED BY <2>3, <4>1, <4>2 DEF LockExpires, Typed, TypeOK
    <3> QED BY <2>1, <3>1 DEF LocksHeld, Guards
  <2> QED BY <1>3, <2>2, <2>3 DEF TimePasses, DelayElapses, EntryStales
<1>4. CASE Fault
  <2>1. ASSUME NEW i \in Instances, Crash(i)
        PROVE  LocksHeld'
    <3>1. \A w \in Workers : Keeps(w) \/ th'[w] = th[w]
      BY <1>0, <2>1 DEF Crash, Keeps, At
    <3>2. UNCHANGED lock
      BY <2>1 DEF Crash, redis
    <3> QED BY <3>1, <3>2, LockFrame
  <2>2. ASSUME NEW c \in Clients, ClientError(c)
        PROVE  LocksHeld'
    <3>1. OthersStay(c) /\ c \notin Workers
      BY <2>2, ClientAlone, QueueAssumption
    <3>2. UNCHANGED lock
      BY <2>2 DEF ClientError
    <3> QED BY <1>0, <3>1, <3>2, LockFrame DEF OthersStay
  <2>3. ASSUME NEW w \in Workers, WorkerError(w)
        PROVE  LocksHeld'
    <3>1. Keeps(w) /\ OthersStay(w)
      BY <2>3, WorkerKeeps, WorkerAlone
    <3>2. UNCHANGED lock
      BY <2>3 DEF WorkerError, redis
    <3> QED BY <1>0, <3>1, <3>2, LockFrame DEF OthersStay
  <2> QED BY <1>4, <2>1, <2>2, <2>3 DEF Fault
<1>5. CASE UNCHANGED vars
  BY <1>5, LockFrame DEF vars, redis
<1>6. ASSUME NEW w \in Workers, Beat(w)
      PROVE  LocksHeld'
  BY <1>6, BeatsAlone, LockFrame
<1> QED BY <1>1, <1>2, <1>3, <1>4, <1>5, <1>6 DEF Next

-----------------------------------------------------------------------------
(* The rows *)

(* A row that is not settled may be settled, or go on waiting or working. *)
RowMoves(t) ==
  status'[t] = status[t] \/ (status[t] \in Pending /\ status'[t] \in Pending \cup Terminal)

\* failTask settles a pending task and touches no other.
LEMMA FailTaskMoves ==
  ASSUME Typed, NEW u \in Tasks, FailTask(u)
  PROVE  \A t \in Tasks : RowMoves(t)
BY DEF FailTask, RowMoves, Typed, TypeOK, Terminal

\* A settled task stays as it is, and only createTask makes a task pending.
LEMMA RowsMove ==
  ASSUME Typed, [Next]_vars
  PROVE  \/ \A t \in Tasks : RowMoves(t)
         \/ \E c \in Clients, t \in Tasks : CreateTask(c, t)
<1>0. status \in [Tasks -> Statuses]
  BY DEF Typed, TypeOK
<1>1. ASSUME status' = status
      PROVE  \A t \in Tasks : RowMoves(t)
  BY <1>1 DEF RowMoves
<1>2. ASSUME NEW u \in Tasks, NEW v \in Pending \cup Terminal, status[u] \in Pending,
             status' = [status EXCEPT ![u] = v]
      PROVE  \A t \in Tasks : RowMoves(t)
  BY <1>0, <1>2 DEF RowMoves
<1>3. ASSUME NEW w \in Workers, th[w].pc \in OnTask
      PROVE  th[w].task \in Tasks
  BY <1>3 DEF Typed, ThreadsOK, ThreadOK, Threads
<1>4. {"held", "loaded", "working", "givingUp", "recovering"} \subseteq OnTask
      /\ "queued" \in Pending /\ "processing" \in Pending /\ "success" \in Terminal
  BY DEF OnTask, WorkerLabels, Pending, Terminal
<1>5. ASSUME NEW x \in Threads, Step(x)
      PROVE  \A t \in Tasks : RowMoves(t)
  <2>1. CASE Execute(x)
    BY <1>1, <2>1 DEF Execute
  <2>2. CASE x \in Clients /\ ClientStep(x)
    <3>1. CASE Refuse(x)
      <4>1. th[x].task \in Tasks
        BY <2>2, <3>1 DEF Refuse, Ready, Typed, ThreadsOK, ThreadOK, OnTask, ClientLabels
      <4> QED BY <3>1, <4>1, FailTaskMoves DEF Refuse
    <3>3. CASE ClaimInRequest(x) \/ EndInRequest(x)
      <4>1. th[x].task \in Tasks
        BY <2>2, <3>3 DEF ClaimInRequest, EndInRequest, Ready, Typed, ThreadsOK, ThreadOK, OnTask, ClientLabels
      <4>2. \/ status' = status
            \/ status[th[x].task] = "queued" /\ status' = [status EXCEPT ![th[x].task] = "processing"]
            \/ status[th[x].task] = "processing" /\ status' = [status EXCEPT ![th[x].task] = "success"]
            \/ FailTask(th[x].task)
        BY <3>3 DEF ClaimInRequest, EndInRequest
      <4> QED BY <1>1, <1>2, <1>4, <4>1, <4>2, FailTaskMoves
    <3>2. CASE ~Refuse(x) /\ ~(ClaimInRequest(x) \/ EndInRequest(x))
      <4>1. status' = status
        BY <2>2, <3>2 DEF ClientStep, Admit, Overloaded, Enqueue, CheckQueued, Listed
      <4> QED BY <1>1, <4>1
    <3> QED BY <3>1, <3>2, <3>3
  <2>3. CASE x \in Instances /\ InstanceStep(x)
    <3>1. CASE Boot(x) \/ PendingTasks(x) \/ StartWorkers(x)
      BY <1>1, <3>1 DEF Boot, PendingTasks, StartWorkers
    <3>2. CASE RecoverPendingTask(x)
      <4>1. PICK row \in th[x].rest :
              status' = IF row[2] = "processing" /\ status[row[1]] = "processing"
                        THEN [status EXCEPT ![row[1]] = "queued"] ELSE status
        BY <3>2 DEF RecoverPendingTask
      <4>2. th[x] \in Thread
        BY <2>3 DEF Typed, TypeOK
      <4>3. row[1] \in Tasks
        BY <4>2 DEF Thread
      <4> QED BY <1>1, <1>2, <1>4, <4>1, <4>3
    <3> QED BY <2>3, <3>1, <3>2 DEF InstanceStep
  <2>4. CASE x \in Workers /\ WorkerStep(x)
    <3>1. CASE RequeueStalled(x)
      <4>1. th[x].task \in Tasks
        BY <1>3, <1>4, <2>4, <3>1 DEF RequeueStalled, Ready
      <4>2. \/ status' = status
            \/ status[th[x].task] = "processing" /\ status' = [status EXCEPT ![th[x].task] = "queued"]
        BY <3>1 DEF RequeueStalled
      <4> QED BY <1>1, <1>2, <1>4, <4>1, <4>2
    <3>2. CASE ClaimTask(x)
      <4>1. th[x].task \in Tasks
        BY <1>3, <1>4, <2>4, <3>2 DEF ClaimTask, Ready
      <4>2. \/ status' = status
            \/ status[th[x].task] = "queued" /\ status' = [status EXCEPT ![th[x].task] = "processing"]
            \/ FailTask(th[x].task)
        BY <3>2 DEF ClaimTask
      <4> QED BY <1>1, <1>2, <1>4, <4>1, <4>2, FailTaskMoves
    <3>3. CASE EndAttempt(x)
      <4>1. th[x].task \in Tasks
        BY <1>3, <1>4, <2>4, <3>3 DEF EndAttempt, Ready
      <4>2. \/ status' = status
            \/ /\ status[th[x].task] = "processing"
               /\ \E v \in {"success", "queued"} : status' = [status EXCEPT ![th[x].task] = v]
            \/ FailTask(th[x].task)
        BY <3>3 DEF EndAttempt
      <4> QED BY <1>1, <1>2, <1>4, <4>1, <4>2, FailTaskMoves
    <3>4. CASE AttemptThrows(x)
      <4>1. th[x].task \in Tasks
        BY <1>3, <1>4, <2>4, <3>4 DEF AttemptThrows, Ready
      <4>2. \/ status' = status
            \/ /\ status[th[x].task] \in Pending
               /\ \E v \in Pending : status' = [status EXCEPT ![th[x].task] = v]
            \/ FailTask(th[x].task)
        BY <1>4, <3>4 DEF AttemptThrows
      <4> QED BY <1>1, <1>2, <4>1, <4>2, FailTaskMoves
    <3>5. CASE GiveUp(x)
      <4>1. th[x].task \in Tasks
        BY <1>3, <1>4, <2>4, <3>5 DEF GiveUp, Ready
      <4> QED BY <3>5, <4>1, FailTaskMoves DEF GiveUp
    <3>6. CASE UNCHANGED status
      BY <1>1, <3>6
    <3> QED
      BY <2>4, <3>1, <3>2, <3>3, <3>4, <3>5, <3>6
      DEF WorkerStep, ReleaseDueDelayed, RecoverStalledActive, Pop, CheckPopped, TryLock, Postpone,
          BeginAttempt, Release, NextRound, MarkWorkerException
  <2> QED BY <1>5, <2>1, <2>2, <2>3, <2>4 DEF Step
<1>6. ASSUME NEW c \in Clients, NEW t \in Tasks, RepeatRequest(c, t)
      PROVE  status' = status
  BY <1>6 DEF RepeatRequest
<1>7. ASSUME NEW t \in Tasks, TimePasses(t)
      PROVE  status' = status
  BY <1>7 DEF TimePasses, DelayElapses, EntryStales, LockExpires
<1>8. CASE Fault
  <2>1. status' = status
    BY <1>8 DEF Fault, Crash, ClientError, WorkerError
  <2> QED BY <1>1, <2>1
<1>9. CASE UNCHANGED vars
  BY <1>1, <1>9 DEF vars
<1>10. ASSUME NEW w \in Workers, Beat(w)
       PROVE  status' = status
  BY <1>10, BeatsAlone
<1> QED BY <1>1, <1>5, <1>6, <1>7, <1>8, <1>9, <1>10 DEF Next, Arrive

-----------------------------------------------------------------------------
(* The attempts *)

(* The worker does not begin an attempt, and does not leave a last one       *)
(* without the task being settled or the count being about to go.            *)
StaysAtWork(w) ==
  /\ th'[w].pc \in {"loaded", "working"} =>
       /\ th[w].pc \in {"loaded", "working"}
       /\ th'[w].task = th[w].task /\ th'[w].attempt = th[w].attempt
  /\ \A t \in Tasks :
       Attempting(th[w], t) /\ attempts[t] = Bound => Attempting(th'[w], t) \/ status'[t] \in Terminal

(* It does not begin one, and that is all. *)
BeginsNone(w) ==
  th'[w].pc \in {"loaded", "working"} =>
    /\ th[w].pc \in {"loaded", "working"}
    /\ th'[w].task = th[w].task /\ th'[w].attempt = th[w].attempt

\* The bound is a number, and not smaller than the attempts configured.
LEMMA BoundIsNat ==
  ASSUME Typed
  PROVE  Bound \in Nat /\ Bound >= MaxAttempts /\ Bound > 0
BY QueueAssumption DEF Typed, TypeOK, Bound

\* Steps of workers that stay at work, and of others, keep the count.
LEMMA AttemptsFrame ==
  ASSUME Typed, Typed', AttemptsCounted, UNCHANGED <<attempts, outside>>,
         \A t \in Tasks : RowMoves(t), \A w \in Workers : StaysAtWork(w) \/ th'[w] = th[w]
  PROVE  AttemptsCounted'
<1>1. Bound' = Bound
  BY DEF Bound, outside
<1>2. ASSUME NEW w \in Workers, th'[w].pc \in {"loaded", "working"}
      PROVE  attempts'[th'[w].task] <= th'[w].attempt
  BY <1>2 DEF AttemptsCounted, StaysAtWork
<1>3. ASSUME NEW t \in Tasks, attempts'[t] = Bound', status'[t] \notin Terminal
      PROVE  \E w \in Workers : Attempting(th'[w], t)
  <2>1. status[t] \notin Terminal
    BY <1>3 DEF RowMoves, Pending, Terminal
  <2>2. PICK w \in Workers : Attempting(th[w], t)
    BY <1>1, <1>3, <2>1 DEF AttemptsCounted
  <2> QED BY <1>1, <1>3, <2>2 DEF StaysAtWork
<1>4. \A t \in Tasks : attempts'[t] <= Bound'
  BY <1>1 DEF AttemptsCounted
<1> QED BY <1>2, <1>3, <1>4 DEF AttemptsCounted

\* A fault allows one attempt more.
LEMMA AttemptsFault ==
  ASSUME Typed, Typed', AttemptsCounted, UNCHANGED attempts,
         Bound' = Bound + 1, \A w \in Workers : BeginsNone(w) \/ th'[w] = th[w]
  PROVE  AttemptsCounted'
<1>1. Bound \in Nat /\ \A t \in Tasks : attempts[t] \in Nat
  BY BoundIsNat DEF Typed, TypeOK
<1>2. ASSUME NEW w \in Workers, th'[w].pc \in {"loaded", "working"}
      PROVE  attempts'[th'[w].task] <= th'[w].attempt
  BY <1>2 DEF AttemptsCounted, BeginsNone
<1>3. \A t \in Tasks : attempts'[t] <= Bound' /\ attempts'[t] # Bound'
  BY <1>1 DEF AttemptsCounted
<1> QED BY <1>2, <1>3 DEF AttemptsCounted

\* Other threads do not disturb the work.
LEMMA AttemptsElsewhere ==
  ASSUME Typed, Typed', AttemptsCounted, UNCHANGED <<attempts, outside>>,
         \A t \in Tasks : RowMoves(t), NEW x \in Threads, OthersStay(x), x \in Workers => StaysAtWork(x)
  PROVE  AttemptsCounted'
<1>1. \A w \in Workers : StaysAtWork(w) \/ th'[w] = th[w]
  BY DEF OthersStay, Threads
<1> QED BY <1>1, AttemptsFrame

\* Commands only take the count back.
LEMMA ExecuteCounted ==
  ASSUME Typed, Typed', AttemptsCounted, NEW x \in Threads, Execute(x)
  PROVE  AttemptsCounted'
<1> DEFINE u == th[x].task
           command == Head(th[x].todo)
<1>1. /\ th[x] \in Thread /\ ThreadOK(x, th[x])
      /\ attempts \in [Tasks -> Nat] /\ u \in Tasks
  BY Executed DEF Typed, TypeOK, ThreadsOK
<1>2. UNCHANGED <<status, outside>>
  BY DEF Execute
<1>3. attempts' = IF command[1] = "forget" THEN [attempts EXCEPT ![u] = 0] ELSE attempts
  BY DEF Execute
<1>4. Bound' = Bound /\ Bound \in Nat /\ Bound > 0
  BY <1>2, BoundIsNat DEF Bound, outside
<1>5. command \in Commands
  BY Executed
<1>6. command[1] = "forget" <=> command = Forget
  <2> HIDE DEF command
  <2> QED BY <1>5 DEF Commands, Add, Remove, Seek, Enlist, Push, Unlock, Forget, Bury
<1>7. ASSUME NEW t \in Tasks
      PROVE  attempts'[t] <= attempts[t] /\ attempts'[t] \in Nat
             /\ (command = Forget /\ t = u => attempts'[t] = 0)
  <2> HIDE DEF command, u
  <2> QED BY <1>1, <1>3, <1>6
<1>8. ASSUME NEW w \in Workers
      PROVE  /\ th'[w].pc \in {"loaded", "working"} => th'[w] = th[w]
             /\ \A t \in Tasks : Attempting(th[w], t) =>
                  Attempting(th'[w], t) \/ (command = Forget /\ t = u)
  <2>1. CASE w # x
    BY <2>1, Executed DEF Threads
  <2>2. CASE w = x
    <3>1. th[x].pc \notin {"loaded", "working"}
      BY <1>1, Executed DEF ThreadOK
    <3>2. CASE th[x].pc = "idle" /\ th'[x] = At("idle")
      BY <2>2, <3>2 DEF At, Attempting
    <3>3. CASE th'[x] = [th[x] EXCEPT !.todo = th'[x].todo]
      <4>1. th'[x].pc = th[x].pc /\ th'[x].task = th[x].task
        BY <1>1, <3>3 DEF Thread
      <4>2. CommandsOf(th[x].todo) \subseteq {command, Push} \cup CommandsOf(th'[x].todo)
            \/ th[x].pc \in {"listing", "booting"}
        BY Executed
      <4>3. Forget # Push
        BY DEF Forget, Push
      <4> QED BY <2>2, <3>1, <4>1, <4>2, <4>3 DEF Attempting
    <3> QED BY <3>2, <3>3, Executed
  <2> QED BY <2>1, <2>2
<1>9. ASSUME NEW w \in Workers, th'[w].pc \in {"loaded", "working"}
      PROVE  attempts'[th'[w].task] <= th'[w].attempt
  <2>1. th'[w] = th[w] /\ w \in Threads
    BY <1>8, <1>9 DEF Threads
  <2>2. th[w].task \in Tasks /\ th[w].attempt \in Nat
    BY <1>9, <2>1 DEF Typed, TypeOK, ThreadsOK, ThreadOK, OnTask, WorkerLabels, Thread
  <2>3. attempts[th[w].task] <= th[w].attempt
    BY <1>9, <2>1 DEF AttemptsCounted
  <2> QED BY <1>1, <1>7, <2>1, <2>2, <2>3
<1>10. ASSUME NEW t \in Tasks
       PROVE  /\ attempts'[t] <= Bound'
              /\ attempts'[t] = Bound' /\ status'[t] \notin Terminal =>
                   \E w \in Workers : Attempting(th'[w], t)
  <2>1. attempts[t] <= Bound /\ attempts[t] \in Nat
    BY <1>1 DEF AttemptsCounted
  <2>2. attempts'[t] <= Bound'
    BY <1>4, <1>7, <2>1
  <2>3. ASSUME attempts'[t] = Bound', status'[t] \notin Terminal
        PROVE  \E w \in Workers : Attempting(th'[w], t)
    <3>1. attempts[t] = Bound /\ ~(command = Forget /\ t = u)
      BY <1>4, <1>7, <2>1, <2>3
    <3>2. PICK w \in Workers : Attempting(th[w], t)
      BY <1>2, <2>3, <3>1 DEF AttemptsCounted
    <3> QED BY <1>8, <3>1, <3>2
  <2> QED BY <2>2, <2>3
<1> QED BY <1>9, <1>10 DEF AttemptsCounted

\* An attempt begins with the lock, so that no other is under way; the task is
\* not settled, so that one is left.
LEMMA BeginCounted ==
  ASSUME Typed, Typed', LocksHeld, AttemptsCounted, NEW w \in Workers, BeginAttempt(w)
  PROVE  AttemptsCounted'
<1> DEFINE u == th[w].task
<1>1. w \in Threads /\ th[w] \in Thread /\ ThreadOK(w, th[w]) /\ OthersStay(w)
      /\ th \in [Threads -> Thread] /\ attempts \in [Tasks -> Nat]
  BY WorkerAlone DEF WorkerStep, Threads, Typed, TypeOK, ThreadsOK
<1>2. th[w].pc = "held" /\ th[w].locked /\ u \in Tasks
  BY <1>1 DEF BeginAttempt, Ready, ThreadOK, OnTask, WorkerLabels
<1>3. UNCHANGED <<status, outside>>
  BY DEF BeginAttempt
<1>4. \A t \in Tasks : RowMoves(t)
  BY <1>3 DEF RowMoves
<1>5. CASE Skipped(w) /\ UNCHANGED attempts
  <2>1. th'[w] = [th[w] EXCEPT !.pc = "settling", !.todo = <<Forget>> \o ReleaseQueueMembership]
    BY <1>1, <1>5, BecomingAlone DEF Skipped, Settle, Then
  <2>2. th'[w].pc = "settling"
    BY <1>1, <2>1 DEF Thread
  <2>3. StaysAtWork(w)
    BY <1>2, <2>2 DEF StaysAtWork, Attempting
  <2> QED BY <1>1, <1>3, <1>4, <1>5, <2>3, AttemptsElsewhere
<1>6. CASE ~(Skipped(w) /\ UNCHANGED attempts)
  <2> DEFINE n == attempts[u] + 1
  <2>1. /\ status[u] = "queued" /\ attempts' = [attempts EXCEPT ![u] = n]
        /\ Become(w, [th[w] EXCEPT !.pc = "loaded", !.attempt = n])
    BY <1>6 DEF BeginAttempt
  <2>2. th'[w] = [th[w] EXCEPT !.pc = "loaded", !.attempt = n]
    BY <1>1, <2>1, BecomingAlone
  <2>3. th'[w].pc = "loaded" /\ th'[w].task = u /\ th'[w].attempt = n
    BY <1>1, <2>2 DEF Thread
  <2>4. lock[u] = w
    BY <1>2 DEF LocksHeld, Guards
  <2>5. ASSUME NEW v \in Workers, th[v].pc \in {"loaded", "working", "settling"}
        PROVE  th[v].task # u
    <3>1. Guards(th[v])
      BY <2>5 DEF Guards, Typed, ThreadsOK, ThreadOK, Threads
    <3>2. lock[th[v].task] = v
      BY <3>1 DEF LocksHeld
    <3> QED BY <1>2, <2>4, <2>5, <3>2
  <2>6. attempts[u] < Bound /\ attempts[u] \in Nat /\ Bound \in Nat
    <3>1. attempts[u] # Bound
      BY <1>2, <2>1, <2>5 DEF AttemptsCounted, Attempting, Terminal
    <3> QED BY <1>1, <1>2, <3>1, BoundIsNat DEF AttemptsCounted
  <2>7. Bound' = Bound
    BY <1>3 DEF Bound, outside
  <2> HIDE DEF u
  <2>8. ASSUME NEW v \in Workers, th'[v].pc \in {"loaded", "working"}
        PROVE  attempts'[th'[v].task] <= th'[v].attempt
    <3>1. CASE v = w
      BY <1>1, <1>2, <2>1, <2>3, <2>6, <3>1
    <3>2. CASE v # w
      <4>1. th'[v] = th[v]
        BY <1>1, <3>2 DEF OthersStay, Threads
      <4>2. attempts[th[v].task] <= th[v].attempt /\ th[v].task # u
        BY <2>5, <2>8, <4>1 DEF AttemptsCounted
      <4>3. th[v].task \in Tasks
        BY <2>8, <4>1 DEF Typed, ThreadsOK, ThreadOK, OnTask, WorkerLabels, Threads
      <4> QED BY <1>1, <2>1, <4>1, <4>2, <4>3
    <3> QED BY <3>1, <3>2
  <2>9. ASSUME NEW t \in Tasks
        PROVE  /\ attempts'[t] <= Bound'
               /\ attempts'[t] = Bound' /\ status'[t] \notin Terminal =>
                    \E v \in Workers : Attempting(th'[v], t)
    <3>1. CASE t = u
      <4>1. attempts'[t] = attempts[u] + 1
        BY <1>1, <1>2, <2>1, <3>1
      <4>2. Attempting(th'[w], t)
        BY <2>3, <3>1 DEF Attempting
      <4> QED BY <2>6, <2>7, <4>1, <4>2
    <3>2. CASE t # u
      <4>1. attempts'[t] = attempts[t] /\ status'[t] = status[t]
        BY <1>1, <1>3, <2>1, <3>2
      <4>2. ASSUME NEW v \in Workers, Attempting(th[v], t)
            PROVE  Attempting(th'[v], t)
        <5>1. v # w
          BY <1>2, <4>2 DEF Attempting
        <5> QED BY <1>1, <4>2, <5>1 DEF OthersStay, Threads
      <4> QED BY <2>7, <4>1, <4>2 DEF AttemptsCounted
    <3> QED BY <3>1, <3>2
  <2> QED BY <2>8, <2>9 DEF AttemptsCounted
<1> QED BY <1>5, <1>6

\* Settling takes the count back, unless an attempt is left.
LEMMA SettleCounted ==
  ASSUME Typed, AttemptsCounted, NEW w \in Workers, th[w].pc \in {"loaded", "working"},
         \/ Succeeded(w) \/ Skipped(w) \/ Failed(w)
         \/ Retried(w) /\ th[w].attempt < MaxAttempts
         \/ Retried(w) /\ status'[th[w].task] \in Terminal
  PROVE  StaysAtWork(w)
<1>1. w \in Threads /\ th[w] \in Thread /\ th \in [Threads -> Thread] /\ ThreadOK(w, th[w])
  BY DEF Threads, Typed, TypeOK, ThreadsOK
<1>2. PICK s : /\ th'[w] = [th[w] EXCEPT !.pc = "settling", !.todo = s]
               /\ \/ Forget \in CommandsOf(s)
                  \/ th[w].attempt < MaxAttempts
                  \/ status'[th[w].task] \in Terminal
  <2>1. Forget \in CommandsOf(<<Forget>> \o ReleaseQueueMembership) /\ Forget \in CommandsOf(MoveToDead)
    BY JoinedProcedures
  <2>2. PICK s : /\ Then(w, "settling", s)
                 /\ \/ Forget \in CommandsOf(s)
                    \/ th[w].attempt < MaxAttempts
                    \/ status'[th[w].task] \in Terminal
    BY <2>1 DEF Succeeded, Skipped, Failed, Retried, Settle
  <2>3. th'[w] = [th[w] EXCEPT !.pc = "settling", !.todo = s]
    BY <1>1, <2>2, BecomingAlone DEF Then
  <2> QED BY <2>2, <2>3
<1>3. th'[w].pc = "settling" /\ th'[w].todo = s /\ th'[w].task = th[w].task
  BY <1>1, <1>2 DEF Thread
<1>4. ASSUME NEW t \in Tasks, Attempting(th[w], t), attempts[t] = Bound
      PROVE  Attempting(th'[w], t) \/ status'[t] \in Terminal
  <2>1. th[w].task = t
    BY <1>4 DEF Attempting
  <2>2. attempts[t] <= th[w].attempt /\ th[w].attempt \in Nat
    BY <1>1, <2>1 DEF AttemptsCounted, Thread
  <2>3. ~(th[w].attempt < MaxAttempts)
    BY <1>4, <2>2, BoundIsNat, QueueAssumption
  <2> QED BY <1>2, <1>3, <2>1, <2>3 DEF Attempting
<1> QED BY <1>3, <1>4 DEF StaysAtWork

\* The end of an attempt, however it comes, keeps the count.
LEMMA WorkCounted ==
  ASSUME Typed, Typed', AttemptsCounted, NEW w \in Workers,
         ClaimTask(w) \/ EndAttempt(w) \/ AttemptThrows(w),
         \A t \in Tasks : RowMoves(t)
  PROVE  AttemptsCounted'
<1>1. w \in Threads /\ th[w] \in Thread /\ th \in [Threads -> Thread] /\ ThreadOK(w, th[w])
      /\ OthersStay(w) /\ status \in [Tasks -> Statuses]
  BY WorkerAlone DEF WorkerStep, Threads, Typed, TypeOK, ThreadsOK
<1>2. UNCHANGED <<attempts, outside>>
  BY DEF ClaimTask, EndAttempt, AttemptThrows, redis
<1>3. th[w].pc \in {"loaded", "working"}
  BY DEF ClaimTask, EndAttempt, AttemptThrows, Ready
<1>4. StaysAtWork(w)
  <2>1. CASE Goto(w, "working")
    <3>1. th'[w] = [th[w] EXCEPT !.pc = "working"]
      BY <1>1, <2>1, BecomingAlone DEF Goto
    <3>2. th'[w].pc = "working" /\ th'[w].task = th[w].task /\ th'[w].attempt = th[w].attempt
      BY <1>1, <3>1 DEF Thread
    <3> QED BY <1>3, <3>2 DEF StaysAtWork, Attempting
  <2>2. CASE Succeeded(w) \/ Skipped(w) \/ Failed(w) \/ (Retried(w) /\ th[w].attempt < MaxAttempts)
    BY <1>3, <2>2, SettleCounted
  <2>3. CASE Outcome(w, status[th[w].task]) \/ Outcome(w, status'[th[w].task])
    BY <2>2, <2>3 DEF Outcome
  <2> QED BY <2>1, <2>2, <2>3 DEF ClaimTask, EndAttempt, AttemptThrows
<1> QED BY <1>1, <1>2, <1>4, AttemptsElsewhere

\* A worker that is not in an attempt and does not begin one.
LEMMA OutsideAttempt ==
  ASSUME Typed, NEW w \in Workers,
         \A t \in Tasks : ~Attempting(th[w], t),
         th'[w].pc \notin {"loaded", "working"}
  PROVE  StaysAtWork(w)
BY DEF StaysAtWork

\* The labels that the steps outside of an attempt lead to.
LEMMA OtherSteps ==
  ASSUME Typed, NEW w \in Workers, WorkerStep(w),
         ~BeginAttempt(w), ~ClaimTask(w), ~EndAttempt(w), ~AttemptThrows(w)
  PROVE  StaysAtWork(w) /\ UNCHANGED <<attempts, outside>>
<1>1. w \in Threads /\ th[w] \in Thread /\ th \in [Threads -> Thread] /\ ThreadOK(w, th[w])
  BY DEF Threads, Typed, TypeOK, ThreadsOK
<1>2. UNCHANGED <<attempts, outside>>
  BY DEF WorkerStep, ReleaseDueDelayed, RecoverStalledActive, RequeueStalled, Pop,
     CheckPopped, TryLock, Postpone, Release, NextRound, MarkWorkerException, GiveUp, redis
<1>3. th[w].pc \notin {"loaded", "working"} /\ (th[w].pc = "settling" => th[w].todo = <<>>)
  BY DEF WorkerStep, ReleaseDueDelayed, RecoverStalledActive, RequeueStalled, Pop,
     CheckPopped, TryLock, Postpone, Release, NextRound, MarkWorkerException, GiveUp, Ready
<1>4. \A t \in Tasks : ~Attempting(th[w], t)
  BY <1>3, NothingToDo DEF Attempting
<1>5. ASSUME NEW label, label \notin {"loaded", "working"}, NEW u, NEW s, NEW rows,
             \/ Become(w, At(label))
             \/ Become(w, [At(label) EXCEPT !.task = u])
             \/ Become(w, [At(label) EXCEPT !.task = u, !.todo = s])
             \/ Become(w, [At(label) EXCEPT !.task = u, !.todo = s, !.rest = rows])
      PROVE  th'[w].pc \notin {"loaded", "working"}
  <2>1. /\ At(label).pc = label
        /\ [At(label) EXCEPT !.task = u].pc = label
        /\ [At(label) EXCEPT !.task = u, !.todo = s].pc = label
        /\ [At(label) EXCEPT !.task = u, !.todo = s, !.rest = rows].pc = label
    BY DEF At
  <2> QED BY <1>1, <1>5, <2>1, BecomingAlone
<1>6. ASSUME NEW label, label \notin {"loaded", "working"}, NEW s,
             \/ Goto(w, label)
             \/ Then(w, label, s)
             \/ Become(w, [th[w] EXCEPT !.pc = label, !.todo = s, !.locked = TRUE])
      PROVE  th'[w].pc \notin {"loaded", "working"}
  <2>1. /\ [th[w] EXCEPT !.pc = label].pc = label
        /\ [th[w] EXCEPT !.pc = label, !.todo = s].pc = label
        /\ [th[w] EXCEPT !.pc = label, !.todo = s, !.locked = TRUE].pc = label
    BY <1>1 DEF Thread
  <2> QED BY <1>1, <1>6, <2>1, BecomingAlone DEF Goto, Then
<1>7. th'[w].pc \notin {"loaded", "working"}
  <2>1. ASSUME NEW t \in Tasks, ReleaseDueDelayed(w, t) \/ RecoverStalledActive(w, t)
        PROVE  th'[w].pc \notin {"loaded", "working"}
    <3>1. CASE UNCHANGED th
      BY <1>3, <3>1
    <3>2. CASE ReleaseDueDelayed(w, t) /\ ~UNCHANGED th
      BY <1>5, <1>6, <3>2 DEF ReleaseDueDelayed
    <3>3. CASE RecoverStalledActive(w, t)
      BY <1>5, <1>6, <3>3 DEF RecoverStalledActive
    <3> QED BY <2>1, <3>1, <3>2, <3>3
  <2>2. CASE RequeueStalled(w)
    BY <1>5, <1>6, <2>2 DEF RequeueStalled
  <2>3. CASE Pop(w)
    BY <1>5, <1>6, <2>3 DEF Pop, Start
  <2>4. CASE CheckPopped(w)
    BY <1>5, <1>6, <2>4 DEF CheckPopped
  <2>5. CASE TryLock(w)
    BY <1>5, <1>6, <2>5 DEF TryLock
  <2>6. CASE Postpone(w)
    BY <1>5, <1>6, <2>6 DEF Postpone
  <2>7. CASE Release(w)
    BY <1>5, <1>6, <2>7 DEF Release
  <2>8. CASE NextRound(w)
    BY <1>5, <1>6, <2>8 DEF NextRound
  <2>9. CASE MarkWorkerException(w)
    BY <1>5, <1>6, <2>9 DEF MarkWorkerException
  <2>10. CASE GiveUp(w)
    BY <1>5, <1>6, <2>10 DEF GiveUp
  <2> QED BY <2>1, <2>2, <2>3, <2>4, <2>5, <2>6, <2>7, <2>8, <2>9, <2>10 DEF WorkerStep
<1> QED BY <1>2, <1>4, <1>7, OutsideAttempt

\* The count of a task's attempts is right after every step.
LEMMA AttemptsStep ==
  ASSUME Typed, Typed', Hosted, LocksHeld, AttemptsCounted, [Next]_vars
  PROVE  AttemptsCounted'
<1>1. Workers \subseteq Threads /\ th \in [Threads -> Thread]
  BY DEF Threads, Typed, TypeOK
<1>2. CASE \E c \in Clients, t \in Tasks : CreateTask(c, t)
  <2> PICK c \in Clients, u \in Tasks : CreateTask(c, u)
    BY <1>2
  <2>1. OthersStay(c) /\ c \notin Workers
    BY ClientAlone, QueueAssumption DEF Arrive
  <2>2. \A w \in Workers : th'[w] = th[w]
    BY <1>1, <2>1 DEF OthersStay
  <2>3. UNCHANGED <<attempts, outside>> /\ status[u] = "none" /\ status' = [status EXCEPT ![u] = "queued"]
    BY DEF CreateTask, redis
  <2>4. \A t \in Tasks : status'[t] \notin Terminal => status[t] \notin Terminal
    BY <2>3 DEF Typed, TypeOK, Terminal
  <2>5. Bound' = Bound
    BY <2>3 DEF Bound, outside
  <2> QED BY <2>2, <2>3, <2>4, <2>5 DEF AttemptsCounted
<1>3. ASSUME \A t \in Tasks : RowMoves(t)
      PROVE  AttemptsCounted'
  <2>1. ASSUME NEW x \in Threads, Step(x)
        PROVE  AttemptsCounted'
    <3>1. CASE Execute(x)
      BY <3>1, ExecuteCounted
    <3>2. CASE x \in Clients /\ ClientStep(x)
      <4>1. OthersStay(x) /\ x \notin Workers
        BY <3>2, ClientAlone, QueueAssumption
      <4>2. UNCHANGED <<attempts, outside>>
        BY <3>2 DEF ClientStep, Admit, Overloaded, Enqueue, CheckQueued, Listed, Refuse,
          ClaimInRequest, EndInRequest, redis
      <4> QED BY <1>3, <4>1, <4>2, AttemptsElsewhere
    <3>3. CASE x \in Instances /\ InstanceStep(x)
      <4>1. UNCHANGED <<attempts, outside>>
        BY <3>3 DEF InstanceStep, Boot, PendingTasks, RecoverPendingTask, StartWorkers, redis
      <4>2. ASSUME NEW w \in Workers
            PROVE  StaysAtWork(w) \/ th'[w] = th[w]
        <5>1. w # x
          BY <3>3, QueueAssumption
        <5>2. CASE StartWorkers(x)
          <6>1. CASE Host[w] = x
            <7>1. th[w].pc = "down"
              BY <5>2, <6>1 DEF StartWorkers, Ready, Hosted, Serving
            <7>2. th'[w] = At("idle")
              BY <1>1, <5>1, <5>2, <6>1, QueueAssumption DEF StartWorkers
            <7> QED BY <7>1, <7>2, OutsideAttempt DEF Attempting, At
          <6>2. CASE Host[w] # x
            BY <1>1, <5>1, <5>2, <6>2 DEF StartWorkers
          <6> QED BY <6>1, <6>2
        <5>3. CASE PendingTasks(x) \/ RecoverPendingTask(x)
          BY <1>1, <5>1, <5>3 DEF PendingTasks, RecoverPendingTask, Become
        <5>4. CASE Boot(x)
          BY <1>1, <5>1, <5>4, QueueAssumption DEF Boot
        <5> QED BY <3>3, <5>2, <5>3, <5>4 DEF InstanceStep
      <4> QED BY <1>3, <4>1, <4>2, AttemptsFrame
    <3>4. CASE x \in Workers /\ WorkerStep(x)
      <4>1. CASE BeginAttempt(x)
        BY <3>4, <4>1, BeginCounted
      <4>2. CASE ClaimTask(x) \/ EndAttempt(x) \/ AttemptThrows(x)
        BY <1>3, <3>4, <4>2, WorkCounted
      <4>3. CASE ~BeginAttempt(x) /\ ~ClaimTask(x) /\ ~EndAttempt(x) /\ ~AttemptThrows(x)
        BY <1>3, <3>4, <4>3, OtherSteps, WorkerAlone, AttemptsElsewhere
      <4> QED BY <4>1, <4>2, <4>3
    <3> QED BY <2>1, <3>1, <3>2, <3>3, <3>4 DEF Step
  <2>2. ASSUME NEW c \in Clients, NEW t \in Tasks, RepeatRequest(c, t)
        PROVE  AttemptsCounted'
    <3>1. OthersStay(c) /\ c \notin Workers /\ c \in Threads
      BY <2>2, ClientAlone, QueueAssumption DEF Arrive, Threads
    <3>2. UNCHANGED <<attempts, outside>>
      BY <2>2 DEF RepeatRequest, redis
    <3> QED BY <1>3, <3>1, <3>2, AttemptsElsewhere
  <2>3. ASSUME NEW t \in Tasks, TimePasses(t)
        PROVE  AttemptsCounted'
    <3>1. UNCHANGED <<th, attempts, outside>>
      BY <2>3 DEF TimePasses, DelayElapses, EntryStales, LockExpires
    <3> QED BY <1>3, <3>1, AttemptsFrame
  <2>4. CASE Fault
    <3>1. ASSUME NEW i \in Instances, Crash(i)
          PROVE  AttemptsCounted'
      <4>1. UNCHANGED attempts /\ Bound' = Bound + 1
        BY <3>1, QueueAssumption DEF Crash, Bound, redis, Typed, TypeOK
      <4>2. \A w \in Workers : BeginsNone(w) \/ th'[w] = th[w]
        BY <1>1, <3>1 DEF Crash, BeginsNone, At
      <4> QED BY <4>1, <4>2, AttemptsFault
    <3>2. ASSUME NEW c \in Clients, ClientError(c)
          PROVE  AttemptsCounted'
      <4>1. OthersStay(c) /\ c \notin Workers
        BY <3>2, ClientAlone, QueueAssumption
      <4>2. UNCHANGED attempts /\ Bound' = Bound + 1
        BY <3>2, QueueAssumption DEF ClientError, Bound, Typed, TypeOK
      <4> QED BY <1>1, <4>1, <4>2, AttemptsFault DEF OthersStay
    <3>3. ASSUME NEW v \in Workers, WorkerError(v)
          PROVE  AttemptsCounted'
      <4>1. OthersStay(v) /\ th[v] \in Thread
        BY <1>1, <3>3, WorkerAlone
      <4>2. UNCHANGED attempts /\ Bound' = Bound + 1
        BY <3>3, QueueAssumption DEF WorkerError, Bound, redis, Typed, TypeOK
      <4>3. th'[v].pc \notin {"loaded", "working"}
        <5>1. CASE Become(v, At("idle")) \/ Become(v, At("gone"))
          BY <1>1, <5>1, BecomingAlone DEF At
        <5>2. CASE \E label \in {"caught", "counting"} : Then(v, label, <<>>)
          <6> PICK label \in {"caught", "counting"} : Then(v, label, <<>>)
            BY <5>2
          <6>1. th'[v] = [th[v] EXCEPT !.pc = label, !.todo = <<>>]
            BY <1>1, BecomingAlone DEF Then
          <6>2. th'[v].pc = label
            BY <4>1, <6>1 DEF Thread
          <6> QED BY <6>2
        <5>3. CASE th[v].pc = "counting" /\ Become(v, [th[v] EXCEPT !.todo = <<>>, !.dying = TRUE])
          <6>1. th'[v] = [th[v] EXCEPT !.todo = <<>>, !.dying = TRUE]
            BY <1>1, <5>3, BecomingAlone
          <6>2. th'[v].pc = "counting"
            BY <4>1, <5>3, <6>1 DEF Thread
          <6> QED BY <6>2
        <5> QED BY <3>3, <5>1, <5>2, <5>3 DEF WorkerError
      <4> QED BY <1>1, <4>1, <4>2, <4>3, AttemptsFault DEF OthersStay, BeginsNone
    <3> QED BY <2>4, <3>1, <3>2, <3>3 DEF Fault
  <2>5. CASE UNCHANGED vars
    BY <1>3, <2>5, AttemptsFrame DEF vars, redis
  <2>6. CASE \E c \in Clients, t \in Tasks : CreateTask(c, t)
    BY <1>2, <2>6
  <2>7. ASSUME NEW w \in Workers, Beat(w)
        PROVE  AttemptsCounted'
    <3>1. UNCHANGED <<status, attempts, th, crashes, errors>>
      BY <2>7, BeatsAlone
    <3> QED BY <3>1 DEF AttemptsCounted, Bound
  <2> QED BY <2>1, <2>2, <2>3, <2>4, <2>5, <2>6, <2>7 DEF Next, Arrive
<1> QED BY <1>2, <1>3, RowsMove

-----------------------------------------------------------------------------
(* One worker, and so many attempts *)

\* The inductive invariant holds at the beginning.
LEMMA InitInv ==
  Init => QueueInv
<1> SUFFICES ASSUME Init PROVE QueueInv
  OBVIOUS
<1>1. Typed
  BY InitTyped
<1>2. ASSUME NEW x \in Threads
      PROVE  \E label \in {"down", "up", "idle"} : th[x] = At(label)
  BY DEF Init
<1>3. ASSUME NEW w \in Workers
      PROVE  ~th[w].locked /\ th[w].pc \notin {"loaded", "working"}
  <2>1. PICK label \in {"down", "up", "idle"} : th[w] = At(label)
    BY <1>2 DEF Threads
  <2> QED BY <2>1 DEF At
<1>4. LocksHeld
  BY <1>3 DEF LocksHeld, Guards
<1>5. AttemptsCounted
  <2>1. Bound \in Nat /\ Bound > 0
    BY <1>1, BoundIsNat
  <2>2. \A t \in Tasks : attempts[t] = 0
    BY DEF Init
  <2> QED BY <1>3, <2>1, <2>2 DEF AttemptsCounted
<1>6. Hosted
  <2>1. ASSUME NEW x \in Workers \cup Clients, th[x].pc # "down"
        PROVE  th[Host[x]].pc \in Serving(x)
    <3>1. x \in Threads /\ x \notin Instances /\ Host[x] \in Instances /\ Host[x] \in Threads
      BY QueueAssumption DEF Threads
    <3>2. /\ th[x] = At(IF Host[x] \in Late THEN "down" ELSE "idle")
          /\ th[Host[x]] = At(IF Host[x] \in Late THEN "down" ELSE "up")
      BY <3>1 DEF Init
    <3> QED BY <2>1, <3>2 DEF At, Serving
  <2> QED BY <2>1 DEF Hosted
<1> QED BY <1>1, <1>4, <1>5, <1>6 DEF QueueInv

\* Every step keeps the inductive invariant.
LEMMA NextInv ==
  QueueInv /\ [Next]_vars => QueueInv'
<1> SUFFICES ASSUME QueueInv, [Next]_vars PROVE QueueInv'
  OBVIOUS
<1>1. Typed /\ Hosted /\ LocksHeld /\ AttemptsCounted
  BY DEF QueueInv
<1>2. Typed'
  BY <1>1, NextTyped
<1> QED BY <1>1, <1>2, HostedStep, LocksHeldStep, AttemptsStep DEF QueueInv

\* The inductive invariant: types, locks and attempts.
THEOREM Invariance == Spec => []QueueInv
BY InitInv, NextInv, PTL DEF Spec

\* Two workers never call the gateway for one task at a time: workerLoop calls it
\* only with the lock, which expires only when its holder has gone.
THEOREM OneWorker == Spec => []OneWorkerPerTask
<1>1. QueueInv => OneWorkerPerTask
  <2> SUFFICES ASSUME QueueInv, NEW v \in Workers, NEW w \in Workers,
                      th[v].pc = "working", th[w].pc = "working", th[v].task = th[w].task
               PROVE  v = w
    BY DEF OneWorkerPerTask
  <2>1. ThreadOK(v, th[v]) /\ ThreadOK(w, th[w])
    BY DEF QueueInv, Typed, ThreadsOK, Threads
  <2>2. Guards(th[v]) /\ Guards(th[w])
    BY <2>1 DEF ThreadOK, Guards
  <2> QED BY <2>2 DEF QueueInv, LocksHeld
<1> QED BY <1>1, Invariance, PTL

\* No task gets more attempts than configured, but one for each crash or failing
\* call: the count in Redis goes up with the lock and is taken back with the task.
THEOREM AttemptsAreBounded == Spec => []AttemptsBounded
<1>1. QueueInv => AttemptsBounded
  BY DEF QueueInv, AttemptsCounted, AttemptsBounded, Bound
<1> QED BY <1>1, Invariance, PTL

-----------------------------------------------------------------------------
(* The limit *)

\* A thread that lets a task in has counted it.
LEMMA AdmitLimit ==
  ASSUME Typed, LimitInv, NEW c \in Clients, Admit(c)
  PROVE  LimitInv'
<1> DEFINE P == {t \in Tasks : status[t] \in Pending}
<1>1. UNCHANGED <<status, crashes>> /\ Cardinality(P) <= QueueLimit
  BY DEF Admit, PendingCount, outside
<1>2. IsFiniteSet(P) /\ Decided' \subseteq P
  BY <1>1 DEF LimitInv, Decided
<1>3. Cardinality(Decided') <= Cardinality(P) /\ IsFiniteSet(Decided')
  BY <1>2, FS_Subset
<1>4. Cardinality(Decided') \in Nat /\ Cardinality(P) \in Nat
  BY <1>2, <1>3, FS_CardinalityType
<1>5. Cardinality(Decided') <= QueueLimit
  BY <1>1, <1>3, <1>4, QueueAssumption
<1> QED BY <1>1, <1>2, <1>5 DEF LimitInv

\* Steps that decide on no task keep the limit.
LEMMA LimitFrame ==
  ASSUME LimitInv, Decided' \subseteq Decided \/ crashes' # 0, crashes' = 0 => crashes = 0,
         \A t \in Tasks : status'[t] \in Pending => status[t] \in Pending
  PROVE  LimitInv'
<1> DEFINE P == {t \in Tasks : status[t] \in Pending}
<1>1. IsFiniteSet(P) /\ {t \in Tasks : status'[t] \in Pending} \subseteq P /\ Decided \subseteq P
  BY DEF LimitInv, Decided
<1>2. IsFiniteSet({t \in Tasks : status'[t] \in Pending})
  BY <1>1, FS_Subset
<1>3. ASSUME crashes' = 0
      PROVE  Cardinality(Decided') <= QueueLimit
  <2>1. Decided' \subseteq Decided /\ Cardinality(Decided) <= QueueLimit
    BY <1>3 DEF LimitInv
  <2>2. IsFiniteSet(Decided)
    BY <1>1, FS_Subset
  <2>3. Cardinality(Decided') <= Cardinality(Decided) /\ IsFiniteSet(Decided')
    BY <2>1, <2>2, FS_Subset
  <2>4. Cardinality(Decided') \in Nat /\ Cardinality(Decided) \in Nat
    BY <2>2, <2>3, FS_CardinalityType
  <2> QED BY <2>1, <2>3, <2>4, QueueAssumption
<1> QED BY <1>2, <1>3 DEF LimitInv

\* A client that is deciding on its task goes on doing so.
StillDeciding(c) ==
  th[c].pc \in {"admitting", "refusing"} =>
    /\ th'[c].pc \in {"admitting", "refusing"} /\ th'[c].task = th[c].task
    \/ status'[th[c].task] \notin Pending

\* Nothing is decided on but by a client.
LEMMA DecidedFrame ==
  ASSUME \A t \in Tasks : status'[t] \in Pending => status[t] \in Pending,
         \A c \in Clients : StillDeciding(c) \/ th'[c] = th[c]
  PROVE  Decided' \subseteq Decided
<1>1. ASSUME NEW t \in Decided'
      PROVE  t \in Decided
  <2>1. t \in Tasks \ SyncTasks /\ status'[t] \in Pending /\ status[t] \in Pending
    BY <1>1 DEF Decided
  <2>2. ASSUME NEW c \in Clients, th[c].task = t, th[c].pc \in {"admitting", "refusing"}
        PROVE  FALSE
    BY <1>1, <2>1, <2>2 DEF Decided, StillDeciding
  <2> QED BY <2>1, <2>2 DEF Decided
<1> QED BY <1>1

\* The rows that are pending are finitely many, and the tasks let in fit.
LEMMA LimitStep ==
  ASSUME Typed, Hosted, LimitInv, [Next]_vars
  PROVE  LimitInv'
<1>1. Clients \subseteq Threads /\ th \in [Threads -> Thread] /\ crashes \in Nat
      /\ \A c \in Clients : ThreadOK(c, th[c]) /\ c \notin Workers /\ c \notin Instances
  BY QueueAssumption DEF Threads, Typed, TypeOK, ThreadsOK
<1>2. ASSUME NEW c \in Clients, NEW u \in Tasks, CreateTask(c, u)
      PROVE  LimitInv'
  <2> DEFINE P == {t \in Tasks : status[t] \in Pending}
             r == IF u \in SyncTasks THEN [At("generating") EXCEPT !.task = u]
                  ELSE [At("admitting") EXCEPT !.task = u, !.fresh = TRUE]
  <2>1. /\ status' = [status EXCEPT ![u] = "queued"] /\ status[u] = "none" /\ crashes' = crashes
        /\ Become(c, r) /\ th[c].pc = "idle" /\ (u \notin SyncTasks => r.pc = "admitting") /\ r.task = u
    BY <1>2 DEF CreateTask, outside, Ready, At, Start
  <2> HIDE DEF r
  <2>2. OthersStay(c) /\ (u \notin SyncTasks => th'[c].pc = "admitting") /\ th'[c].task = u
    BY <1>1, <2>1, BecomingAlone
  <2>3. {t \in Tasks : status'[t] \in Pending} \subseteq P \cup {u}
    BY <2>1 DEF Typed, TypeOK
  <2>4. IsFiniteSet({t \in Tasks : status'[t] \in Pending})
    BY <2>3, FS_Subset, FS_AddElement DEF LimitInv
  <2>5. Decided' \subseteq Decided
    <3>1. ASSUME NEW t \in Decided'
          PROVE  t \in Decided
      <4>1. t \in Tasks \ SyncTasks /\ status'[t] \in Pending
            /\ \A d \in Clients : th'[d].task = t => th'[d].pc \notin {"admitting", "refusing"}
        BY <3>1 DEF Decided
      <4>2. t # u
        BY <2>2, <4>1
      <4>3. status[t] \in Pending
        BY <2>1, <4>1, <4>2 DEF Typed, TypeOK
      <4>4. \A d \in Clients : th[d].task = t => th[d].pc \notin {"admitting", "refusing"}
        BY <1>1, <2>1, <2>2, <4>1 DEF OthersStay
      <4> QED BY <4>1, <4>3, <4>4 DEF Decided
    <3> QED BY <3>1
  <2>6. Cardinality(Decided') <= QueueLimit \/ crashes # 0
    <3>1. IsFiniteSet(Decided)
      BY FS_Subset DEF LimitInv, Decided
    <3>2. Cardinality(Decided') <= Cardinality(Decided) /\ IsFiniteSet(Decided')
      BY <2>5, <3>1, FS_Subset
    <3>3. Cardinality(Decided') \in Nat /\ Cardinality(Decided) \in Nat
      BY <3>1, <3>2, FS_CardinalityType
    <3> QED BY <3>2, <3>3, QueueAssumption DEF LimitInv
  <2> QED BY <2>1, <2>4, <2>6 DEF LimitInv
<1>3. ASSUME \A t \in Tasks : RowMoves(t)
      PROVE  LimitInv'
  <2>1. \A t \in Tasks : status'[t] \in Pending => status[t] \in Pending
    BY <1>3 DEF RowMoves
  <2>2. ASSUME UNCHANGED crashes, \A c \in Clients : StillDeciding(c) \/ th'[c] = th[c]
        PROVE  LimitInv'
    BY <2>1, <2>2, DecidedFrame, LimitFrame
  <2>3. ASSUME NEW c \in Clients, UNCHANGED crashes, OthersStay(c), StillDeciding(c)
        PROVE  LimitInv'
    BY <1>1, <2>2, <2>3 DEF OthersStay
  <2>4. ASSUME NEW c \in Clients, UNCHANGED crashes, OthersStay(c), th[c].pc \notin {"admitting", "refusing"}
        PROVE  LimitInv'
    BY <2>3, <2>4 DEF StillDeciding
  <2>5. ASSUME NEW x \in Threads, x \notin Clients, UNCHANGED crashes, OthersStay(x)
        PROVE  LimitInv'
    BY <1>1, <2>2, <2>5 DEF OthersStay
  <2>6. ASSUME NEW x \in Threads, Step(x)
        PROVE  LimitInv'
    <3>1. CASE Execute(x)
      <4>1. OthersStay(x) /\ UNCHANGED crashes /\ th[x].todo # <<>>
        BY <3>1, Executed DEF Execute, outside, OthersStay
      <4>2. x \in Clients => th[x].pc \notin {"admitting", "refusing"}
        BY <1>1, <4>1 DEF ThreadOK
      <4> QED BY <2>4, <2>5, <4>1, <4>2
    <3>2. CASE x \in Clients /\ ClientStep(x)
      <4>1. OthersStay(x)
        BY <3>2, ClientAlone
      <4>2. CASE Admit(x)
        BY <3>2, <4>2, AdmitLimit
      <4>3. CASE Overloaded(x)
        <5>1. UNCHANGED crashes /\ th'[x] = [th[x] EXCEPT !.pc = "refusing"]
          BY <1>1, <4>3, BecomingAlone DEF Overloaded, Goto, outside
        <5>2. th'[x].pc = "refusing" /\ th'[x].task = th[x].task
          BY <1>1, <5>1 DEF Thread
        <5> QED BY <2>3, <3>2, <4>1, <5>1, <5>2 DEF StillDeciding
      <4>4. CASE Refuse(x)
        <5>1. th[x].task \in Tasks /\ UNCHANGED crashes
          BY <1>1, <3>2, <4>4 DEF Refuse, Ready, ThreadOK, OnTask, ClientLabels, outside
        <5>2. status'[th[x].task] \notin Pending
          BY <4>4, <5>1 DEF Refuse, FailTask, Typed, TypeOK, Pending
        <5> QED BY <2>3, <3>2, <4>1, <5>1, <5>2 DEF StillDeciding
      <4>5. CASE Enqueue(x) \/ CheckQueued(x) \/ Listed(x) \/ ClaimInRequest(x) \/ EndInRequest(x)
        <5>1. UNCHANGED crashes /\ th[x].pc \notin {"admitting", "refusing"}
          BY <4>5 DEF Enqueue, CheckQueued, Listed, ClaimInRequest, EndInRequest, outside, Ready
        <5> QED BY <2>4, <3>2, <4>1, <5>1
      <4> QED BY <3>2, <4>2, <4>3, <4>4, <4>5 DEF ClientStep
    <3>3. CASE x \in Instances /\ InstanceStep(x)
      <4>1. UNCHANGED crashes
        BY <3>3 DEF InstanceStep, Boot, PendingTasks, RecoverPendingTask, StartWorkers, outside
      <4>2. CASE PendingTasks(x) \/ RecoverPendingTask(x) \/ StartWorkers(x)
        <5>1. \A c \in Clients : th'[c] = th[c]
          BY <1>1, <3>3, <4>2 DEF PendingTasks, RecoverPendingTask, StartWorkers, Become
        <5> QED BY <2>2, <4>1, <5>1
      <4>3. CASE Boot(x)
        <5>1. ASSUME NEW c \in Clients
              PROVE  StillDeciding(c) \/ th'[c] = th[c]
          <6>1. CASE Host[c] = x
            <7>1. th[c].pc = "down"
              BY <4>3, <6>1 DEF Boot, Hosted, Serving
            <7> QED BY <7>1 DEF StillDeciding
          <6>2. CASE Host[c] # x
            BY <1>1, <3>3, <4>3, <6>2 DEF Boot
          <6> QED BY <6>1, <6>2
        <5> QED BY <2>2, <4>1, <5>1
      <4> QED BY <3>3, <4>2, <4>3 DEF InstanceStep
    <3>4. CASE x \in Workers /\ WorkerStep(x)
      <4>1. UNCHANGED crashes
        BY <3>4 DEF WorkerStep, ReleaseDueDelayed, RecoverStalledActive, RequeueStalled, Pop,
          CheckPopped, TryLock, Postpone, BeginAttempt, ClaimTask, EndAttempt, AttemptThrows, Release,
          NextRound, MarkWorkerException, GiveUp, outside
      <4> QED BY <1>1, <2>5, <3>4, <4>1, WorkerAlone
    <3> QED BY <2>6, <3>1, <3>2, <3>3, <3>4 DEF Step
  <2>7. ASSUME NEW c \in Clients, NEW t \in Tasks, RepeatRequest(c, t)
        PROVE  LimitInv'
    <3>1. OthersStay(c) /\ UNCHANGED crashes /\ th[c].pc \notin {"admitting", "refusing"}
      BY <2>7, ClientAlone DEF Arrive, RepeatRequest, outside, Ready
    <3> QED BY <2>4, <3>1
  <2>8. ASSUME NEW t \in Tasks, TimePasses(t)
        PROVE  LimitInv'
    <3>1. UNCHANGED <<th, crashes>>
      BY <2>8 DEF TimePasses, DelayElapses, EntryStales, LockExpires, outside
    <3> QED BY <2>2, <3>1
  <2>9. CASE Fault
    <3>1. ASSUME NEW i \in Instances, Crash(i)
          PROVE  LimitInv'
      <4>1. crashes' # 0
        BY <1>1, <3>1 DEF Crash
      <4> QED BY <2>1, <4>1, LimitFrame
    <3>2. ASSUME NEW c \in Clients, ClientError(c)
          PROVE  LimitInv'
      <4>1. OthersStay(c) /\ UNCHANGED crashes
        BY <3>2, ClientAlone DEF ClientError
      <4>2. CASE th[c].pc = "admitting"
        <5> DEFINE r == [At("refusing") EXCEPT !.task = th[c].task]
        <5>1. th[c].fresh
          BY <1>1, <4>2 DEF ThreadOK
        <5>2. Become(c, r) /\ r.pc = "refusing" /\ r.task = th[c].task
          BY <3>2, <5>1 DEF ClientError, At
        <5> HIDE DEF r
        <5>3. th'[c].pc = "refusing" /\ th'[c].task = th[c].task
          BY <1>1, <5>2, BecomingAlone
        <5> QED BY <2>3, <4>1, <5>3 DEF StillDeciding
      <4>3. CASE th[c].pc # "admitting"
        <5>1. th[c].pc \notin {"admitting", "refusing"}
          BY <3>2, <4>3 DEF ClientError
        <5> QED BY <2>4, <4>1, <5>1
      <4> QED BY <4>2, <4>3
    <3>3. ASSUME NEW w \in Workers, WorkerError(w)
          PROVE  LimitInv'
      <4>1. OthersStay(w) /\ UNCHANGED crashes /\ w \in Threads /\ w \notin Clients
        BY <3>3, WorkerAlone, QueueAssumption DEF WorkerError, Threads
      <4> QED BY <2>5, <4>1
    <3> QED BY <2>9, <3>1, <3>2, <3>3 DEF Fault
  <2>10. CASE UNCHANGED vars
    <3>1. UNCHANGED <<th, crashes>>
      BY <2>10 DEF vars, outside
    <3> QED BY <2>2, <3>1
  <2>11. CASE \E c \in Clients, t \in Tasks : CreateTask(c, t)
    BY <1>2, <2>11
  <2>12. ASSUME NEW w \in Workers, Beat(w)
         PROVE  LimitInv'
    <3>1. UNCHANGED <<th, crashes>>
      BY <2>12, BeatsAlone
    <3> QED BY <2>2, <3>1
  <2> QED BY <2>6, <2>7, <2>8, <2>9, <2>10, <2>11, <2>12 DEF Next, Arrive
<1> QED BY <1>2, <1>3, RowsMove

\* The tasks that queueTask let in fit the limit, however the requests meet, as
\* long as no instance dies: it counts the pending rows after its own is there.
\* (The tasks of sync requests are let in by nobody, and are counted all the same.)
THEOREM LimitHolds == Spec => [](crashes = 0 => WithinLimit)
<1>1. Init => LimitInv
  <2> SUFFICES ASSUME Init PROVE LimitInv
    OBVIOUS
  <2>1. {t \in Tasks : status[t] \in Pending} = {} /\ Decided = {}
    BY DEF Init, Pending, Decided
  <2>2. IsFiniteSet({}) /\ Cardinality({}) = 0
    BY FS_EmptySet
  <2>3. 0 <= QueueLimit
    BY QueueAssumption
  <2> QED BY <2>1, <2>2, <2>3 DEF LimitInv
<1>2. QueueInv /\ LimitInv /\ [Next]_vars => LimitInv'
  BY LimitStep DEF QueueInv
<1>3. LimitInv => (crashes = 0 => WithinLimit)
  BY DEF LimitInv, Decided, WithinLimit
<1> QED BY <1>1, <1>2, <1>3, Invariance, PTL DEF Spec

-----------------------------------------------------------------------------
(* What is held *)

Trouble == {"caught", "givingUp", "counting"}

(* A worker with the lock keeps its task, and will take back all it shows. *)
Retains(w) ==
  \/ ~th[w].locked
  \/ th[w].pc = "releasing" /\ th[w].todo = <<>>
  \/ /\ th'[w].locked /\ th'[w].task = th[w].task
     /\ th'[w].pc = "releasing" =>
          {Unlock, Remove("active"), Remove("started")} \subseteq CommandsOf(th'[w].todo)

\* Steps of workers that keep what they have, while Redis shows no more.
LEMMA HeldFrame ==
  ASSUME Typed, HeldByWorkers,
         \A w \in Workers : th'[w] = th[w] \/ (Retains(w) /\ th'[w].pc \notin Trouble),
         \A t \in Tasks : lock'[t] # Free => lock'[t] = lock[t],
         \A set \in {"active", "started"} : member'[set] \subseteq member[set]
  PROVE  HeldByWorkers'
<1>1. ASSUME NEW w \in Workers, NEW t \in Tasks, NEW set \in {"active", "started"}, Shows(th[w], t, set)
      PROVE  Shows(th'[w], t, set)
  BY <1>1, NothingToDo DEF Shows, Retains
<1>2. ASSUME NEW w \in Workers, Guards(th[w])
      PROVE  Guards(th'[w]) /\ th'[w].task = th[w].task
  BY <1>2, NothingToDo DEF Guards, Retains
<1>3. lock \in [Tasks -> Workers \cup {Free}] /\ \A set \in {"active", "started"} : member[set] \subseteq Tasks
  BY DEF Typed, TypeOK, Sets
<1>4. \A w \in Workers : th'[w].pc \notin Trouble
  BY DEF HeldByWorkers, Trouble
<1>5. ASSUME NEW t \in Tasks, lock'[t] # Free
      PROVE  th'[lock'[t]].task = t /\ Guards(th'[lock'[t]])
  <2>1. lock'[t] = lock[t] /\ lock[t] \in Workers
    BY <1>3, <1>5
  <2> QED BY <1>2, <2>1, <1>5 DEF HeldByWorkers
<1>6. ASSUME NEW set \in {"active", "started"}, NEW t \in member'[set] \ Beaten(set)
      PROVE  \E w \in Workers : Shows(th'[w], t, set)
  <2>1. t \in member[set] \ Beaten(set) /\ t \in Tasks
    BY <1>3
  <2>2. PICK w \in Workers : Shows(th[w], t, set)
    BY <2>1 DEF HeldByWorkers
  <2> QED BY <1>1, <2>1, <2>2
<1> QED BY <1>4, <1>5, <1>6 DEF HeldByWorkers, Trouble, Shows, Guards

\* What a command does to the locks and to the tasks shown as active.
LEMMA CommandShows ==
  ASSUME Typed, NEW x \in Threads, Execute(x)
  PROVE  /\ lock' = IF Head(th[x].todo) = Unlock THEN [lock EXCEPT ![th[x].task] = Free] ELSE lock
         /\ \A set \in {"active", "started"} : \A t \in member'[set] :
              \/ t = th[x].task /\ Head(th[x].todo) = Add(set)
              \/ t \in member[set] /\ (Head(th[x].todo) = Remove(set) => t # th[x].task)
<1> DEFINE t == th[x].task
           command == Head(th[x].todo)
<1>1. /\ command \in Commands /\ t \in Tasks
      /\ member \in [Sets -> SUBSET Tasks] /\ {"active", "started"} \subseteq Sets
  BY Executed DEF Typed, TypeOK, Sets
<1>2. /\ lock' = IF command[1] = "unlock" THEN [lock EXCEPT ![t] = Free] ELSE lock
      /\ member' = IF command[1] \in {"add", "enlist"} THEN [member EXCEPT ![command[2]] = @ \cup {t}]
                   ELSE IF command[1] = "remove" THEN [member EXCEPT ![command[2]] = @ \ {t}]
                   ELSE member
  BY DEF Execute
<1> HIDE DEF command, t
<1>3. /\ command[1] = "unlock" <=> command = Unlock
      /\ command[1] = "add" => command = Add(command[2]) /\ command[2] \in Sets
      /\ command[1] = "enlist" => command[2] = "waitingSet" /\ command[2] \in Sets
      /\ command[1] = "remove" => command[2] \in Sets
      /\ \A set : command = Remove(set) => command[1] = "remove" /\ command[2] = set
  BY <1>1 DEF Commands, Add, Remove, Seek, Enlist, Push, Unlock, Forget, Bury, Sets
<1>4. ASSUME NEW set \in {"active", "started"}, NEW u \in member'[set]
      PROVE  \/ u = t /\ command = Add(set)
             \/ u \in member[set] /\ (command = Remove(set) => u # t)
  <2>1. CASE command[1] = "add"
    <3>1. command # Remove(set)
      BY <1>3, <2>1
    <3>2. member' = [member EXCEPT ![command[2]] = @ \cup {t}]
      BY <1>2, <2>1
    <3>3. CASE command[2] = set
      BY <1>1, <1>3, <2>1, <3>1, <3>2, <3>3
    <3>4. CASE command[2] # set
      BY <1>1, <3>1, <3>2, <3>4
    <3> QED BY <3>3, <3>4
  <2>2. CASE command[1] = "enlist"
    <3>1. command # Remove(set) /\ command[2] # set
      BY <1>3, <2>2
    <3>2. member' = [member EXCEPT ![command[2]] = @ \cup {t}]
      BY <1>2, <2>2
    <3> QED BY <1>1, <3>1, <3>2
  <2>3. CASE command[1] = "remove"
    <3>1. member' = [member EXCEPT ![command[2]] = @ \ {t}]
      BY <1>2, <2>3
    <3> QED BY <1>1, <1>3, <2>3, <3>1
  <2>4. CASE command[1] \notin {"add", "enlist", "remove"}
    BY <1>2, <1>3, <2>4
  <2> QED BY <2>1, <2>2, <2>3, <2>4
<1> QED BY <1>2, <1>3, <1>4 DEF t, command

\* Commands keep what is held with its worker.
LEMMA ExecuteHeld ==
  ASSUME Typed, Typed', LocksHeld, HeldByWorkers, NEW x \in Threads, Execute(x)
  PROVE  HeldByWorkers'
<1> DEFINE t == th[x].task
           command == Head(th[x].todo)
<1>1. /\ th[x] \in Thread /\ ThreadOK(x, th[x]) /\ t \in Tasks
      /\ lock \in [Tasks -> Workers \cup {Free}]
      /\ \A set \in {"active", "started"} : member[set] \subseteq Tasks /\ member'[set] \subseteq Tasks
  BY Executed DEF Typed, TypeOK, ThreadsOK, Sets
<1>2. /\ lock' = IF command = Unlock THEN [lock EXCEPT ![t] = Free] ELSE lock
      /\ \A set \in {"active", "started"} : \A u \in member'[set] :
           \/ u = t /\ command = Add(set)
           \/ u \in member[set] /\ (command = Remove(set) => u # t)
  BY CommandShows
<1>3. /\ command \in CommandsOf(th[x].todo)
      /\ th[x].locked => CommandsOf(th[x].todo) \subseteq {command, Push} \cup CommandsOf(th'[x].todo)
      /\ command = Unlock => th'[x].todo = <<>>
      /\ OthersStay(x)
  BY <1>1, Executed DEF OthersStay, ThreadOK, AfterLock
<1>4. th[x].locked => th'[x].locked /\ th'[x].task = t /\ th'[x].pc = th[x].pc
  <2>1. CASE th[x].pc = "idle"
    BY <1>1, <2>1 DEF ThreadOK, AfterLock
  <2>2. CASE th'[x] = [th[x] EXCEPT !.todo = th'[x].todo]
    BY <1>1, <2>2 DEF Thread
  <2> QED BY <2>1, <2>2, Executed
<1>5. \A set : Push # Remove(set) /\ Unlock # Remove(set) /\ Push # Unlock /\ Add(set) # Unlock
  BY DEF Push, Remove, Unlock, Add
<1>6. ASSUME NEW w \in Workers
      PROVE  th'[w].pc \notin Trouble
  <2>1. CASE w = x
    <3>1. th'[x].pc \in {"idle", th[x].pc}
      <4>1. CASE th'[x] = At("idle")
        BY <4>1 DEF At
      <4>2. CASE th'[x] = [th[x] EXCEPT !.todo = th'[x].todo]
        BY <1>1, <4>2 DEF Thread
      <4> QED BY <4>1, <4>2, Executed
    <3> QED BY <2>1, <3>1 DEF HeldByWorkers, Trouble
  <2>2. CASE w # x
    BY <1>3, <2>2 DEF OthersStay, HeldByWorkers, Trouble, Threads
  <2> QED BY <2>1, <2>2
<1> HIDE DEF t, command
<1>7. ASSUME NEW u \in Tasks, lock'[u] # Free
      PROVE  th'[lock'[u]].task = u /\ Guards(th'[lock'[u]])
  <2>1. lock'[u] = lock[u] /\ lock[u] \in Workers /\ (command = Unlock => u # t)
    BY <1>1, <1>2, <1>7
  <2>2. th[lock[u]].task = u /\ Guards(th[lock[u]])
    BY <1>7, <2>1 DEF HeldByWorkers
  <2>3. CASE lock[u] # x
    BY <1>3, <2>1, <2>2, <2>3 DEF OthersStay, Threads
  <2>4. CASE lock[u] = x
    <3>1. command # Unlock
      BY <2>1, <2>2, <2>4 DEF t
    <3>2. Unlock \in CommandsOf(th[x].todo) => Unlock \in CommandsOf(th'[x].todo)
      BY <1>3, <1>5, <2>2, <2>4, <3>1 DEF Guards
    <3> QED BY <1>4, <2>1, <2>2, <2>4, <3>2 DEF Guards, t
  <2> QED BY <2>3, <2>4
<1>8. ASSUME NEW set \in {"active", "started"}, NEW u \in member'[set] \ Beaten(set)
      PROVE  \E w \in Workers : Shows(th'[w], u, set)
  <2>1. CASE u = t /\ command = Add(set)
    <3>1. th[x].pc = "held" /\ th[x].locked
      BY <1>1, <1>3, <2>1 DEF ThreadOK
    <3>2. x \in Workers
      BY <1>1, <3>1 DEF ThreadOK, Threads, InstanceLabels, ClientLabels
    <3> QED BY <1>4, <2>1, <3>1, <3>2 DEF Shows
  <2>2. CASE u \in member[set] /\ (command = Remove(set) => u # t)
    <3>1. PICK w \in Workers : Shows(th[w], u, set)
      BY <1>1, <2>2 DEF HeldByWorkers
    <3>2. CASE w # x
      BY <1>3, <3>1, <3>2 DEF OthersStay, Threads
    <3>3. CASE w = x
      <4>1. u = t /\ command # Remove(set)
        BY <2>2, <3>1, <3>3 DEF Shows, t
      <4>2. Remove(set) \in CommandsOf(th[x].todo) => Remove(set) \in CommandsOf(th'[x].todo)
        BY <1>3, <1>5, <3>1, <3>3, <4>1 DEF Shows
      <4> QED BY <1>4, <3>1, <3>3, <4>1, <4>2 DEF Shows
    <3> QED BY <3>2, <3>3
  <2> QED BY <1>2, <1>8, <2>1, <2>2
<1> QED BY <1>6, <1>7, <1>8 DEF HeldByWorkers, Trouble, Shows, Guards

\* A worker that goes on with the task it holds.
LEMMA RetainsGoingOn ==
  ASSUME Typed, NEW w \in Workers, NEW label, label \notin Trouble \cup {"releasing"}, NEW s,
         Then(w, label, s) \/ Goto(w, label)
  PROVE  Retains(w) /\ th'[w].pc \notin Trouble
<1>1. w \in Threads /\ th \in [Threads -> Thread] /\ th[w] \in Thread
  BY DEF Threads, Typed, TypeOK
<1>2. CASE Then(w, label, s)
  <2>1. th'[w] = [th[w] EXCEPT !.pc = label, !.todo = s]
    BY <1>1, <1>2, BecomingAlone DEF Then
  <2>2. th'[w].pc = label /\ th'[w].task = th[w].task /\ th'[w].locked = th[w].locked
    BY <1>1, <2>1 DEF Thread
  <2> QED BY <2>2 DEF Retains
<1>3. CASE Goto(w, label)
  <2>1. th'[w] = [th[w] EXCEPT !.pc = label]
    BY <1>1, <1>3, BecomingAlone DEF Goto
  <2>2. th'[w].pc = label /\ th'[w].task = th[w].task /\ th'[w].locked = th[w].locked
    BY <1>1, <2>1 DEF Thread
  <2> QED BY <2>2 DEF Retains
<1> QED BY <1>2, <1>3

\* A worker that starts again or on another task is in no trouble.
LEMMA NoTroubleAt ==
  ASSUME Typed, NEW w \in Workers, NEW label, label \notin Trouble, NEW u, NEW s, NEW rows,
         \/ Become(w, At(label))
         \/ Become(w, [At(label) EXCEPT !.task = u])
         \/ Become(w, [At(label) EXCEPT !.task = u, !.todo = s])
         \/ Become(w, [At(label) EXCEPT !.task = u, !.todo = s, !.rest = rows])
  PROVE  th'[w].pc \notin Trouble
<1>1. w \in Threads /\ th \in [Threads -> Thread]
  BY DEF Threads, Typed, TypeOK
<1>2. /\ At(label).pc = label
      /\ [At(label) EXCEPT !.task = u].pc = label
      /\ [At(label) EXCEPT !.task = u, !.todo = s].pc = label
      /\ [At(label) EXCEPT !.task = u, !.todo = s, !.rest = rows].pc = label
  BY DEF At
<1> QED BY <1>1, <1>2, BecomingAlone

\* The steps of a worker that is in no trouble, but the one that takes the lock.
LEMMA WorkerRetains ==
  ASSUME Typed, NEW w \in Workers, th[w].pc \notin Trouble, WorkerStep(w),
         TryLock(w) => UNCHANGED lock
  PROVE  \/ th'[w] = th[w]
         \/ Retains(w) /\ th'[w].pc \notin Trouble
<1>1. w \in Threads /\ th \in [Threads -> Thread] /\ th[w] \in Thread /\ ThreadOK(w, th[w])
  BY DEF Threads, Typed, TypeOK, ThreadsOK
<1>2. "idle" \notin Trouble /\ "recovering" \notin Trouble /\ "popped" \notin Trouble /\ "gone" \notin Trouble
      /\ \A label \in {"idle", "locking", "postponing", "settling", "working"} :
           label \notin Trouble \cup {"releasing"}
  BY DEF Trouble
<1>3. ASSUME NEW t \in Tasks, ReleaseDueDelayed(w, t) \/ RecoverStalledActive(w, t)
      PROVE  th'[w] = th[w] \/ (Retains(w) /\ th'[w].pc \notin Trouble)
  <2>1. ~th[w].locked
    BY <1>1, <1>3 DEF ReleaseDueDelayed, RecoverStalledActive, Ready, ThreadOK, AfterLock
  <2>2. UNCHANGED th \/ th'[w].pc \notin Trouble
    BY <1>2, <1>3, NoTroubleAt DEF ReleaseDueDelayed, RecoverStalledActive
  <2> QED BY <2>1, <2>2 DEF Retains
<1>4. CASE RequeueStalled(w) \/ Pop(w)
  <2>1. ~th[w].locked
    BY <1>1, <1>4 DEF RequeueStalled, Pop, Ready, ThreadOK, AfterLock
  <2>2. th'[w].pc \notin Trouble
    BY <1>2, <1>4, NoTroubleAt DEF RequeueStalled, Pop, Start
  <2> QED BY <2>1, <2>2 DEF Retains
<1>5. CASE CheckPopped(w)
  BY <1>2, <1>5, RetainsGoingOn DEF CheckPopped
<1>6. CASE TryLock(w) /\ UNCHANGED lock
  <2>1. lock[th[w].task] # Free
    <3>1. th[w].task \in Tasks
      BY <1>1, <1>6 DEF TryLock, Ready, ThreadOK, OnTask, WorkerLabels
    <3>2. lock \in [Tasks -> Workers \cup {Free}] /\ w # Free
      BY QueueAssumption DEF Typed, TypeOK
    <3>3. lock' = [lock EXCEPT ![th[w].task] = w] => lock'[th[w].task] = w
      BY <3>1, <3>2
    <3> QED BY <1>6, <3>2, <3>3 DEF TryLock
  <2> QED BY <1>2, <1>6, <2>1, RetainsGoingOn DEF TryLock
<1>7. CASE Postpone(w)
  <2>1. ~th[w].locked
    BY <1>1, <1>7 DEF Postpone, Ready, ThreadOK, AfterLock
  <2>2. th'[w].pc \notin Trouble
    BY <1>2, <1>7, NoTroubleAt, RetainsGoingOn DEF Postpone
  <2> QED BY <2>1, <2>2 DEF Retains
<1>8. CASE BeginAttempt(w)
  <2>1. CASE Skipped(w)
    BY <1>2, <2>1, RetainsGoingOn DEF Skipped, Settle
  <2>2. CASE ~Skipped(w)
    <3>1. PICK n : th'[w] = [th[w] EXCEPT !.pc = "loaded", !.attempt = n]
      BY <1>1, <1>8, <2>2, BecomingAlone DEF BeginAttempt
    <3>2. th'[w].pc = "loaded" /\ th'[w].task = th[w].task /\ th'[w].locked = th[w].locked
      BY <1>1, <3>1 DEF Thread
    <3> QED BY <3>2 DEF Retains, Trouble
  <2> QED BY <2>1, <2>2
<1>9. CASE ClaimTask(w) \/ EndAttempt(w) \/ AttemptThrows(w)
  <2>1. \/ \E s : Then(w, "settling", s)
        \/ Goto(w, "working")
    BY <1>9 DEF ClaimTask, EndAttempt, AttemptThrows, Outcome, Succeeded, Skipped, Retried, Failed, Settle
  <2> QED BY <1>2, <2>1, RetainsGoingOn
<1>10. CASE Release(w)
  <2> DEFINE s == IF th[w].locked THEN ClearActive \o <<Unlock>> ELSE <<>>
  <2>1. th'[w] = [th[w] EXCEPT !.pc = "releasing", !.todo = s]
    BY <1>1, <1>10, BecomingAlone DEF Release, Then
  <2> HIDE DEF s
  <2>2. /\ th'[w].pc = "releasing" /\ th'[w].task = th[w].task /\ th'[w].locked = th[w].locked
        /\ th'[w].todo = s
    BY <1>1, <2>1 DEF Thread
  <2>3. th[w].locked => CommandsOf(s) = {Remove("active"), Remove("started"), Unlock}
    BY JoinedProcedures DEF s
  <2> QED BY <2>2, <2>3 DEF Retains, Trouble
<1>11. CASE NextRound(w)
  <2>1. th[w].pc = "releasing" /\ th[w].todo = <<>>
    BY <1>11 DEF NextRound, Ready
  <2>2. th'[w].pc \notin Trouble
    BY <1>2, <1>11, NoTroubleAt DEF NextRound
  <2> QED BY <2>1, <2>2 DEF Retains
<1>12. ~MarkWorkerException(w) /\ ~GiveUp(w)
  BY DEF MarkWorkerException, GiveUp, Ready, Trouble
<1> QED BY <1>3, <1>4, <1>5, <1>6, <1>7, <1>8, <1>9, <1>10, <1>11, <1>12 DEF WorkerStep

\* SET NX gives the lock to a worker that will know.
LEMMA TryLockHeld ==
  ASSUME Typed, Typed', HeldByWorkers, NEW w \in Workers, TryLock(w)
  PROVE  HeldByWorkers'
<1>1. w \in Threads /\ th \in [Threads -> Thread] /\ th[w] \in Thread /\ ThreadOK(w, th[w])
      /\ \A set \in {"active", "started"} : member[set] \subseteq Tasks
  BY DEF Threads, Typed, TypeOK, ThreadsOK, Sets
<1>2. th[w].pc = "locking" /\ ~th[w].locked /\ member' = member /\ OthersStay(w)
  BY <1>1, WorkerAlone DEF TryLock, Ready, ThreadOK, AfterLock, WorkerStep
<1>3. CASE UNCHANGED lock
  <2>1. th'[w] = th[w] \/ (Retains(w) /\ th'[w].pc \notin Trouble)
    BY <1>2, <1>3, WorkerRetains DEF WorkerStep, Trouble
  <2> QED BY <1>2, <1>3, <2>1, HeldFrame DEF OthersStay, Threads
<1>4. CASE ~UNCHANGED lock
  <2> DEFINE t == th[w].task
  <2>1. /\ lock' = [lock EXCEPT ![t] = w]
        /\ Become(w, [th[w] EXCEPT !.pc = "held", !.todo = HoldTask, !.locked = TRUE])
    BY <1>4 DEF TryLock
  <2>2. th'[w] = [th[w] EXCEPT !.pc = "held", !.todo = HoldTask, !.locked = TRUE]
    BY <1>1, <2>1, BecomingAlone
  <2>3. th'[w].task = t /\ th'[w].pc = "held" /\ th'[w].locked
    BY <1>1, <2>2 DEF Thread
  <2>4. t \in Tasks /\ lock \in [Tasks -> Workers \cup {Free}]
    BY <1>1, <1>2 DEF ThreadOK, OnTask, WorkerLabels, Typed, TypeOK
  <2> HIDE DEF t
  <2>5. \A v \in Workers : th'[v].pc \notin Trouble
    BY <1>2, <2>3 DEF OthersStay, Threads, HeldByWorkers, Trouble
  <2>6. ASSUME NEW u \in Tasks, lock'[u] # Free
        PROVE  th'[lock'[u]].task = u /\ Guards(th'[lock'[u]])
    <3>1. CASE u = t
      BY <2>1, <2>3, <2>4, <3>1 DEF Guards
    <3>2. CASE u # t
      <4>1. lock'[u] = lock[u] /\ lock[u] \in Workers
        BY <2>1, <2>4, <2>6, <3>2
      <4>2. th[lock[u]].task = u /\ Guards(th[lock[u]])
        BY <2>6, <4>1 DEF HeldByWorkers
      <4>3. lock[u] # w
        BY <1>2, <4>2 DEF Guards
      <4> QED BY <1>2, <4>1, <4>2, <4>3 DEF OthersStay, Threads
    <3> QED BY <3>1, <3>2
  <2>7. ASSUME NEW set \in {"active", "started"}, NEW u \in member'[set] \ Beaten(set)
        PROVE  \E v \in Workers : Shows(th'[v], u, set)
    <3>1. PICK v \in Workers : Shows(th[v], u, set)
      BY <1>1, <1>2 DEF HeldByWorkers
    <3>2. v # w
      BY <1>2, <3>1 DEF Shows
    <3> QED BY <1>2, <3>1, <3>2 DEF OthersStay, Threads
  <2> QED BY <2>5, <2>6, <2>7 DEF HeldByWorkers, Trouble, Shows, Guards
<1> QED BY <1>3, <1>4

\* Without faults, what is held has its worker.
LEMMA HeldStep ==
  ASSUME Typed, Typed', Hosted, LocksHeld, NoFaults => HeldByWorkers, [Next]_vars, NoFaults'
  PROVE  HeldByWorkers'
<1>1. Workers \subseteq Threads /\ Instances \subseteq Threads /\ th \in [Threads -> Thread]
      /\ (\A w \in Workers : ThreadOK(w, th[w]) /\ w \notin Clients /\ w \notin Instances)
      /\ crashes \in Nat /\ errors \in Nat
      /\ member \in [Sets -> SUBSET Tasks] /\ {"active", "started"} \subseteq Sets
  BY QueueAssumption DEF Threads, Typed, TypeOK, ThreadsOK, Sets
<1>2. ~Fault
  <2>1. crashes' = 0 /\ errors' = 0
    BY DEF NoFaults
  <2>2. crashes + 1 # 0 /\ errors + 1 # 0
    BY <1>1
  <2>3. Fault => crashes' = crashes + 1 \/ errors' = errors + 1
    BY DEF Fault, Crash, ClientError, WorkerError
  <2> QED BY <2>1, <2>2, <2>3
<1>3. ASSUME UNCHANGED <<outside, th>>, \A t \in Tasks : lock'[t] # Free => lock'[t] = lock[t],
             \A set \in {"active", "started"} : member'[set] \subseteq member[set]
      PROVE  HeldByWorkers'
  BY <1>3, HeldFrame DEF NoFaults, outside
<1>4. ASSUME NEW x \in Threads \ Workers, UNCHANGED <<outside, lock>>, OthersStay(x),
             \A set \in {"active", "started"} : member'[set] \subseteq member[set]
      PROVE  HeldByWorkers'
  BY <1>1, <1>4, HeldFrame DEF NoFaults, outside, OthersStay
<1>5. ASSUME NEW t \in Tasks, TimePasses(t)
      PROVE  HeldByWorkers'
  <2>1. UNCHANGED <<outside, th, member>>
    BY <1>5 DEF TimePasses, DelayElapses, EntryStales, LockExpires
  <2>2. \A u \in Tasks : lock'[u] # Free => lock'[u] = lock[u]
    BY <1>5 DEF TimePasses, DelayElapses, EntryStales, LockExpires, Typed, TypeOK
  <2> QED BY <1>3, <2>1, <2>2
<1>6. ASSUME NEW c \in Clients, NEW t \in Tasks, Arrive(c, t)
      PROVE  HeldByWorkers'
  <2>1. UNCHANGED <<outside, lock, member>> /\ OthersStay(c)
    BY <1>6, ClientAlone DEF Arrive, CreateTask, RepeatRequest, redis
  <2> QED BY <1>1, <1>4, <2>1 DEF Threads
<1>7. ASSUME NEW c \in Clients, ClientStep(c)
      PROVE  HeldByWorkers'
  <2>1. UNCHANGED <<outside, lock>> /\ OthersStay(c)
    BY <1>7, ClientAlone DEF ClientStep, Admit, Overloaded, Enqueue, CheckQueued, Listed, Refuse,
      ClaimInRequest, EndInRequest, redis
  <2>2. \A set \in {"active", "started"} : member'[set] = member[set]
    <3>1. UNCHANGED member \/ Script(th[c].task)
      BY <1>7 DEF ClientStep, Admit, Overloaded, Enqueue, CheckQueued, Listed, Refuse,
        ClaimInRequest, EndInRequest, redis
    <3> QED BY <1>1, <3>1 DEF Script
  <2> QED BY <1>1, <1>4, <2>1, <2>2 DEF Threads
<1>8. ASSUME NEW i \in Instances, InstanceStep(i)
      PROVE  HeldByWorkers'
  <2>1. UNCHANGED <<outside, lock, member>>
    BY <1>8 DEF InstanceStep, Boot, PendingTasks, RecoverPendingTask, StartWorkers, redis
  <2>2. CASE PendingTasks(i) \/ RecoverPendingTask(i)
    <3>1. OthersStay(i)
      BY <1>1, <2>2, BecomingAlone DEF PendingTasks, RecoverPendingTask
    <3> QED BY <1>1, <1>4, <2>1, <3>1
  <2>4. CASE Boot(i)
    <3>1. \A w \in Workers : th'[w] = th[w]
      BY <1>1, <2>4 DEF Boot
    <3> QED BY <2>1, <3>1, HeldFrame DEF NoFaults, outside
  <2>3. CASE StartWorkers(i)
    <3>1. ASSUME NEW w \in Workers
          PROVE  th'[w] = th[w] \/ (Retains(w) /\ th'[w].pc \notin Trouble)
      <4>1. CASE Host[w] = i
        <5>1. th[w].pc = "down" /\ th'[w] = At("idle")
          BY <1>1, <2>3, <4>1 DEF StartWorkers, Ready, Hosted, Serving
        <5>2. ~th[w].locked
          BY <1>1, <5>1 DEF ThreadOK, AfterLock
        <5> QED BY <5>1, <5>2 DEF Retains, Trouble, At
      <4>2. CASE Host[w] # i
        BY <1>1, <2>3, <4>2 DEF StartWorkers
      <4> QED BY <4>1, <4>2
    <3> QED BY <2>1, <3>1, HeldFrame DEF NoFaults, outside
  <2> QED BY <1>8, <2>2, <2>3, <2>4 DEF InstanceStep
<1>9. ASSUME NEW w \in Workers, WorkerStep(w)
      PROVE  HeldByWorkers'
  <2>1. UNCHANGED outside /\ OthersStay(w)
    BY <1>9, WorkerAlone DEF WorkerStep, ReleaseDueDelayed, RecoverStalledActive, RequeueStalled, Pop,
      CheckPopped, TryLock, Postpone, BeginAttempt, ClaimTask, EndAttempt, AttemptThrows, Release,
      NextRound, MarkWorkerException, GiveUp
  <2>2. HeldByWorkers /\ th[w].pc \notin Trouble
    BY <2>1 DEF NoFaults, outside, HeldByWorkers, Trouble
  <2>3. CASE TryLock(w)
    BY <2>2, <2>3, TryLockHeld
  <2>4. CASE ~TryLock(w)
    <3>1. th'[w] = th[w] \/ (Retains(w) /\ th'[w].pc \notin Trouble)
      BY <1>9, <2>2, <2>4, WorkerRetains
    <3>2. UNCHANGED lock
      BY <1>9, <2>4 DEF WorkerStep, ReleaseDueDelayed, RecoverStalledActive, RequeueStalled, Pop,
        CheckPopped, Postpone, BeginAttempt, ClaimTask, EndAttempt, AttemptThrows, Release,
        NextRound, MarkWorkerException, GiveUp, redis
    <3>3. UNCHANGED member \/ \E t \in Tasks : member' = [member EXCEPT !["delayed"] = @ \ {t}]
      BY <1>9, <2>4 DEF WorkerStep, ReleaseDueDelayed, RecoverStalledActive, RequeueStalled, Pop,
        CheckPopped, Postpone, BeginAttempt, ClaimTask, EndAttempt, AttemptThrows, Release,
        NextRound, MarkWorkerException, GiveUp, redis
    <3>4. \A set \in {"active", "started"} : member'[set] = member[set]
      BY <1>1, <3>3
    <3> QED BY <2>1, <2>2, <3>1, <3>2, <3>4, HeldFrame DEF OthersStay, Threads
  <2> QED BY <2>3, <2>4
<1>10. ASSUME NEW x \in Threads, Step(x)
       PROVE  HeldByWorkers'
  <2>1. CASE Execute(x)
    BY <2>1, ExecuteHeld DEF Execute, NoFaults, outside
  <2> QED BY <1>7, <1>8, <1>9, <1>10, <2>1 DEF Step
<1>11. CASE UNCHANGED vars
  BY <1>3, <1>11 DEF vars, redis, outside
<1>12. ASSUME NEW w \in Workers, Beat(w)
       PROVE  HeldByWorkers'
  <2>1. /\ UNCHANGED <<lock, th, crashes, errors>> /\ member'["active"] = member["active"]
        /\ HeldByWorkers
    BY <1>12, BeatsAlone DEF NoFaults, Sets
  <2>2. CASE Heartbeat(w)
    <3>1. /\ member'["started"] = member["started"] \cup {th[w].task}
          /\ Shows(th[w], th[w].task, "started")
      BY <1>1, <2>2 DEF Heartbeat, Refresh, Beating, Ready, Shows
    <3> QED BY <2>1, <3>1 DEF HeldByWorkers, Guards, Shows
  <2>3. CASE HeartbeatChecks(w)
    <3>1. member' = member
      BY <2>3 DEF HeartbeatChecks, redis
    <3> QED BY <2>1, <3>1 DEF HeldByWorkers, Guards, Shows
  <2>4. ASSUME NEW t \in Tasks, HeartbeatWrites(w, t)
        PROVE  HeldByWorkers'
    <3>1. member'["started"] = member["started"] \cup {t} /\ t \in SlowBeats
      BY <1>1, <2>4 DEF HeartbeatWrites, Refresh, Typed, TypeOK
    <3> QED BY <2>1, <3>1 DEF HeldByWorkers, Guards, Shows, Beaten
  <2> QED BY <1>12, <2>2, <2>3, <2>4 DEF Beat
<1> QED BY <1>2, <1>5, <1>6, <1>10, <1>11, <1>12 DEF Next

\* Without faults, what is held has its worker, in all behaviours.
THEOREM HeldAlways == Spec => [](NoFaults => HeldByWorkers)
<1>1. Init => HeldByWorkers
  <2> SUFFICES ASSUME Init PROVE HeldByWorkers
    OBVIOUS
  <2>1. ASSUME NEW w \in Workers
        PROVE  th[w].pc \notin Trouble
    <3>1. th[w] = At("down") \/ th[w] = At("idle") \/ th[w] = At("up")
      BY DEF Init, Threads
    <3> QED BY <3>1 DEF At, Trouble
  <2>2. \A t \in Tasks : lock[t] = Free
    BY DEF Init
  <2>3. member["active"] = {} /\ member["started"] = {}
    BY DEF Init, Sets
  <2> QED BY <2>1, <2>2, <2>3 DEF HeldByWorkers, Trouble
<1>2. QueueInv /\ QueueInv' /\ (NoFaults => HeldByWorkers) /\ [Next]_vars
        => (NoFaults => HeldByWorkers)'
  BY HeldStep DEF QueueInv, NoFaults
<1> QED BY <1>1, <1>2, Invariance, PTL DEF Spec

\* Where no process dies and no call fails, a settled task that nobody has in hand
\* is not locked and not shown as active: the finally block takes back all that
\* workerLoop showed, whoever else handled the task in between.  What may be left is
\* the time it was started, where its heartbeat wrote after the worker had gone on.
THEOREM NothingIsHeld == Spec => [](NoFaults => NothingHeldAfterwards)
<1>1. QueueInv /\ (NoFaults => HeldByWorkers) => (NoFaults => NothingHeldAfterwards)
  <2> SUFFICES ASSUME QueueInv, HeldByWorkers, NEW t \in Tasks, ~InHand(t)
               PROVE  /\ lock[t] = Free /\ t \notin member["active"]
                      /\ t \in member["started"] => t \in SlowBeats
    BY DEF NothingHeldAfterwards
  <2>1. \A w \in Workers : th[w].task # t
    BY DEF InHand, Threads
  <2>2. lock[t] = Free
    <3>1. lock[t] \in Workers \cup {Free}
      BY DEF QueueInv, Typed, TypeOK
    <3> QED BY <2>1, <3>1 DEF HeldByWorkers
  <2>3. \A set \in {"active", "started"} : t \notin member[set] \ Beaten(set)
    BY <2>1 DEF HeldByWorkers, Shows
  <2> QED BY <2>2, <2>3 DEF Beaten
<1> QED BY <1>1, HeldAlways, Invariance, PTL

-----------------------------------------------------------------------------
(* Dead letters *)

\* Rows are not deleted, and a failed task stays failed.
LEMMA RowsStay ==
  ASSUME Typed, [Next]_vars, NEW t \in Tasks
  PROVE  /\ status[t] # "none" => status'[t] # "none"
         /\ status[t] = "failed" => status'[t] = "failed"
<1>1. CASE \A u \in Tasks : RowMoves(u)
  BY <1>1 DEF RowMoves, Pending, Terminal
<1>2. CASE \E c \in Clients, u \in Tasks : CreateTask(c, u)
  <2>1. PICK u \in Tasks : status[u] = "none" /\ status' = [status EXCEPT ![u] = "queued"]
    BY <1>2 DEF CreateTask
  <2> QED BY <2>1 DEF Typed, TypeOK
<1> QED BY <1>1, <1>2, RowsMove

\* While all instances are up and nothing fails, one client or worker acts at a
\* time, or time passes.
LEMMA OneActsOrWaits ==
  ASSUME Typed, AllUp, HeldByWorkers, ~Fault, [Next]_vars
  PROVE  /\ AllUp'
         /\ \/ (\E t \in Tasks : TimePasses(t)) \/ UNCHANGED vars
            \/ \E w \in Workers : Beat(w)
            \/ \E x \in Threads : OthersStay(x) /\ Execute(x)
            \/ \E c \in Clients : OthersStay(c) /\ ClientStep(c)
            \/ \E c \in Clients, t \in Tasks : OthersStay(c) /\ Arrive(c, t)
            \/ \E w \in Workers : OthersStay(w) /\ WorkerStep(w) /\ th[w].pc \notin Trouble
<1>1. /\ \A x \in Threads : ThreadOK(x, th[x])
      /\ Instances \subseteq Threads
      /\ \A i \in Instances : i \notin Clients /\ i \notin Workers
  BY QueueAssumption DEF Threads, Typed, ThreadsOK
<1>2. ASSUME NEW x \in Threads, x \notin Instances, OthersStay(x)
      PROVE  AllUp'
  BY <1>1, <1>2 DEF AllUp, OthersStay
<1>3. ASSUME NEW x \in Threads, Execute(x)
      PROVE  x \notin Instances /\ OthersStay(x)
  BY <1>1, <1>3, Executed DEF ThreadOK, AllUp, OthersStay
<1>4. ASSUME NEW i \in Instances
      PROVE  ~InstanceStep(i)
  BY DEF InstanceStep, Boot, PendingTasks, RecoverPendingTask, StartWorkers, Ready, AllUp
<1>5. \A w \in Workers : th[w].pc \notin Trouble
  BY DEF HeldByWorkers, Trouble
<1>6. CASE (\E t \in Tasks : TimePasses(t)) \/ UNCHANGED vars
  <2>1. UNCHANGED th
    BY <1>6 DEF TimePasses, DelayElapses, EntryStales, LockExpires, vars
  <2> QED BY <1>6, <2>1 DEF AllUp
<1>7. ASSUME NEW x \in Threads, Step(x)
      PROVE  /\ AllUp'
             /\ \/ OthersStay(x) /\ Execute(x)
                \/ x \in Clients /\ OthersStay(x) /\ ClientStep(x)
                \/ x \in Workers /\ OthersStay(x) /\ WorkerStep(x) /\ th[x].pc \notin Trouble
  BY <1>1, <1>2, <1>3, <1>4, <1>5, <1>7, ClientAlone, WorkerAlone DEF Step
<1>8. ASSUME NEW c \in Clients, NEW t \in Tasks, Arrive(c, t)
      PROVE  AllUp' /\ OthersStay(c)
  BY <1>1, <1>2, <1>8, ClientAlone DEF Threads
<1>9. ASSUME NEW w \in Workers, Beat(w)
      PROVE  AllUp'
  BY <1>9, BeatsAlone DEF AllUp
<1> QED BY <1>6, <1>7, <1>8, <1>9 DEF Next

\* In time nothing changes but what is due, stale, started or locked.
LEMMA OneActs ==
  ASSUME Typed, AllUp, HeldByWorkers, ~Fault, [Next]_vars
  PROVE  /\ AllUp'
         /\ \/ UNCHANGED <<th, status, waiting, dead>> /\ member'["delayed"] = member["delayed"]
            \/ \E x \in Threads : OthersStay(x) /\ Execute(x)
            \/ \E c \in Clients : OthersStay(c) /\ ClientStep(c)
            \/ \E c \in Clients, t \in Tasks : OthersStay(c) /\ Arrive(c, t)
            \/ \E w \in Workers : OthersStay(w) /\ WorkerStep(w) /\ th[w].pc \notin Trouble
<1>1. (\E t \in Tasks : TimePasses(t)) \/ UNCHANGED vars => UNCHANGED <<th, status, waiting, member, dead>>
  BY DEF TimePasses, DelayElapses, EntryStales, LockExpires, vars, redis
<1>2. ASSUME NEW w \in Workers, Beat(w)
      PROVE  UNCHANGED <<th, status, waiting, dead>> /\ member'["delayed"] = member["delayed"]
  BY <1>2, BeatsAlone DEF Sets
<1> QED BY <1>1, <1>2, OneActsOrWaits

\* The task of a thread that becomes another.
LEMMA TaskAfter ==
  ASSUME Typed, NEW x \in Threads, NEW label, NEW u, NEW s, NEW rows,
         \/ Become(x, At(label))
         \/ Become(x, [At(label) EXCEPT !.task = u])
         \/ Become(x, [At(label) EXCEPT !.task = u, !.fresh = TRUE])
         \/ Become(x, [At(label) EXCEPT !.task = u, !.todo = s])
         \/ Become(x, [At(label) EXCEPT !.task = u, !.todo = s, !.rest = rows])
         \/ Become(x, [th[x] EXCEPT !.pc = label])
         \/ Become(x, [th[x] EXCEPT !.pc = label, !.todo = s])
         \/ Become(x, [th[x] EXCEPT !.pc = label, !.todo = s, !.locked = TRUE])
         \/ Become(x, [th[x] EXCEPT !.pc = label, !.attempt = u])
  PROVE  th'[x].task \in {NoTask, u, th[x].task}
<1>1. th \in [Threads -> Thread] /\ th[x] \in Thread
  BY DEF Typed, TypeOK
<1>2. /\ At(label).task = NoTask
      /\ [At(label) EXCEPT !.task = u].task = u
      /\ [At(label) EXCEPT !.task = u, !.fresh = TRUE].task = u
      /\ [At(label) EXCEPT !.task = u, !.todo = s].task = u
      /\ [At(label) EXCEPT !.task = u, !.todo = s, !.rest = rows].task = u
  BY DEF At
<1>3. /\ [th[x] EXCEPT !.pc = label].task = th[x].task
      /\ [th[x] EXCEPT !.pc = label, !.todo = s].task = th[x].task
      /\ [th[x] EXCEPT !.pc = label, !.todo = s, !.locked = TRUE].task = th[x].task
      /\ [th[x] EXCEPT !.pc = label, !.attempt = u].task = th[x].task
  BY <1>1 DEF Thread
<1> QED BY <1>1, <1>2, <1>3, BecomingAlone

\* A row exists for every task that Redis or a thread knows of.
LEMMA KnownFrame ==
  ASSUME Typed, [Next]_vars, KnownTasks, NEW x \in Threads, OthersStay(x), NEW u,
         u \in Tasks => status'[u] # "none",
         th'[x].task \in {NoTask, u, th[x].task} \cap (Tasks \cup {NoTask}),
         \A n \in 1..Len(waiting') : waiting'[n] = u \/ \E m \in 1..Len(waiting) : waiting'[n] = waiting[m],
         waiting' \in Seq(Tasks),
         member'["delayed"] \subseteq member["delayed"] \cup {u}, member'["delayed"] \subseteq Tasks
  PROVE  KnownTasks'
<1>1. \A t \in Tasks : status[t] # "none" => status'[t] # "none"
  BY RowsStay
<1>2. /\ th \in [Threads -> Thread] /\ waiting \in Seq(Tasks) /\ NoTask \notin Tasks
      /\ \A y \in Threads : th[y].task \in Tasks \cup {NoTask}
  BY QueueAssumption DEF Typed, TypeOK, Thread
<1>3. \A n \in 1..Len(waiting') : waiting'[n] \in Tasks
  BY SMT
<1>4. \A m \in 1..Len(waiting) : waiting[m] \in Tasks
  BY <1>2, SMT
<1>5. ASSUME NEW n \in 1..Len(waiting')
      PROVE  status'[waiting'[n]] # "none"
  BY <1>1, <1>3, <1>4 DEF KnownTasks
<1>6. ASSUME NEW y \in Threads, th'[y].task # NoTask
      PROVE  status'[th'[y].task] # "none"
  <2>1. CASE y = x
    BY <1>1, <1>2, <1>6, <2>1 DEF KnownTasks
  <2>2. CASE y # x
    BY <1>1, <1>2, <1>6, <2>2 DEF KnownTasks, OthersStay
  <2> QED BY <2>1, <2>2
<1>7. ASSUME NEW t \in member'["delayed"]
      PROVE  status'[t] # "none"
  BY <1>1, <1>7 DEF KnownTasks
<1> QED BY <1>5, <1>6, <1>7 DEF KnownTasks

\* What may be added to the list.
LEMMA ListedEntries ==
  ASSUME waiting \in Seq(Tasks), NEW u \in Tasks,
         \/ waiting' = waiting
         \/ waiting' = <<u>> \o waiting
         \/ waiting # <<>> /\ waiting' = SubSeq(waiting, 1, Len(waiting) - 1)
  PROVE  \A n \in 1..Len(waiting') : waiting'[n] = u \/ \E m \in 1..Len(waiting) : waiting'[n] = waiting[m]
<1>1. CASE waiting' = waiting
  BY <1>1
<1>2. CASE waiting' = <<u>> \o waiting
  <2>1. /\ Len(waiting') = 1 + Len(waiting) /\ Len(waiting) \in Nat
        /\ waiting'[1] = u
        /\ \A m \in 1..Len(waiting) : waiting'[1 + m] = waiting[m]
    BY <1>2, SMT
  <2>2. \A n \in 1..Len(waiting') : n = 1 \/ (n - 1 \in 1..Len(waiting) /\ n = 1 + (n - 1))
    BY <2>1
  <2> QED BY <2>1, <2>2
<1>3. CASE waiting # <<>> /\ waiting' = SubSeq(waiting, 1, Len(waiting) - 1)
  <2>1. /\ Len(waiting') = Len(waiting) - 1 /\ Len(waiting) \in Nat
        /\ \A n \in 1..Len(waiting') : waiting'[n] = waiting[n]
    BY <1>3, SMT
  <2> QED BY <2>1
<1> QED BY <1>1, <1>2, <1>3

\* No step makes Redis or a thread know of a task that has no row.
LEMMA KnownStep ==
  ASSUME Typed, Typed', AllUp, HeldByWorkers, KnownTasks, ~Fault, [Next]_vars
  PROVE  KnownTasks'
<1>1. /\ th \in [Threads -> Thread] /\ waiting \in Seq(Tasks) /\ waiting' \in Seq(Tasks)
      /\ status \in [Tasks -> Statuses] /\ member \in [Sets -> SUBSET Tasks] /\ "delayed" \in Sets
      /\ member'["delayed"] \subseteq Tasks /\ member["delayed"] \subseteq Tasks
      /\ due \subseteq member["delayed"]
      /\ \A x \in Threads : th'[x].task \in Tasks \cup {NoTask} /\ ThreadOK(x, th[x])
      /\ Clients \subseteq Threads /\ Workers \subseteq Threads
  BY DEF Typed, TypeOK, Thread, ThreadsOK, Threads, Sets
<1>2. ASSUME NEW x \in Threads, OthersStay(x), NEW u \in Tasks, status'[u] # "none",
             th'[x].task \in {NoTask, u, th[x].task},
             \/ waiting' = waiting
             \/ waiting' = <<u>> \o waiting
             \/ waiting # <<>> /\ waiting' = SubSeq(waiting, 1, Len(waiting) - 1),
             member'["delayed"] \subseteq member["delayed"] \cup {u}
      PROVE  KnownTasks'
  <2>1. \A n \in 1..Len(waiting') : waiting'[n] = u \/ \E m \in 1..Len(waiting) : waiting'[n] = waiting[m]
    BY <1>1, <1>2, ListedEntries
  <2> QED BY <1>1, <1>2, <2>1, KnownFrame
<1>3. ASSUME NEW x \in Threads, th[x].task \in Tasks
      PROVE  status'[th[x].task] # "none"
  BY <1>3, RowsStay, QueueAssumption DEF KnownTasks
<1>4. CASE UNCHANGED <<th, status, waiting, dead>> /\ member'["delayed"] = member["delayed"]
  BY <1>4 DEF KnownTasks
<1>5. ASSUME NEW x \in Threads, OthersStay(x), Execute(x)
      PROVE  KnownTasks'
  <2> DEFINE u == th[x].task
             command == Head(th[x].todo)
  <2>1. u \in Tasks /\ status'[u] # "none"
    BY <1>3, <1>5, Executed
  <2>2. th'[x].task \in {NoTask, th[x].task}
    <3>1. CASE th'[x] = At("idle")
      BY <3>1 DEF At
    <3>2. CASE th'[x] = [th[x] EXCEPT !.todo = th'[x].todo]
      BY <1>1, <3>2 DEF Thread
    <3> QED BY <1>5, <3>1, <3>2, Executed
  <2>3. waiting' = waiting \/ waiting' = <<u>> \o waiting
    BY <1>5 DEF Execute
  <2>4. \/ member' = [member EXCEPT ![command[2]] = @ \cup {u}]
        \/ member' = [member EXCEPT ![command[2]] = @ \ {u}]
        \/ member' = member
    BY <1>5 DEF Execute
  <2> HIDE DEF u, command
  <2>5. member'["delayed"] \subseteq member["delayed"] \cup {u}
    BY <1>1, <2>4
  <2> QED BY <1>2, <1>5, <2>1, <2>2, <2>3, <2>5
<1>6. ASSUME NEW c \in Clients, OthersStay(c), ClientStep(c)
      PROVE  KnownTasks'
  <2> DEFINE u == th[c].task
  <2>1. u \in Tasks /\ status'[u] # "none"
    BY <1>1, <1>3, <1>6 DEF ClientStep, Admit, Overloaded, Enqueue, CheckQueued, Listed, Refuse,
      ClaimInRequest, EndInRequest, Ready, ThreadOK, OnTask, ClientLabels
  <2>2. th'[c].task \in {NoTask, th[c].task}
    BY <1>1, <1>6, TaskAfter DEF ClientStep, Admit, Overloaded, Enqueue, CheckQueued, Listed, Refuse,
      ClaimInRequest, EndInRequest, Goto, Then
  <2>3. (waiting' = waiting \/ waiting' = <<u>> \o waiting)
        /\ (member' = member
              \/ member' = [member EXCEPT !["queued"] = @ \cup {u}, !["waitingSet"] = @ \cup {u}])
    BY <1>6 DEF ClientStep, Admit, Overloaded, Enqueue, CheckQueued, Listed, Refuse,
      ClaimInRequest, EndInRequest, Script, redis
  <2> HIDE DEF u
  <2>4. member'["delayed"] = member["delayed"]
    BY <1>1, <2>3
  <2> QED BY <1>1, <1>2, <1>6, <2>1, <2>2, <2>3, <2>4
<1>7. ASSUME NEW c \in Clients, NEW t \in Tasks, OthersStay(c), Arrive(c, t)
      PROVE  KnownTasks'
  <2>1. UNCHANGED <<waiting, member>> /\ status'[t] # "none"
    BY <1>1, <1>7 DEF Arrive, CreateTask, RepeatRequest, redis
  <2>2. th'[c].task \in {NoTask, t, th[c].task}
    BY <1>1, <1>7, TaskAfter DEF Arrive, CreateTask, RepeatRequest, Start
  <2> QED BY <1>1, <1>2, <1>7, <2>1, <2>2
<1>8. ASSUME NEW w \in Workers, OthersStay(w), WorkerStep(w), th[w].pc \notin Trouble
      PROVE  KnownTasks'
  <2>1. ASSUME NEW t \in Tasks, ReleaseDueDelayed(w, t) \/ RecoverStalledActive(w, t)
        PROVE  KnownTasks'
    <3>1. status'[t] # "none"
      <4>1. status[t] # "none"
        BY <1>1, <2>1 DEF ReleaseDueDelayed, RecoverStalledActive, KnownTasks, Terminal, Pending
      <4> QED BY <4>1, RowsStay
    <3>2. th'[w].task \in {NoTask, t, th[w].task}
      <4>1. CASE UNCHANGED th
        BY <4>1
      <4>2. CASE ~UNCHANGED th
        BY <1>1, <2>1, <4>2, TaskAfter DEF ReleaseDueDelayed, RecoverStalledActive
      <4> QED BY <4>1, <4>2
    <3>3. waiting' = waiting /\ (member' = member \/ member' = [member EXCEPT !["delayed"] = @ \ {t}])
      BY <2>1 DEF ReleaseDueDelayed, RecoverStalledActive, redis
    <3> QED BY <1>1, <1>2, <1>8, <3>1, <3>2, <3>3
  <2>2. CASE Pop(w)
    <3> DEFINE u == waiting[Len(waiting)]
    <3>1. Len(waiting) \in 1..Len(waiting) /\ u \in Tasks
      BY <1>1, <2>2, SMT DEF Pop
    <3>2. status'[u] # "none"
      BY <3>1, RowsStay DEF KnownTasks
    <3>3. /\ waiting # <<>> /\ waiting' = SubSeq(waiting, 1, Len(waiting) - 1) /\ member' = member
          /\ Become(w, [At("popped") EXCEPT !.task = u])
      BY <2>2 DEF Pop, Start
    <3> HIDE DEF u
    <3>4. th'[w].task \in {NoTask, u, th[w].task}
      BY <1>1, <3>3, TaskAfter
    <3> QED BY <1>1, <1>2, <1>8, <3>1, <3>2, <3>3, <3>4
  <2>3. CASE ~Pop(w) /\ ~\E t \in Tasks : ReleaseDueDelayed(w, t) \/ RecoverStalledActive(w, t)
    <3> DEFINE u == th[w].task
    <3>1. UNCHANGED <<waiting, member>>
      BY <1>8, <2>3 DEF WorkerStep, RequeueStalled, CheckPopped, TryLock, Postpone, BeginAttempt, ClaimTask,
        EndAttempt, AttemptThrows, Release, NextRound, MarkWorkerException, GiveUp, redis
    <3>2. th'[w].task \in {NoTask, th[w].task}
      <4>1. CASE RequeueStalled(w) \/ CheckPopped(w) \/ TryLock(w) \/ Postpone(w)
        BY <1>1, <4>1, TaskAfter DEF RequeueStalled, CheckPopped, TryLock, Postpone, Then, Goto
      <4>2. CASE BeginAttempt(w)
        <5>1. CASE Skipped(w)
          BY <1>1, <5>1, TaskAfter DEF Skipped, Settle, Then
        <5>2. CASE ~Skipped(w)
          <6>1. PICK n : Become(w, [th[w] EXCEPT !.pc = "loaded", !.attempt = n])
            BY <4>2, <5>2 DEF BeginAttempt
          <6>2. th'[w] = [th[w] EXCEPT !.pc = "loaded", !.attempt = n]
            BY <1>1, <6>1, BecomingAlone
          <6> QED BY <1>1, <6>2 DEF Thread
        <5> QED BY <5>1, <5>2
      <4>3. CASE ClaimTask(w) \/ EndAttempt(w) \/ AttemptThrows(w)
        <5>1. \/ \E s : Then(w, "settling", s)
              \/ Goto(w, "working")
          BY <4>3 DEF ClaimTask, EndAttempt, AttemptThrows, Outcome, Succeeded, Skipped, Retried, Failed, Settle
        <5> QED BY <1>1, <5>1, TaskAfter DEF Then, Goto
      <4>4. CASE Release(w) \/ NextRound(w) \/ MarkWorkerException(w) \/ GiveUp(w)
        BY <1>1, <4>4, TaskAfter DEF Release, NextRound, MarkWorkerException, GiveUp, Then, Goto
      <4> QED BY <1>8, <2>3, <4>1, <4>2, <4>3, <4>4 DEF WorkerStep
    <3>3. CASE u \in Tasks
      BY <1>1, <1>2, <1>3, <1>8, <3>1, <3>2, <3>3
    <3>4. CASE u \notin Tasks
      <4>1. th'[w].task \in {NoTask, th[w].task} /\ (u = NoTask \/ u \notin Tasks \cup {NoTask})
        BY <3>2, <3>4
      <4>2. u = NoTask
        BY <1>1, <3>4 DEF Thread
      <4>3. \A n \in 1..Len(waiting') : \E m \in 1..Len(waiting) : waiting'[n] = waiting[m]
        BY <3>1
      <4> QED BY <1>1, <1>8, <3>1, <3>2, <3>4, <4>2, <4>3, KnownFrame
    <3> QED BY <3>3, <3>4
  <2> QED BY <2>1, <2>2, <2>3
<1> QED BY <1>4, <1>5, <1>6, <1>7, <1>8, OneActs

\* The place of a thread that becomes another, and the rows it has read.
LEMMA PlaceAfter ==
  ASSUME Typed, NEW x \in Threads, NEW label, NEW u, NEW s,
         \/ Become(x, At(label))
         \/ Become(x, [At(label) EXCEPT !.task = u])
         \/ Become(x, [At(label) EXCEPT !.task = u, !.todo = s])
         \/ Become(x, [th[x] EXCEPT !.pc = label])
         \/ Become(x, [th[x] EXCEPT !.pc = label, !.todo = s])
         \/ Become(x, [th[x] EXCEPT !.pc = label, !.todo = s, !.locked = TRUE])
         \/ Become(x, [th[x] EXCEPT !.pc = label, !.attempt = u])
  PROVE  th'[x].pc = label /\ th'[x].rest \in {{}, th[x].rest}
<1>1. th \in [Threads -> Thread] /\ th[x] \in Thread
  BY DEF Typed, TypeOK
<1>2. /\ At(label).pc = label /\ At(label).rest = {}
      /\ [At(label) EXCEPT !.task = u].pc = label /\ [At(label) EXCEPT !.task = u].rest = {}
      /\ [At(label) EXCEPT !.task = u, !.todo = s].pc = label
      /\ [At(label) EXCEPT !.task = u, !.todo = s].rest = {}
  BY DEF At
<1>3. /\ [th[x] EXCEPT !.pc = label].pc = label /\ [th[x] EXCEPT !.pc = label].rest = th[x].rest
      /\ [th[x] EXCEPT !.pc = label, !.todo = s].pc = label
      /\ [th[x] EXCEPT !.pc = label, !.todo = s].rest = th[x].rest
      /\ [th[x] EXCEPT !.pc = label, !.todo = s, !.locked = TRUE].pc = label
      /\ [th[x] EXCEPT !.pc = label, !.todo = s, !.locked = TRUE].rest = th[x].rest
      /\ [th[x] EXCEPT !.pc = label, !.attempt = u].pc = label
      /\ [th[x] EXCEPT !.pc = label, !.attempt = u].rest = th[x].rest
  BY <1>1 DEF Thread
<1> QED BY <1>1, <1>2, <1>3, BecomingAlone

\* A step of one thread keeps the rows in processing with their workers.
LEMMA ProcessedFrame ==
  ASSUME Typed, ProcessedByWorkers, NEW x \in Threads, OthersStay(x),
         \A t \in Tasks \ SyncTasks : status'[t] = "processing" =>
           \/ status[t] = "processing" /\ ~(x \in Workers /\ th[x].pc = "working" /\ th[x].task = t)
           \/ x \in Workers /\ th'[x].pc = "working" /\ th'[x].task = t,
         \A w \in Workers \ {x} : th[w].pc = "working" /\ th[w].task \notin SyncTasks =>
           status'[th[w].task] \in {"processing"} \cup Terminal,
         x \in Workers /\ th'[x].pc = "working" /\ th'[x].task \notin SyncTasks =>
           status'[th'[x].task] \in {"processing"} \cup Terminal,
         x \in Workers => NoneProcessing(th'[x].rest)
  PROVE  ProcessedByWorkers'
<1>1. ASSUME NEW t \in Tasks \ SyncTasks, status'[t] = "processing"
      PROVE  \E w \in Workers : th'[w].task = t /\ th'[w].pc = "working"
  <2>1. CASE x \in Workers /\ th'[x].pc = "working" /\ th'[x].task = t
    BY <2>1
  <2>2. CASE status[t] = "processing" /\ ~(x \in Workers /\ th[x].pc = "working" /\ th[x].task = t)
    <3>1. PICK w \in Workers : th[w].task = t /\ th[w].pc = "working"
      BY <2>2 DEF ProcessedByWorkers
    <3>2. w # x
      BY <2>2, <3>1
    <3> QED BY <3>1, <3>2 DEF OthersStay, Threads
  <2> QED BY <1>1, <2>1, <2>2
<1>2. ASSUME NEW w \in Workers
      PROVE  /\ th'[w].pc = "working" /\ th'[w].task \notin SyncTasks =>
                  status'[th'[w].task] \in {"processing"} \cup Terminal
             /\ NoneProcessing(th'[w].rest)
  <2>1. CASE w = x
    BY <2>1
  <2>2. CASE w # x
    <3>1. th'[w] = th[w]
      BY <2>2 DEF OthersStay, Threads
    <3> QED BY <2>2, <3>1 DEF ProcessedByWorkers
  <2> QED BY <2>1, <2>2
<1> QED BY <1>1, <1>2 DEF ProcessedByWorkers, NoneProcessing, Terminal

\* Two workers that call the gateway or settle do so for two tasks.
LEMMA SoleWorker ==
  ASSUME QueueInv, NEW v \in Workers, NEW w \in Workers, th[v].task = th[w].task,
         th[v].pc \in {"held", "loaded", "working", "settling"},
         th[w].pc \in {"held", "loaded", "working", "settling"}
  PROVE  v = w
<1>1. ThreadOK(v, th[v]) /\ ThreadOK(w, th[w])
  BY DEF QueueInv, Typed, ThreadsOK, Threads
<1>2. Guards(th[v]) /\ Guards(th[w])
  BY <1>1 DEF ThreadOK, Guards
<1> QED BY <1>2 DEF QueueInv, LocksHeld

\* What a worker makes of a row at the end of an attempt.
LEMMA AttemptEnds ==
  ASSUME Typed, NEW w \in Workers, EndAttempt(w) \/ AttemptThrows(w)
  PROVE  /\ th[w].pc \in {"loaded", "working"} /\ th[w].task \in Tasks
         /\ \E s : Then(w, "settling", s)
         /\ \A t \in Tasks : t # th[w].task => status'[t] = status[t]
         /\ status'[th[w].task] \in {"none", "queued"} \cup Terminal
<1> DEFINE t == th[w].task
<1>1. th[w].pc \in {"loaded", "working"} /\ t \in Tasks
  BY DEF EndAttempt, AttemptThrows, Ready, Typed, ThreadsOK, ThreadOK, OnTask, WorkerLabels, Threads
<1>2. status \in [Tasks -> Statuses]
  BY DEF Typed, TypeOK
<1>3. \E s : Then(w, "settling", s)
  BY DEF EndAttempt, AttemptThrows, Outcome, Succeeded, Skipped, Retried, Failed, Settle
<1>4. CASE EndAttempt(w)
  <2>1. \/ \E new \in {"queued", "success"} :
             status' = IF status[t] = "processing" THEN [status EXCEPT ![t] = new] ELSE status
        \/ status' = IF status[t] \in Pending THEN [status EXCEPT ![t] = "failed"] ELSE status
    BY <1>4 DEF EndAttempt, FailTask
  <2> HIDE DEF t
  <2>2. status'[t] \in {"none", "queued"} \cup Terminal /\ \A u \in Tasks : u # t => status'[u] = status[u]
    BY <1>1, <1>2, <2>1 DEF Statuses, Terminal, Pending
  <2> QED BY <1>1, <1>2, <1>3, <2>2 DEF t
<1>5. CASE AttemptThrows(w)
  <2>1. \/ status' = status /\ status[t] \in Terminal
        \/ /\ status[t] \in Pending
           /\ status' = [status EXCEPT ![t] = IF @ = "processing" THEN "queued" ELSE @]
        \/ status' = IF status[t] \in Pending THEN [status EXCEPT ![t] = "failed"] ELSE status
    BY <1>5 DEF AttemptThrows, FailTask, Terminal
  <2> HIDE DEF t
  <2>2. status'[t] \in {"none", "queued"} \cup Terminal /\ \A u \in Tasks : u # t => status'[u] = status[u]
    BY <1>1, <1>2, <2>1 DEF Statuses, Terminal, Pending
  <2> QED BY <1>1, <1>2, <1>3, <2>2 DEF t
<1> QED BY <1>4, <1>5

\* A row is in processing only while a worker calls the gateway for it.
LEMMA ProcessedStep ==
  ASSUME QueueInv, AllUp, HeldByWorkers, KnownTasks, ProcessedByWorkers, ~Fault, [Next]_vars
  PROVE  ProcessedByWorkers'
<1>1. /\ Typed /\ th \in [Threads -> Thread] /\ status \in [Tasks -> Statuses]
      /\ \A x \in Threads : ThreadOK(x, th[x]) /\ th[x] \in Thread
      /\ Clients \subseteq Threads /\ Workers \subseteq Threads /\ Clients \cap Workers = {}
      /\ NoneProcessing({}) /\ \A w \in Workers : NoneProcessing(th[w].rest)
      /\ \A w \in Workers : th[w].pc = "working" /\ th[w].task \notin SyncTasks =>
           status[th[w].task] \in {"processing"} \cup Terminal
  BY QueueAssumption DEF QueueInv, Typed, TypeOK, ThreadsOK, Threads, ProcessedByWorkers, NoneProcessing
<1>2. ASSUME NEW x \in Threads, OthersStay(x), status' = status,
             x \in Workers => /\ th[x].pc # "working" /\ th'[x].pc # "working"
                              /\ NoneProcessing(th'[x].rest)
      PROVE  ProcessedByWorkers'
  BY <1>1, <1>2, ProcessedFrame
<1>3. CASE UNCHANGED <<th, status, waiting, dead>> /\ member'["delayed"] = member["delayed"]
  BY <1>3 DEF ProcessedByWorkers, NoneProcessing, Terminal
<1>4. ASSUME NEW x \in Threads, OthersStay(x), Execute(x)
      PROVE  ProcessedByWorkers'
  <2>1. status' = status /\ th[x].todo # <<>>
    BY <1>4 DEF Execute
  <2>2. x \in Workers => th[x].pc # "working"
    BY <1>1, <2>1 DEF ThreadOK
  <2>3. th'[x].pc \in {"idle", th[x].pc} /\ th'[x].rest \in {{}, th[x].rest}
    <3>1. CASE th'[x] = At("idle")
      BY <3>1 DEF At
    <3>2. CASE th'[x] = [th[x] EXCEPT !.todo = th'[x].todo]
      BY <1>1, <3>2 DEF Thread
    <3> QED BY <1>1, <1>4, <3>1, <3>2, Executed
  <2> QED BY <1>1, <1>2, <1>4, <2>1, <2>2, <2>3
<1>5. ASSUME NEW c \in Clients, OthersStay(c), ClientStep(c)
      PROVE  ProcessedByWorkers'
  <2>1. CASE status' = status
    BY <1>1, <1>2, <1>5, <2>1
  <2>2. CASE Refuse(c)
    <3>1. th[c].task \in Tasks /\ c \notin Workers
      BY <1>1, <2>2 DEF Refuse, Ready, ThreadOK, OnTask, ClientLabels
    <3>2. \A t \in Tasks : status'[t] \in {status[t], "failed"}
      BY <1>1, <2>2, <3>1 DEF Refuse, FailTask
    <3>3. \A t \in Tasks : status[t] \in {"processing"} \cup Terminal => status'[t] \in {"processing"} \cup Terminal
      BY <3>2 DEF Terminal
    <3>4. \A w \in Workers : th[w].pc = "working" => th[w].task \in Tasks
      BY <1>1 DEF ThreadOK, OnTask, WorkerLabels
    <3> QED BY <1>1, <1>5, <3>1, <3>2, <3>3, <3>4, ProcessedFrame
  <2>3. CASE ClaimInRequest(c) \/ EndInRequest(c)
    <3>1. th[c].task \in SyncTasks /\ c \notin Workers
      BY <1>1, <2>3 DEF ClaimInRequest, EndInRequest, Ready, ThreadOK
    <3>2. \A t \in Tasks \ SyncTasks : status'[t] = status[t]
      BY <1>1, <2>3, <3>1 DEF ClaimInRequest, EndInRequest, FailTask
    <3>3. \A w \in Workers : th[w].pc = "working" => th[w].task \in Tasks
      BY <1>1 DEF ThreadOK, OnTask, WorkerLabels
    <3> QED BY <1>1, <1>5, <3>1, <3>2, <3>3, ProcessedFrame
  <2> QED BY <1>5, <2>1, <2>2, <2>3 DEF ClientStep, Admit, Overloaded, Enqueue, CheckQueued, Listed
<1>6. ASSUME NEW c \in Clients, NEW t \in Tasks, OthersStay(c), Arrive(c, t)
      PROVE  ProcessedByWorkers'
  <2>1. CASE status' = status
    BY <1>1, <1>2, <1>6, <2>1
  <2>2. CASE status[t] = "none" /\ status' = [status EXCEPT ![t] = "queued"]
    <3>1. \A w \in Workers : th[w].pc = "working" /\ th[w].task \notin SyncTasks =>
            th[w].task \in Tasks /\ th[w].task # t
      BY <1>1, <2>2 DEF ThreadOK, OnTask, WorkerLabels, Terminal
    <3> QED BY <1>1, <1>6, <2>2, <3>1, ProcessedFrame
  <2> QED BY <1>6, <2>1, <2>2 DEF Arrive, CreateTask, RepeatRequest
<1>7. ASSUME NEW w \in Workers, OthersStay(w), WorkerStep(w), th[w].pc \notin Trouble
      PROVE  ProcessedByWorkers'
  <2>1. ASSUME NEW t \in Tasks, ReleaseDueDelayed(w, t) \/ RecoverStalledActive(w, t)
        PROVE  ProcessedByWorkers'
    <3>1. status' = status /\ th[w].pc = "idle"
      BY <2>1 DEF ReleaseDueDelayed, RecoverStalledActive, Ready
    <3>2. CASE UNCHANGED th
      BY <1>1, <1>2, <1>7, <3>1, <3>2
    <3>3. CASE ReleaseDueDelayed(w, t) /\ ~UNCHANGED th
      <4>1. th'[w].pc = "idle" /\ th'[w].rest \in {{}, th[w].rest}
        BY <1>1, <3>3, PlaceAfter DEF ReleaseDueDelayed
      <4> QED BY <1>1, <1>2, <1>7, <3>1, <4>1
    <3>4. CASE RecoverStalledActive(w, t)
      <4>1. CASE status[t] \in Terminal
        <5>1. Become(w, [At("idle") EXCEPT !.task = t, !.todo = ClearActive \o ReleaseQueueMembership])
          BY <3>4, <4>1 DEF RecoverStalledActive, Terminal, Pending
        <5>2. th'[w].pc = "idle" /\ th'[w].rest \in {{}, th[w].rest}
          BY <1>1, <5>1, PlaceAfter
        <5> QED BY <1>1, <1>2, <1>7, <3>1, <5>2
      <4>2. CASE status[t] \in Pending
        <5>1. lock[t] = Free /\ Become(w, [At("recovering") EXCEPT !.task = t, !.todo = ClearActive,
                                                                     !.rest = {<<t, status[t]>>}])
          BY <3>4, <4>2 DEF RecoverStalledActive, Terminal, Pending
        <5>2. t \notin SyncTasks => status[t] # "processing"
          <6>1. SUFFICES ASSUME t \notin SyncTasks, status[t] = "processing" PROVE FALSE
            OBVIOUS
          <6>2. PICK v \in Workers : th[v].task = t /\ th[v].pc = "working"
            BY <6>1 DEF ProcessedByWorkers
          <6>3. Guards(th[v])
            BY <1>1, <6>2 DEF Guards, ThreadOK
          <6> QED BY <5>1, <6>2, <6>3, QueueAssumption DEF QueueInv, LocksHeld
        <5>3. th'[w] = [At("recovering") EXCEPT !.task = t, !.todo = ClearActive, !.rest = {<<t, status[t]>>}]
          BY <1>1, <5>1, BecomingAlone
        <5>4. th'[w].pc = "recovering" /\ th'[w].rest = {<<t, status[t]>>}
          BY <5>3 DEF At
        <5>5. NoneProcessing(th'[w].rest)
          BY <5>2, <5>4 DEF NoneProcessing
        <5> QED BY <1>1, <1>2, <1>7, <3>1, <5>4, <5>5
      <4> QED BY <3>4, <4>1, <4>2 DEF RecoverStalledActive
    <3> QED BY <2>1, <3>2, <3>3, <3>4
  <2>2. CASE RequeueStalled(w)
    <3>1. th[w].pc = "recovering" /\ th[w].task \in Tasks
      BY <1>1, <2>2 DEF RequeueStalled, Ready, ThreadOK, OnTask, WorkerLabels
    <3>2. \/ Become(w, At("idle"))
          \/ Become(w, [At("idle") EXCEPT !.task = th[w].task, !.todo = ForceWaiting])
      BY <2>2 DEF RequeueStalled
    <3>3. th'[w].pc = "idle" /\ th'[w].rest \in {{}, th[w].rest}
      BY <1>1, <3>2, PlaceAfter
    <3>4. \A t \in Tasks \ SyncTasks : status'[t] = status[t]
      <4>1. <<th[w].task, "processing">> \in th[w].rest => th[w].task \in SyncTasks
        <5>1. <<th[w].task, "processing">>[1] = th[w].task /\ <<th[w].task, "processing">>[2] = "processing"
          OBVIOUS
        <5> QED BY <1>1, <5>1 DEF NoneProcessing
      <4>2. \/ status' = status
            \/ /\ <<th[w].task, "processing">> \in th[w].rest
               /\ status' = [status EXCEPT ![th[w].task] = "queued"]
        BY <2>2 DEF RequeueStalled
      <4> QED BY <1>1, <4>1, <4>2
    <3>5. \A v \in Workers : th[v].pc = "working" => th[v].task \in Tasks
      BY <1>1 DEF ThreadOK, OnTask, WorkerLabels
    <3> QED BY <1>1, <1>7, <3>1, <3>3, <3>4, <3>5, ProcessedFrame
  <2>3. CASE Pop(w) \/ CheckPopped(w) \/ TryLock(w) \/ Postpone(w)
    <3>1. status' = status /\ th[w].pc # "working"
      BY <2>3 DEF Pop, CheckPopped, TryLock, Postpone, Ready, redis
    <3>2. th'[w].pc \in {"popped", "idle", "locking", "held", "postponing"} /\ th'[w].rest \in {{}, th[w].rest}
      <4>1. CASE Pop(w)
        BY <1>1, <4>1, PlaceAfter DEF Pop, Start
      <4>2. CASE CheckPopped(w)
        BY <1>1, <4>2, PlaceAfter DEF CheckPopped, Then, Goto
      <4>3. CASE TryLock(w)
        BY <1>1, <4>3, PlaceAfter DEF TryLock, Then
      <4>4. CASE Postpone(w)
        BY <1>1, <4>4, PlaceAfter DEF Postpone, Then
      <4> QED BY <2>3, <4>1, <4>2, <4>3, <4>4
    <3> QED BY <1>1, <1>2, <1>7, <3>1, <3>2
  <2>4. CASE BeginAttempt(w)
    <3>1. status' = status /\ th[w].pc # "working"
      BY <2>4 DEF BeginAttempt, Ready
    <3>2. CASE Skipped(w)
      <4>1. th'[w].pc = "settling" /\ th'[w].rest \in {{}, th[w].rest}
        BY <1>1, <3>2, PlaceAfter DEF Skipped, Settle, Then
      <4> QED BY <1>1, <1>2, <1>7, <3>1, <4>1
    <3>3. CASE ~Skipped(w)
      <4>1. th'[w].pc = "loaded" /\ th'[w].rest \in {{}, th[w].rest}
        BY <1>1, <2>4, <3>3, PlaceAfter DEF BeginAttempt
      <4> QED BY <1>1, <1>2, <1>7, <3>1, <4>1
    <3> QED BY <3>2, <3>3
  <2>5. CASE ClaimTask(w)
    <3> DEFINE t == th[w].task
    <3>1. th[w].pc = "loaded" /\ t \in Tasks
      BY <1>1, <2>5 DEF ClaimTask, Ready, ThreadOK, OnTask, WorkerLabels
    <3>2. \A v \in Workers \ {w} : th[v].pc = "working" => th[v].task \in Tasks /\ th[v].task # t
      BY <1>1, <3>1, SoleWorker DEF ThreadOK, OnTask, WorkerLabels
    <3>3. \A v \in Workers : th'[v].rest = th[v].rest
      <4>1. \E label, s : Then(w, label, s) \/ Goto(w, label)
        BY <2>5 DEF ClaimTask, Outcome, Succeeded, Skipped, Retried, Failed, Settle
      <4>2. PICK label, s : \/ Become(w, [th[w] EXCEPT !.pc = label, !.todo = s])
                            \/ Become(w, [th[w] EXCEPT !.pc = label])
        BY <4>1 DEF Then, Goto
      <4>3. \/ th'[w] = [th[w] EXCEPT !.pc = label, !.todo = s]
            \/ th'[w] = [th[w] EXCEPT !.pc = label]
        BY <1>1, <4>2, BecomingAlone
      <4>4. th'[w].rest = th[w].rest
        BY <1>1, <4>3 DEF Thread
      <4> QED BY <1>1, <1>7, <4>4 DEF OthersStay
    <3>4. CASE status[t] = "queued" /\ status' = [status EXCEPT ![t] = "processing"] /\ Goto(w, "working")
      <4>1. th'[w] = [th[w] EXCEPT !.pc = "working"]
        BY <1>1, <3>4, BecomingAlone DEF Goto
      <4>2. th'[w].pc = "working" /\ th'[w].task = t
        BY <1>1, <4>1 DEF Thread
      <4> HIDE DEF t
      <4>3. \A u \in Tasks : u # t => status'[u] = status[u]
        BY <1>1, <3>4
      <4>4. status'[t] = "processing"
        BY <1>1, <3>1, <3>4
      <4> QED BY <1>1, <1>7, <3>1, <3>2, <3>3, <4>2, <4>3, <4>4, ProcessedFrame
    <3>5. CASE status[t] = "queued" /\ FailTask(t) /\ Failed(w)
      <4>1. th'[w].pc = "settling"
        BY <1>1, <3>5, PlaceAfter DEF Failed, Settle, Then
      <4> HIDE DEF t
      <4>2. \A u \in Tasks : u # t => status'[u] = status[u]
        BY <1>1, <3>5 DEF FailTask
      <4>3. status'[t] = "failed"
        BY <1>1, <3>1, <3>5 DEF FailTask, Pending
      <4> QED BY <1>1, <1>7, <3>1, <3>2, <3>3, <4>1, <4>2, <4>3, ProcessedFrame
    <3>6. CASE status' = status /\ Outcome(w, status[t])
      <4>1. th'[w].pc = "settling"
        BY <1>1, <3>6, PlaceAfter DEF Outcome, Succeeded, Retried, Failed, Settle, Then
      <4> QED BY <1>1, <1>2, <1>7, <3>1, <3>3, <3>6, <4>1
    <3> QED BY <2>5, <3>4, <3>5, <3>6 DEF ClaimTask
  <2>6. CASE EndAttempt(w) \/ AttemptThrows(w)
    <3> DEFINE t == th[w].task
    <3>1. /\ th[w].pc \in {"loaded", "working"} /\ t \in Tasks
          /\ \A u \in Tasks : u # t => status'[u] = status[u]
          /\ status'[t] \in {"none", "queued"} \cup Terminal
          /\ \E s : Then(w, "settling", s)
      BY <1>1, <2>6, AttemptEnds
    <3>2. th'[w].pc = "settling" /\ th'[w].rest \in {{}, th[w].rest}
      BY <1>1, <3>1, PlaceAfter DEF Then
    <3>3. \A v \in Workers \ {w} : th[v].pc = "working" => th[v].task \in Tasks /\ th[v].task # t
      BY <1>1, <3>1, SoleWorker DEF ThreadOK, OnTask, WorkerLabels
    <3>4. status'[t] # "processing"
      BY <3>1 DEF Terminal
    <3> HIDE DEF t
    <3>5. \A u \in Tasks : status'[u] = "processing" => status[u] = "processing" /\ t # u
      BY <3>1, <3>4
    <3>6. \A v \in Workers \ {w} : th[v].pc = "working" /\ th[v].task \notin SyncTasks =>
            status'[th[v].task] \in {"processing"} \cup Terminal
      BY <1>1, <3>1, <3>3
    <3>7. NoneProcessing(th'[w].rest)
      BY <1>1, <3>2
    <3> QED BY <1>1, <1>7, <3>2, <3>5, <3>6, <3>7, ProcessedFrame DEF t
  <2>7. CASE Release(w) \/ NextRound(w)
    <3>1. status' = status /\ th[w].pc # "working"
      BY <2>7 DEF Release, NextRound, Ready
    <3>2. th'[w].pc \in {"releasing", "gone", "idle"} /\ th'[w].rest \in {{}, th[w].rest}
      <4>1. CASE Release(w)
        BY <1>1, <4>1, PlaceAfter DEF Release, Then
      <4>2. CASE NextRound(w)
        <5>1. PICK label \in {"gone", "idle"} : Become(w, At(label))
          BY <4>2 DEF NextRound
        <5> QED BY <1>1, <5>1, PlaceAfter
      <4> QED BY <2>7, <4>1, <4>2
    <3> QED BY <1>1, <1>2, <1>7, <3>1, <3>2
  <2>8. ~MarkWorkerException(w) /\ ~GiveUp(w)
    BY <1>7 DEF MarkWorkerException, GiveUp, Ready, Trouble
  <2> QED BY <1>7, <2>1, <2>2, <2>3, <2>4, <2>5, <2>6, <2>7, <2>8 DEF WorkerStep
<1> QED BY <1>1, <1>3, <1>4, <1>5, <1>6, <1>7, OneActs

\* A step of one thread that buries only what has failed.
LEMMA BuriedFrame ==
  ASSUME Typed, [Next]_vars, BuriedHaveFailed, NEW x \in Threads, OthersStay(x),
         \A t \in dead' \ SyncTasks : t \in dead \/ (t \in Tasks /\ status[t] = "failed"),
         Bury \in CommandsOf(th'[x].todo) /\ th'[x].task \notin SyncTasks =>
           th'[x].task \in Tasks /\ status'[th'[x].task] = "failed"
  PROVE  BuriedHaveFailed'
<1>1. \A t \in Tasks : status[t] = "failed" => status'[t] = "failed"
  BY RowsStay
<1>2. dead \subseteq Tasks /\ (\A y \in Threads : ThreadOK(y, th[y])) /\ th \in [Threads -> Thread]
  BY DEF Typed, TypeOK, ThreadsOK
<1>3. \A t \in dead' \ SyncTasks : status'[t] = "failed"
  BY <1>1, <1>2 DEF BuriedHaveFailed
<1>4. ASSUME NEW y \in Threads, Bury \in CommandsOf(th'[y].todo), th'[y].task \notin SyncTasks
      PROVE  status'[th'[y].task] = "failed"
  <2>1. CASE y = x
    BY <1>4, <2>1
  <2>2. CASE y # x
    <3>1. th'[y] = th[y] /\ status[th[y].task] = "failed"
      BY <1>4, <2>2 DEF OthersStay, BuriedHaveFailed
    <3>2. th[y].task \in Tasks
      BY <1>2, <1>4, <3>1, NothingToDo DEF ThreadOK
    <3> QED BY <1>1, <3>1, <3>2
  <2> QED BY <2>1, <2>2
<1> QED BY <1>3, <1>4 DEF BuriedHaveFailed

\* The script of a thread that becomes another.
LEMMA ScriptAfter ==
  ASSUME Typed, NEW x \in Threads, NEW label, NEW u, NEW s, NEW rows,
         th[x].todo = <<>>, Bury \notin CommandsOf(s),
         \/ Become(x, At(label))
         \/ Become(x, [At(label) EXCEPT !.task = u])
         \/ Become(x, [At(label) EXCEPT !.task = u, !.fresh = TRUE])
         \/ Become(x, [At(label) EXCEPT !.task = u, !.todo = s])
         \/ Become(x, [At(label) EXCEPT !.task = u, !.todo = s, !.rest = rows])
         \/ Become(x, [th[x] EXCEPT !.pc = label])
         \/ Become(x, [th[x] EXCEPT !.pc = label, !.todo = s])
         \/ Become(x, [th[x] EXCEPT !.pc = label, !.todo = s, !.locked = TRUE])
         \/ Become(x, [th[x] EXCEPT !.pc = label, !.attempt = u])
  PROVE  Bury \notin CommandsOf(th'[x].todo)
<1>1. th \in [Threads -> Thread] /\ th[x] \in Thread
  BY DEF Typed, TypeOK
<1>2. /\ At(label).todo = <<>>
      /\ [At(label) EXCEPT !.task = u].todo = <<>>
      /\ [At(label) EXCEPT !.task = u, !.fresh = TRUE].todo = <<>>
      /\ [At(label) EXCEPT !.task = u, !.todo = s].todo = s
      /\ [At(label) EXCEPT !.task = u, !.todo = s, !.rest = rows].todo = s
  BY DEF At
<1>3. /\ [th[x] EXCEPT !.pc = label].todo = <<>>
      /\ [th[x] EXCEPT !.pc = label, !.todo = s].todo = s
      /\ [th[x] EXCEPT !.pc = label, !.todo = s, !.locked = TRUE].todo = s
      /\ [th[x] EXCEPT !.pc = label, !.attempt = u].todo = <<>>
  BY <1>1 DEF Thread
<1>4. th'[x].todo \in {<<>>, s}
  BY <1>1, <1>2, <1>3, BecomingAlone
<1> QED BY <1>4, NothingToDo

\* Of the procedures only moveToDead buries.
LEMMA OnlyMoveToDeadBuries ==
  /\ Bury \notin CommandsOf(<<>>)
  /\ Bury \notin CommandsOf(ClearActive) /\ Bury \notin CommandsOf(ForceWaiting)
  /\ Bury \notin CommandsOf(ScheduleRetry) /\ Bury \notin CommandsOf(HoldTask)
  /\ Bury \notin CommandsOf(ListAgain) /\ Bury \notin CommandsOf(<<Remove("waitingSet")>>)
  /\ Bury \notin CommandsOf(<<Forget>> \o ReleaseQueueMembership)
  /\ Bury \notin CommandsOf(ClearActive \o ReleaseQueueMembership)
  /\ Bury \notin CommandsOf(ClearActive \o <<Unlock>>)
  /\ Bury \notin CommandsOf(HasPendingQueueState)
<1>1. \A set : Bury # Add(set) /\ Bury # Remove(set)
  BY DEF Bury, Add, Remove
<1>2. Bury # Enlist /\ Bury # Push /\ Bury # Unlock /\ Bury # Forget
  BY DEF Bury, Enlist, Push, Unlock, Forget
<1>3. Bury \notin Seeks
  BY DEF Bury, Seeks, Seek
<1> QED BY <1>1, <1>2, <1>3, NothingToDo, Procedures, JoinedProcedures

\* A worker that gives a task up as a dead letter finds it failed, and one that is
\* done with it finds it settled.
LEMMA FailedIsFailed ==
  ASSUME QueueInv, KnownTasks, ProcessedByWorkers, NEW w \in Workers, th[w].task \notin SyncTasks,
         ClaimTask(w) \/ EndAttempt(w) \/ AttemptThrows(w)
  PROVE  /\ th[w].task \in Tasks
         /\ \/ Goto(w, "working") \/ Retried(w)
            \/ (Succeeded(w) \/ Skipped(w)) /\ status'[th[w].task] \in Terminal
            \/ Failed(w) /\ status'[th[w].task] = "failed"
<1> DEFINE t == th[w].task
<1>1. /\ Typed /\ status \in [Tasks -> Statuses] /\ t \in Tasks /\ w \in Threads
      /\ th[w].pc \in {"loaded", "working"}
  BY DEF QueueInv, Typed, TypeOK, ThreadsOK, ThreadOK, ClaimTask, EndAttempt, AttemptThrows, Ready,
    OnTask, WorkerLabels, Threads
<1>2. FailTask(t) /\ status[t] \in Pending => status'[t] = "failed"
  BY <1>1 DEF FailTask
<1>3. CASE ClaimTask(w)
  <2>1. CASE Goto(w, "working")
    BY <1>1, <2>1
  <2>2. CASE status[t] = "queued" /\ FailTask(t) /\ Failed(w)
    BY <1>1, <1>2, <2>2 DEF Pending
  <2>3. CASE status[t] # "queued" /\ Outcome(w, status[t]) /\ status' = status
    <3>1. th[w].pc = "loaded"
      BY <1>3 DEF ClaimTask, Ready
    <3>2. status[t] # "processing"
      <4>1. SUFFICES ASSUME status[t] = "processing" PROVE FALSE
        OBVIOUS
      <4>2. PICK v \in Workers : th[v].task = t /\ th[v].pc = "working"
        BY <1>1, <4>1 DEF ProcessedByWorkers
      <4>3. v = w
        BY <3>1, <4>2, SoleWorker
      <4> QED BY <3>1, <4>2, <4>3
    <3>3. status[t] # "none"
      BY <1>1, QueueAssumption DEF KnownTasks
    <3>4. status[t] \in Terminal
      BY <1>1, <2>3, <3>2, <3>3 DEF Statuses, Pending
    <3> QED BY <1>1, <2>3, <3>4 DEF Outcome, Terminal
  <2> QED BY <1>3, <2>1, <2>2, <2>3 DEF ClaimTask
<1>4. CASE EndAttempt(w)
  <2>1. status'[t] \in {"queued"} \cup Terminal /\ status[t] \in {"processing"} \cup Terminal
    <3>1. status[t] \in {"processing"} \cup Terminal
      BY <1>4 DEF EndAttempt, Ready, ProcessedByWorkers
    <3>2. status'[t] \in {"none", "queued"} \cup Terminal
      BY <1>1, <1>4, AttemptEnds
    <3>3. status'[t] # "none"
      <4>1. FailTask(t) => status'[t] \in {status[t], "failed"}
        BY <1>1 DEF FailTask
      <4>2. FailTask(t) \/ \E new \in {"queued", "success"} :
              status' = IF status[t] = "processing" THEN [status EXCEPT ![t] = new] ELSE status
        BY <1>4 DEF EndAttempt
      <4> HIDE DEF t
      <4> QED BY <1>1, <3>1, <4>1, <4>2 DEF Terminal
    <3> QED BY <3>1, <3>2, <3>3
  <2>2. Outcome(w, status'[t])
    BY <1>4 DEF EndAttempt
  <2>3. status'[t] = "queued" => th[w].attempt < MaxAttempts
    <3>1. \/ status' = IF status[t] = "processing" THEN [status EXCEPT ![t] = "success"] ELSE status
          \/ th[w].attempt < MaxAttempts
          \/ FailTask(t)
      BY <1>4 DEF EndAttempt
    <3> HIDE DEF t
    <3> QED BY <1>1, <2>1, <3>1 DEF FailTask, Terminal, Pending
  <2>4. status'[t] = "failed" \/ status'[t] = "success" \/ status'[t] = "queued"
    BY <2>1 DEF Terminal
  <2>5. CASE status'[t] = "queued"
    BY <1>1, <2>2, <2>3, <2>5 DEF Outcome
  <2>6. CASE status'[t] = "success"
    BY <1>1, <2>2, <2>6 DEF Outcome, Terminal
  <2>7. CASE status'[t] = "failed"
    BY <1>1, <2>2, <2>7 DEF Outcome, Terminal
  <2> QED BY <2>4, <2>5, <2>6, <2>7
<1>5. CASE AttemptThrows(w)
  <2>1. CASE status[t] \in Terminal /\ UNCHANGED status /\ (Succeeded(w) \/ Skipped(w))
    BY <1>1, <2>1
  <2>2. CASE Retried(w)
    BY <1>1, <2>2
  <2>3. CASE status[t] \in Pending /\ FailTask(t) /\ Failed(w)
    BY <1>1, <1>2, <2>3
  <2>4. \/ status[t] \in {"success", "failed"} /\ UNCHANGED status /\ (Succeeded(w) \/ Skipped(w))
        \/ Retried(w)
        \/ status[t] \in Pending /\ FailTask(t) /\ Failed(w)
    BY <1>5 DEF AttemptThrows
  <2> QED BY <2>1, <2>2, <2>3, <2>4 DEF Terminal
<1> QED BY <1>3, <1>4, <1>5

\* Only tasks that have failed are buried.
LEMMA BuriedStep ==
  ASSUME QueueInv, QueueInv', AllUp, HeldByWorkers, KnownTasks, ProcessedByWorkers, BuriedHaveFailed,
         ~Fault, [Next]_vars
  PROVE  BuriedHaveFailed'
<1>1. /\ Typed /\ th \in [Threads -> Thread]
      /\ \A x \in Threads : ThreadOK(x, th[x]) /\ th[x] \in Thread
      /\ Clients \subseteq Threads /\ Workers \subseteq Threads
      /\ dead \subseteq Tasks
  BY DEF QueueInv, Typed, TypeOK, ThreadsOK, Threads
<1>2. ASSUME NEW x \in Threads, OthersStay(x), dead' = dead, Bury \notin CommandsOf(th'[x].todo)
      PROVE  BuriedHaveFailed'
  BY <1>1, <1>2, BuriedFrame
<1>3. CASE UNCHANGED <<th, status, waiting, dead>> /\ member'["delayed"] = member["delayed"]
  BY <1>3 DEF BuriedHaveFailed
<1>4. ASSUME NEW x \in Threads, OthersStay(x), Execute(x)
      PROVE  BuriedHaveFailed'
  <2> DEFINE t == th[x].task
             command == Head(th[x].todo)
  <2>1. /\ t \in Tasks /\ command \in Commands /\ command \in CommandsOf(th[x].todo)
        /\ CommandsOf(th'[x].todo) \subseteq CommandsOf(th[x].todo)
        /\ status' = status
    BY <1>1, <1>4, Executed DEF Execute
  <2>2. th'[x].task = t \/ th'[x].todo = <<>>
    <3>1. CASE th'[x] = At("idle")
      BY <3>1 DEF At
    <3>2. CASE th'[x] = [th[x] EXCEPT !.todo = th'[x].todo]
      BY <1>1, <3>2 DEF Thread
    <3> QED BY <1>1, <1>4, <3>1, <3>2, Executed
  <2>3. dead' = IF command[1] = "bury" THEN dead \cup {t} ELSE dead
    BY <1>4 DEF Execute
  <2>4. Bury \in CommandsOf(th[x].todo) /\ t \notin SyncTasks => status[t] = "failed"
    BY DEF BuriedHaveFailed
  <2> HIDE DEF t, command
  <2>5. command[1] = "bury" => command = Bury
    BY <2>1 DEF Commands, Add, Remove, Seek, Enlist, Push, Unlock, Forget, Bury
  <2>6. \A u \in dead' \ SyncTasks : u \in dead \/ (u \in Tasks /\ status[u] = "failed")
    BY <2>1, <2>3, <2>4, <2>5
  <2>7. Bury \in CommandsOf(th'[x].todo) /\ th'[x].task \notin SyncTasks =>
          th'[x].task \in Tasks /\ status'[th'[x].task] = "failed"
    BY <2>1, <2>2, <2>4, NothingToDo
  <2> QED BY <1>1, <1>4, <2>6, <2>7, BuriedFrame
<1>5. ASSUME NEW c \in Clients, OthersStay(c), ClientStep(c)
      PROVE  BuriedHaveFailed'
  <2>1. dead' = dead /\ th[c].todo = <<>>
    BY <1>5 DEF ClientStep, Admit, Overloaded, Enqueue, CheckQueued, Listed, Refuse,
      ClaimInRequest, EndInRequest, Ready, redis
  <2>2. Bury \notin CommandsOf(th'[c].todo)
    BY <1>1, <1>5, <2>1, OnlyMoveToDeadBuries, ScriptAfter
      DEF ClientStep, Admit, Overloaded, Enqueue, CheckQueued, Listed, Refuse,
        ClaimInRequest, EndInRequest, Goto, Then
  <2> QED BY <1>1, <1>2, <1>5, <2>1, <2>2
<1>6. ASSUME NEW c \in Clients, NEW t \in Tasks, OthersStay(c), Arrive(c, t)
      PROVE  BuriedHaveFailed'
  <2>1. dead' = dead /\ th[c].todo = <<>>
    BY <1>6 DEF Arrive, CreateTask, RepeatRequest, Ready, redis
  <2>2. Bury \notin CommandsOf(th'[c].todo)
    BY <1>1, <1>6, <2>1, OnlyMoveToDeadBuries, ScriptAfter DEF Arrive, CreateTask, RepeatRequest, Start
  <2> QED BY <1>1, <1>2, <1>6, <2>1, <2>2
<1>7. ASSUME NEW w \in Workers, OthersStay(w), WorkerStep(w), th[w].pc \notin Trouble
      PROVE  BuriedHaveFailed'
  <2>0. dead' = dead /\ th[w].todo = <<>>
    BY <1>7 DEF WorkerStep, ReleaseDueDelayed, RecoverStalledActive, RequeueStalled, Pop,
      CheckPopped, TryLock, Postpone, BeginAttempt, ClaimTask, EndAttempt, AttemptThrows, Release,
      NextRound, MarkWorkerException, GiveUp, Ready, redis
  <2>1. ASSUME Bury \notin CommandsOf(th'[w].todo)
        PROVE  BuriedHaveFailed'
    BY <1>1, <1>2, <1>7, <2>0, <2>1
  <2>2. ASSUME NEW t \in Tasks, ReleaseDueDelayed(w, t) \/ RecoverStalledActive(w, t)
        PROVE  Bury \notin CommandsOf(th'[w].todo)
    <3>1. CASE UNCHANGED th
      BY <2>0, <3>1, OnlyMoveToDeadBuries
    <3>2. CASE ReleaseDueDelayed(w, t) /\ ~UNCHANGED th
      BY <1>1, <2>0, <3>2, OnlyMoveToDeadBuries, ScriptAfter DEF ReleaseDueDelayed
    <3>3. CASE RecoverStalledActive(w, t)
      BY <1>1, <2>0, <3>3, OnlyMoveToDeadBuries, ScriptAfter DEF RecoverStalledActive
    <3> QED BY <2>2, <3>1, <3>2, <3>3
  <2>3. CASE RequeueStalled(w) \/ Pop(w)
    <3>1. Bury \notin CommandsOf(th'[w].todo)
      BY <1>1, <2>0, <2>3, OnlyMoveToDeadBuries, ScriptAfter DEF RequeueStalled, Pop, Start
    <3> QED BY <2>1, <3>1
  <2>4. CASE CheckPopped(w) \/ TryLock(w) \/ Postpone(w)
    <3>1. Bury \notin CommandsOf(th'[w].todo)
      BY <1>1, <2>0, <2>4, OnlyMoveToDeadBuries, ScriptAfter DEF CheckPopped, TryLock, Postpone, Then, Goto
    <3> QED BY <2>1, <3>1
  <2>5. CASE BeginAttempt(w)
    <3>1. Bury \notin CommandsOf(th'[w].todo)
      <4>1. CASE Skipped(w)
        BY <1>1, <2>0, <4>1, OnlyMoveToDeadBuries, ScriptAfter DEF Skipped, Settle, Then
      <4>2. CASE ~Skipped(w)
        BY <1>1, <2>0, <2>5, <4>2, OnlyMoveToDeadBuries, ScriptAfter DEF BeginAttempt
      <4> QED BY <4>1, <4>2
    <3> QED BY <2>1, <3>1
  <2>6. CASE ClaimTask(w) \/ EndAttempt(w) \/ AttemptThrows(w)
    <3>1. CASE Goto(w, "working") \/ Succeeded(w) \/ Skipped(w) \/ Retried(w)
      <4>1. Bury \notin CommandsOf(th'[w].todo)
        BY <1>1, <2>0, <3>1, OnlyMoveToDeadBuries, ScriptAfter DEF Goto, Succeeded, Skipped, Retried, Settle, Then
      <4> QED BY <2>1, <4>1
    <3>2. CASE Failed(w) /\ status'[th[w].task] = "failed"
      <4>1. th'[w].task = th[w].task /\ th[w].task \in Tasks
        <5>1. th'[w] = [th[w] EXCEPT !.pc = "settling", !.todo = MoveToDead]
          BY <1>1, <3>2, BecomingAlone DEF Failed, Settle, Then
        <5>2. th[w].task \in Tasks
          BY <1>1, <2>6 DEF ClaimTask, EndAttempt, AttemptThrows, Ready, ThreadOK, OnTask, WorkerLabels
        <5> QED BY <1>1, <5>1, <5>2 DEF Thread
      <4> QED BY <1>1, <1>7, <2>0, <3>2, <4>1, BuriedFrame
    <3>3. CASE th[w].task \in SyncTasks
      <4>1. th'[w].task = th[w].task
        <5>1. \E label, s : Then(w, label, s) \/ Goto(w, label)
          BY <2>6 DEF ClaimTask, EndAttempt, AttemptThrows, Outcome, Succeeded, Skipped, Retried, Failed, Settle
        <5>2. PICK label, s : \/ Become(w, [th[w] EXCEPT !.pc = label, !.todo = s])
                              \/ Become(w, [th[w] EXCEPT !.pc = label])
          BY <5>1 DEF Then, Goto
        <5>3. \/ th'[w] = [th[w] EXCEPT !.pc = label, !.todo = s]
              \/ th'[w] = [th[w] EXCEPT !.pc = label]
          BY <1>1, <5>2, BecomingAlone
        <5> QED BY <1>1, <5>3 DEF Thread
      <4> QED BY <1>1, <1>7, <2>0, <3>3, <4>1, BuriedFrame
    <3> QED BY <2>6, <3>1, <3>2, <3>3, FailedIsFailed
  <2>7. CASE Release(w)
    <3>1. Bury \notin CommandsOf(th'[w].todo)
      BY <1>1, <2>0, <2>7, OnlyMoveToDeadBuries, ScriptAfter DEF Release, Then
    <3> QED BY <2>1, <3>1
  <2>8. CASE NextRound(w)
    <3>1. PICK label : Become(w, At(label))
      BY <2>8 DEF NextRound
    <3>2. Bury \notin CommandsOf(th'[w].todo)
      BY <1>1, <2>0, <3>1, OnlyMoveToDeadBuries, ScriptAfter
    <3> QED BY <2>1, <3>2
  <2>9. ~MarkWorkerException(w) /\ ~GiveUp(w)
    BY <1>7 DEF MarkWorkerException, GiveUp, Ready, Trouble
  <2> QED BY <1>7, <2>1, <2>2, <2>3, <2>4, <2>5, <2>6, <2>7, <2>8, <2>9 DEF WorkerStep
<1> QED BY <1>1, <1>3, <1>4, <1>5, <1>6, <1>7, OneActs

\* At first all instances are up and there is no row.
LEMMA DeadAtFirst ==
  ASSUME Init, Late = {}
  PROVE  DeadInv
<1>1. \A x \in Threads : th[x] = At("up") \/ th[x] = At("idle")
  BY DEF Init
<1>2. \A x \in Threads : th[x].task = NoTask /\ th[x].todo = <<>> /\ th[x].pc # "working" /\ th[x].rest = {}
  BY <1>1 DEF At
<1>3. AllUp
  BY DEF Init, AllUp, At, Threads
<1>4. waiting = <<>> /\ Len(<<>>) = 0 /\ member["delayed"] = {} /\ dead = {}
  BY SMT DEF Init, Sets
<1>5. KnownTasks
  BY <1>2, <1>4 DEF KnownTasks
<1>6. ProcessedByWorkers
  BY <1>2 DEF ProcessedByWorkers, NoneProcessing, Init, Threads
<1>7. BuriedHaveFailed
  BY <1>2, <1>4, NothingToDo DEF BuriedHaveFailed
<1> QED BY <1>3, <1>5, <1>6, <1>7 DEF DeadInv

\* The counters of faults never go down, and no fault leaves them alone.
LEMMA NoFaultYet ==
  ASSUME Typed, [Next]_vars, NoFaults'
  PROVE  ~Fault /\ NoFaults
<1>1. crashes \in Nat /\ errors \in Nat /\ crashes' = 0 /\ errors' = 0
  BY DEF NoFaults, Typed, TypeOK
<1>2. ~Fault
  <2>1. crashes + 1 # 0 /\ errors + 1 # 0
    BY <1>1
  <2>2. Fault => crashes' = crashes + 1 \/ errors' = errors + 1
    BY DEF Fault, Crash, ClientError, WorkerError
  <2> QED BY <1>1, <2>1, <2>2
<1>3. UNCHANGED <<crashes, errors>>
  <2>1. ASSUME NEW x, Execute(x) PROVE UNCHANGED <<crashes, errors>>
    BY <2>1 DEF Execute, outside
  <2>2. ASSUME NEW c, ClientStep(c) PROVE UNCHANGED <<crashes, errors>>
    BY <2>2 DEF ClientStep, Admit, Overloaded, Enqueue, CheckQueued, Listed, Refuse,
      ClaimInRequest, EndInRequest, outside
  <2>3. ASSUME NEW i, InstanceStep(i) PROVE UNCHANGED <<crashes, errors>>
    BY <2>3 DEF InstanceStep, Boot, PendingTasks, RecoverPendingTask, StartWorkers, outside
  <2>4. ASSUME NEW w, WorkerStep(w) PROVE UNCHANGED <<crashes, errors>>
    BY <2>4 DEF WorkerStep, ReleaseDueDelayed, RecoverStalledActive, RequeueStalled, Pop, CheckPopped,
      TryLock, Postpone, BeginAttempt, ClaimTask, EndAttempt, AttemptThrows, Release, NextRound,
      MarkWorkerException, GiveUp, outside
  <2>5. ASSUME NEW c, NEW t, Arrive(c, t) \/ TimePasses(t) PROVE UNCHANGED <<crashes, errors>>
    BY <2>5 DEF Arrive, CreateTask, RepeatRequest, TimePasses, DelayElapses, EntryStales, LockExpires,
      outside
  <2>6. CASE UNCHANGED vars
    BY <2>6 DEF vars, outside
  <2>7. ASSUME NEW w \in Workers, Beat(w) PROVE UNCHANGED <<crashes, errors>>
    BY <2>7, BeatsAlone
  <2> QED BY <1>2, <2>1, <2>2, <2>3, <2>4, <2>5, <2>6, <2>7 DEF Next, Step
<1> QED BY <1>1, <1>2, <1>3 DEF NoFaults

\* Every step where nothing fails.
LEMMA DeadStep ==
  ASSUME QueueInv, QueueInv', HeldByWorkers, DeadInv, ~Fault, [Next]_vars
  PROVE  DeadInv'
BY OneActs, KnownStep, ProcessedStep, BuriedStep DEF DeadInv, QueueInv

\* Where no process dies or starts beside the others and no call fails, every dead
\* letter has failed, and its price was refunded with that: moveToDead follows the
\* row that processTask returns, and nobody else touches a task in processing.
THEOREM DeadLetters == Spec => [](Late = {} /\ NoFaults => DeadLettersHaveFailed)
<1> DEFINE Fine == NoFaults => HeldByWorkers
           Inv == Late = {} /\ NoFaults => DeadInv
<1>1. Init => Inv
  BY DeadAtFirst
<1>2. QueueInv /\ QueueInv' /\ Fine /\ Inv /\ [Next]_vars => Inv'
  <2> SUFFICES ASSUME QueueInv, QueueInv', Fine, Inv, [Next]_vars, Late = {}, NoFaults' PROVE DeadInv'
    BY DEF NoFaults
  <2>1. ~Fault /\ NoFaults
    BY NoFaultYet DEF QueueInv
  <2> QED BY <2>1, DeadStep
<1>3. Inv => (Late = {} /\ NoFaults => DeadLettersHaveFailed)
  BY DEF DeadInv, BuriedHaveFailed, DeadLettersHaveFailed
<1>4. Spec => []Fine
  BY HeldAlways
<1> QED BY <1>1, <1>2, <1>3, <1>4, Invariance, PTL DEF Spec

-----------------------------------------------------------------------------
(* What is not forgotten *)

\* A step of one thread that loses no pending task.
LEMMA ForgetFrame ==
  ASSUME Typed, Typed', ForgetInv, KnownTasks, NEW x \in Threads, OthersStay(x), stale' = {},
         \A t \in Tasks :
           \/ RowMoves(t)
           \/ x \in Clients /\ status[t] = "none" /\ Waits(th'[x]) /\ th'[x].task = t
           \/ status[t] = "none" /\ t \in SyncTasks,
         \A t \in Tasks \ SyncTasks : status'[t] \in Pending =>
           /\ t \in member["queued"] => t \in member'["queued"]
           /\ t \in member["delayed"] \ due => t \in member'["delayed"] \ due'
           /\ Carried(t) => Carried(t)' \/ (th'[x].task = t /\ Keeping(th'[x])),
         \A t \in member'["queued"] :
           \/ t \in member["queued"]
           \/ x \in Clients /\ Waits(th[x]) /\ ~Waits(th'[x]) /\ th[x].task = t /\ status[t] # "none",
         SoundScript(th[x])',
         x \in Clients =>
           /\ th'[x].pc \notin {"checking", "listing"}
           /\ Waits(th'[x]) =>
                /\ th'[x].task \notin member'["queued"]
                /\ \A d \in Clients \ {x} : Waits(th[d]) => th[d].task # th'[x].task
           /\ Waits(th[x]) /\ th[x].task \notin SyncTasks /\ status'[th[x].task] \in Pending =>
                th[x].task \in member'["queued"] \/ (Waits(th'[x]) /\ th'[x].task = th[x].task),
         \A t \in Tasks \ SyncTasks : Keeping(th[x]) /\ th[x].task = t /\ status'[t] \in Pending =>
           \/ Carried(t)'
           \/ Keeping(th'[x]) /\ th'[x].task = t
           \/ \E y \in Threads \ {x} : Keeping(th[y]) /\ th[y].task = t
  PROVE  ForgetInv'
<1>1. /\ \A y \in Threads : y # x => th'[y] = th[y]
      /\ \A y \in Threads : ThreadOK(y, th[y]) /\ th[y] \in Thread
      /\ member \in [Sets -> SUBSET Tasks] /\ member' \in [Sets -> SUBSET Tasks]
      /\ {"queued", "delayed"} \subseteq Sets /\ Clients \subseteq Threads /\ NoTask \notin Tasks
  BY QueueAssumption DEF OthersStay, Typed, TypeOK, ThreadsOK, Sets, Threads
<1>2. /\ OneRequestPerTask /\ QueuedOrWaiting /\ InGoodHands
      /\ \A y \in Threads : SoundScript(th[y])
  BY DEF ForgetInv
<1>3. ASSUME NEW t \in Tasks, status[t] # "none"
      PROVE  /\ status'[t] # "none"
             /\ status'[t] \in Pending => status[t] \in Pending
             /\ status[t] \in Terminal => status'[t] \in Terminal
  <2>1. RowMoves(t)
    BY <1>3
  <2> QED BY <1>3, <2>1 DEF RowMoves, Pending, Terminal
<1>4. OneRequestPerTask'
  <2>1. ASSUME NEW t \in member'["queued"]
        PROVE  status'[t] # "none"
    <3>1. t \in Tasks /\ status[t] # "none"
      BY <1>1, <1>2 DEF OneRequestPerTask
    <3> QED BY <1>3, <3>1
  <2>2. ASSUME NEW c \in Clients
        PROVE  th'[c].pc \notin {"checking", "listing"}
    BY <1>1, <1>2 DEF OneRequestPerTask
  <2>3. ASSUME NEW c \in Clients, Waits(th'[c])
        PROVE  th'[c].task \notin member'["queued"]
    <3>1. CASE c = x
      BY <2>3, <3>1
    <3>2. CASE c # x
      <4>1. th'[c] = th[c] /\ Waits(th[c])
        BY <1>1, <2>3, <3>2
      <4>2. th[c].task \notin member["queued"] /\ \A d \in Clients : Waits(th[d]) /\ th[d].task = th[c].task => d = c
        BY <1>2, <4>1 DEF OneRequestPerTask
      <4> QED BY <3>2, <4>1, <4>2
    <3> QED BY <3>1, <3>2
  <2>4. ASSUME NEW c \in Clients, NEW d \in Clients, Waits(th'[c]), Waits(th'[d]), th'[d].task = th'[c].task
        PROVE  d = c
    <3>1. CASE c # x /\ d # x
      <4>1. th'[c] = th[c] /\ th'[d] = th[d]
        BY <1>1, <3>1
      <4> QED BY <1>2, <2>4, <4>1 DEF OneRequestPerTask
    <3>2. CASE c = x /\ d # x
      <4>1. th'[d] = th[d]
        BY <1>1, <3>2
      <4> QED BY <2>4, <3>2, <4>1
    <3>3. CASE c # x /\ d = x
      <4>1. th'[c] = th[c]
        BY <1>1, <3>3
      <4> QED BY <2>4, <3>3, <4>1
    <3> QED BY <3>1, <3>2, <3>3
  <2> QED BY <2>1, <2>2, <2>3, <2>4 DEF OneRequestPerTask
<1>5. ASSUME NEW y \in Threads
      PROVE  SoundScript(th[y])'
  <2>1. CASE y = x
    BY <2>1
  <2>2. CASE y # x
    <3>1. th'[y] = th[y] /\ SoundScript(th[y])
      BY <1>1, <1>2, <2>2
    <3>2. CASE th[y].task \in Tasks
      <4>1. status[th[y].task] # "none"
        BY <1>1, <3>2 DEF KnownTasks
      <4> QED BY <1>3, <3>1, <3>2, <4>1 DEF SoundScript
    <3>3. CASE th[y].task \notin Tasks
      <4>1. th[y].todo = <<>> /\ th[y].pc \notin OnTask
        BY <1>1, <3>3 DEF ThreadOK
      <4>2. CommandsOf(th[y].todo) = {} /\ th[y].pc \notin {"settling", "releasing"}
        BY <4>1, NothingToDo DEF OnTask, WorkerLabels
      <4> QED BY <3>1, <4>2 DEF SoundScript
    <3> QED BY <3>2, <3>3
  <2> QED BY <2>1, <2>2
<1>6. ASSUME NEW t \in Tasks \ SyncTasks, status'[t] \in Pending, status[t] = "none"
      PROVE  x \in Clients /\ Waits(th'[x]) /\ th'[x].task = t
  BY <1>6 DEF RowMoves, Pending
<1>7. QueuedOrWaiting'
  <2> SUFFICES ASSUME NEW t \in Tasks \ SyncTasks, status'[t] \in Pending
               PROVE  t \in member'["queued"] \/ \E c \in Clients : th'[c].task = t /\ Waits(th'[c])
    BY DEF QueuedOrWaiting, Waits
  <2>1. CASE status[t] = "none"
    BY <1>6, <2>1
  <2>2. CASE status[t] # "none"
    <3>1. status[t] \in Pending
      BY <1>3, <2>2
    <3>2. CASE t \in member["queued"]
      BY <3>2
    <3>3. CASE \E c \in Clients : th[c].task = t /\ Waits(th[c])
      <4>1. PICK c \in Clients : th[c].task = t /\ Waits(th[c])
        BY <3>3
      <4>2. CASE c = x
        BY <4>1, <4>2
      <4>3. CASE c # x
        BY <1>1, <4>1, <4>3
      <4> QED BY <4>2, <4>3
    <3> QED BY <1>2, <3>1, <3>2, <3>3 DEF QueuedOrWaiting
  <2> QED BY <2>1, <2>2
<1>8. InGoodHands'
  <2> SUFFICES ASSUME NEW t \in Tasks \ SyncTasks, status'[t] \in Pending
               PROVE  Carried(t)' \/ \E y \in Threads : th'[y].task = t /\ Keeping(th'[y])
    BY DEF InGoodHands, Keeping, Waits
  <2>1. CASE status[t] = "none"
    BY <1>6, <2>1 DEF Keeping
  <2>2. CASE status[t] # "none"
    <3>1. status[t] \in Pending
      BY <1>3, <2>2
    <3>2. CASE Carried(t)
      BY <3>2
    <3>3. CASE \E y \in Threads : th[y].task = t /\ Keeping(th[y])
      <4>1. PICK y \in Threads : th[y].task = t /\ Keeping(th[y])
        BY <3>3
      <4>2. CASE y = x
        <5>1. \/ Carried(t)'
              \/ Keeping(th'[x]) /\ th'[x].task = t
              \/ \E z \in Threads \ {x} : Keeping(th[z]) /\ th[z].task = t
          BY <4>1, <4>2
        <5> QED BY <1>1, <5>1
      <4>3. CASE y # x
        BY <1>1, <4>1, <4>3
      <4> QED BY <4>2, <4>3
    <3> QED BY <1>2, <3>1, <3>2, <3>3 DEF InGoodHands
  <2> QED BY <2>1, <2>2
<1> QED BY <1>4, <1>5, <1>7, <1>8 DEF ForgetInv

\* What a thread is after it has got a script, and after it has moved on.
LEMMA ThenAfter ==
  ASSUME Typed, NEW x \in Threads, NEW label, NEW s, Then(x, label, s)
  PROVE  /\ th'[x].pc = label /\ th'[x].todo = s /\ th'[x].task = th[x].task
         /\ th'[x].locked <=> th[x].locked
<1>1. th[x] \in Thread /\ th'[x] = [th[x] EXCEPT !.pc = label, !.todo = s]
  BY BecomingAlone DEF Typed, TypeOK, Then
<1> QED BY <1>1 DEF Thread

\* Going on changes the label only.
LEMMA GotoAfter ==
  ASSUME Typed, NEW x \in Threads, NEW label, Goto(x, label)
  PROVE  /\ th'[x].pc = label /\ th'[x].todo = th[x].todo /\ th'[x].task = th[x].task
         /\ th'[x].locked <=> th[x].locked
<1>1. th[x] \in Thread /\ th'[x] = [th[x] EXCEPT !.pc = label]
  BY BecomingAlone DEF Typed, TypeOK, Goto
<1> QED BY <1>1 DEF Thread

\* What a thread is that begins anew.
LEMMA AtAfter ==
  ASSUME Typed, NEW x \in Threads, NEW label, NEW u, NEW s,
         \/ Become(x, At(label)) /\ s = <<>> /\ u = NoTask
         \/ Become(x, [At(label) EXCEPT !.task = u]) /\ s = <<>>
         \/ Become(x, [At(label) EXCEPT !.task = u, !.fresh = TRUE]) /\ s = <<>>
         \/ Become(x, [At(label) EXCEPT !.task = u, !.todo = s])
  PROVE  th'[x].pc = label /\ th'[x].todo = s /\ th'[x].task = u
<1>1. \/ th'[x] = At(label) /\ s = <<>> /\ u = NoTask
      \/ th'[x] = [At(label) EXCEPT !.task = u] /\ s = <<>>
      \/ th'[x] = [At(label) EXCEPT !.task = u, !.fresh = TRUE] /\ s = <<>>
      \/ th'[x] = [At(label) EXCEPT !.task = u, !.todo = s]
  BY BecomingAlone DEF Typed, TypeOK
<1>2. /\ At(label).pc = label /\ At(label).todo = <<>> /\ At(label).task = NoTask
      /\ [At(label) EXCEPT !.task = u].pc = label /\ [At(label) EXCEPT !.task = u].todo = <<>>
      /\ [At(label) EXCEPT !.task = u].task = u
      /\ [At(label) EXCEPT !.task = u, !.fresh = TRUE].pc = label
      /\ [At(label) EXCEPT !.task = u, !.fresh = TRUE].todo = <<>>
      /\ [At(label) EXCEPT !.task = u, !.fresh = TRUE].task = u
      /\ [At(label) EXCEPT !.task = u, !.todo = s].pc = label
      /\ [At(label) EXCEPT !.task = u, !.todo = s].todo = s
      /\ [At(label) EXCEPT !.task = u, !.todo = s].task = u
  BY DEF At
<1> QED BY <1>1, <1>2

\* The scripts that a pending task may meet.
LEMMA HarmlessScripts ==
  /\ Add("delayed") \in CommandsOf(ScheduleRetry) /\ Push \in CommandsOf(ListAgain)
  /\ \A s \in {<<>>, ClearActive \o <<Unlock>>, <<Remove("waitingSet")>>, ScheduleRetry, HoldTask, ListAgain,
               MoveToDead, <<Forget>> \o ReleaseQueueMembership, ClearActive \o ReleaseQueueMembership} :
       Enlist \notin CommandsOf(s) /\ Add("queued") \notin CommandsOf(s)
  /\ \A s \in {<<>>, ClearActive \o <<Unlock>>, <<Remove("waitingSet")>>, ScheduleRetry, HoldTask, ListAgain} :
       Remove("queued") \notin CommandsOf(s) /\ Remove("delayed") \notin CommandsOf(s)
<1>1. \A a, b : /\ Add(a) # Remove(b) /\ (Add(a) = Add(b) => a = b) /\ (Remove(a) = Remove(b) => a = b)
                /\ Add(a) \notin {Enlist, Push, Unlock, Forget, Bury}
                /\ Remove(a) \notin {Enlist, Push, Unlock, Forget, Bury}
  BY DEF Add, Remove, Enlist, Push, Unlock, Forget, Bury
<1>2. Enlist \notin {Push, Unlock, Forget, Bury}
  BY DEF Enlist, Push, Unlock, Forget, Bury
<1>3. Add("delayed") \in CommandsOf(ScheduleRetry) /\ Push \in CommandsOf(ListAgain)
  BY Procedures
<1> DEFINE Apart(s) == Enlist \notin CommandsOf(s) /\ Add("queued") \notin CommandsOf(s)
           Harmless(s) == /\ Apart(s)
                          /\ Remove("queued") \notin CommandsOf(s) /\ Remove("delayed") \notin CommandsOf(s)
<1>4. Harmless(<<>>) /\ Harmless(<<Remove("waitingSet")>>) /\ Harmless(ClearActive \o <<Unlock>>)
  <2>1. CommandsOf(ClearActive \o <<Unlock>>) = {Remove("active"), Remove("started"), Unlock}
    BY JoinedProcedures
  <2>2. CommandsOf(<<Remove("waitingSet")>>) = {Remove("waitingSet")} /\ CommandsOf(<<>>) = {}
    BY Procedures, NothingToDo
  <2> QED BY <1>1, <1>2, <2>1, <2>2
<1>5. Harmless(ScheduleRetry) /\ Harmless(HoldTask) /\ Harmless(ListAgain)
  <2>1. /\ CommandsOf(ScheduleRetry) = {Add("delayedSet"), Add("delayed")}
        /\ CommandsOf(HoldTask) = {Remove("delayedSet"), Add("active"), Add("started"), Remove("waitingSet")}
        /\ CommandsOf(ListAgain) = {Remove("delayedSet"), Add("waitingSet"), Push}
    BY Procedures
  <2> QED BY <1>1, <1>2, <2>1
<1>6. /\ Apart(MoveToDead) /\ Apart(<<Forget>> \o ReleaseQueueMembership)
      /\ Apart(ClearActive \o ReleaseQueueMembership)
  <2>1. /\ CommandsOf(MoveToDead) =
             {Forget, Remove("delayed"), Remove("queued"), Remove("waitingSet"), Remove("delayedSet"), Bury}
        /\ CommandsOf(<<Forget>> \o ReleaseQueueMembership) =
             {Forget, Remove("queued"), Remove("delayed"), Remove("waitingSet"), Remove("delayedSet")}
        /\ CommandsOf(ClearActive \o ReleaseQueueMembership) =
             {Remove("active"), Remove("started"), Remove("queued"), Remove("delayed"),
              Remove("waitingSet"), Remove("delayedSet")}
    BY JoinedProcedures
  <2> QED BY <1>1, <1>2, <2>1
<1> QED BY <1>3, <1>4, <1>5, <1>6, Zenon

\* A step of a worker that leaves the list and the sets alone.
LEMMA ForgetNothing ==
  ASSUME Typed, Typed', ForgetInv, KnownTasks, NEW w \in Workers, OthersStay(w),
         UNCHANGED <<member, due, stale, waiting>>, \A t \in Tasks : RowMoves(t),
         SoundScript(th[w])',
         \A t \in Tasks \ SyncTasks : Keeping(th[w]) /\ th[w].task = t /\ status'[t] \in Pending =>
           \/ Keeping(th'[w]) /\ th'[w].task = t
           \/ t \in member["delayed"]
           \/ t \notin member["queued"]
           \/ \E y \in Threads \ {w} : Keeping(th[y]) /\ th[y].task = t
  PROVE  ForgetInv'
<1>1. w \in Threads /\ w \notin Clients /\ stale' = {} /\ Clients \subseteq Threads
  BY QueueAssumption DEF Threads, ForgetInv, OneRequestPerTask
<1>2. \A t \in Tasks : Carried(t) => Carried(t)'
  BY DEF Carried
<1>3. ASSUME NEW t \in Tasks \ SyncTasks, Keeping(th[w]), th[w].task = t, status'[t] \in Pending
      PROVE  \/ Carried(t)'
             \/ Keeping(th'[w]) /\ th'[w].task = t
             \/ \E y \in Threads \ {w} : Keeping(th[y]) /\ th[y].task = t
  <2>1. status[t] \in Pending
    <3>1. status[t] # "none"
      BY <1>1, <1>3, QueueAssumption DEF KnownTasks
    <3> QED BY <1>3, <3>1 DEF RowMoves, Pending, Terminal
  <2>2. CASE t \notin member["queued"]
    <3>1. PICK c \in Clients : th[c].task = t /\ Waits(th[c])
      BY <2>1, <2>2 DEF ForgetInv, QueuedOrWaiting
    <3> QED BY <1>1, <3>1 DEF Keeping
  <2>3. CASE t \in member["queued"] /\ t \in member["delayed"]
    BY <2>3 DEF Carried
  <2> QED BY <1>3, <2>2, <2>3
<1> QED BY <1>1, <1>2, <1>3, ForgetFrame

\* Only a request creates rows.
LEMMA RowsMoveOnly ==
  ASSUME Typed, [Next]_vars, NEW x \in Threads \ Clients, OthersStay(x)
  PROVE  \A t \in Tasks : RowMoves(t)
<1>1. ASSUME NEW c \in Clients, NEW t \in Tasks, CreateTask(c, t)
      PROVE  FALSE
  <2>1. c \in Threads /\ c # x
    BY DEF Threads
  <2>2. th[c].pc = "idle" /\ th'[c].pc \in {"admitting", "generating"}
    BY <1>1, <2>1, AtAfter DEF CreateTask, Ready, Start
  <2> QED BY <2>1, <2>2 DEF OthersStay
<1> QED BY <1>1, RowsMove

\* A thread that is not through with a task has a sound script if it is harmless.
LEMMA SoundAfter ==
  ASSUME NEW x \in Threads, th'[x].pc \notin {"settling", "releasing", "recovering"},
         th'[x].todo \in {<<>>, <<Remove("waitingSet")>>, ScheduleRetry, HoldTask, ListAgain}
  PROVE  SoundScript(th[x])'
BY HarmlessScripts DEF SoundScript

\* A thread without commands and without a place on a task keeps none.
LEMMA KeepsNone ==
  ASSUME NEW x \in Threads, th[x].todo = <<>>,
         th[x].pc \in {"idle", "settling", "releasing", "gone", "up", "recovering"}
  PROVE  ~Keeping(th[x])
BY NothingToDo DEF Keeping, Waits

\* A worker that settles has a settled task or schedules the retry.
LEMMA ForgetSettling ==
  ASSUME Typed, Typed', ForgetInv, KnownTasks, NEW w \in Workers, OthersStay(w),
         UNCHANGED <<member, due, stale, waiting>>, \A t \in Tasks : RowMoves(t),
         th[w].pc \in {"held", "loaded", "working"},
         \/ Retried(w)
         \/ /\ Succeeded(w) \/ Skipped(w) \/ Failed(w)
            /\ th[w].task \in SyncTasks \/ status'[th[w].task] \in Terminal
  PROVE  ForgetInv'
<1>1. w \in Threads /\ th[w].locked
  BY DEF Threads, Typed, ThreadsOK, ThreadOK
<1>2. CASE Retried(w)
  <2>1. /\ th'[w].pc = "settling" /\ th'[w].todo = ScheduleRetry /\ th'[w].task = th[w].task
        /\ th'[w].locked <=> th[w].locked
    BY <1>1, <1>2, ThenAfter DEF Retried, Settle
  <2>2. SoundScript(th[w])'
    BY <1>1, <2>1, HarmlessScripts DEF SoundScript
  <2>3. Keeping(th'[w])
    BY <2>1, HarmlessScripts DEF Keeping
  <2> QED BY <2>1, <2>2, <2>3, ForgetNothing
<1>3. CASE /\ Succeeded(w) \/ Skipped(w) \/ Failed(w)
           /\ th[w].task \in SyncTasks \/ status'[th[w].task] \in Terminal
  <2>1. PICK s \in {MoveToDead, <<Forget>> \o ReleaseQueueMembership} : Then(w, "settling", s)
    BY <1>3 DEF Succeeded, Skipped, Failed, Settle
  <2>2. th'[w].pc = "settling" /\ th'[w].todo = s /\ th'[w].task = th[w].task
    BY <1>1, <2>1, ThenAfter
  <2>3. th[w].task \in SyncTasks \/ status'[th[w].task] \notin Pending
    BY <1>3 DEF Terminal, Pending
  <2>4. SoundScript(th[w])'
    BY <1>3, <2>1, <2>2, <2>3, HarmlessScripts DEF SoundScript
  <2> QED BY <2>3, <2>4, ForgetNothing
<1> QED BY <1>2, <1>3

\* From the lock to the next round no worker forgets its task.
LEMMA ForgetWork ==
  ASSUME QueueInv, QueueInv', DeadInv, ForgetInv, [Next]_vars, NEW w \in Workers, OthersStay(w),
         th[w].pc \notin Trouble,
         \/ BeginAttempt(w) \/ ClaimTask(w) \/ EndAttempt(w) \/ AttemptThrows(w)
         \/ Release(w) \/ NextRound(w)
  PROVE  ForgetInv'
<1>1. /\ Typed /\ Typed' /\ KnownTasks /\ ProcessedByWorkers /\ w \in Threads
      /\ ThreadOK(w, th[w]) /\ status \in [Tasks -> Statuses] /\ SoundScript(th[w])
  BY DEF QueueInv, DeadInv, Threads, Typed, TypeOK, ThreadsOK, ForgetInv
<1>2. \A t \in Tasks : RowMoves(t)
  BY <1>1, RowsMoveOnly, QueueAssumption
<1>3. UNCHANGED <<member, due, stale, waiting>>
  BY DEF BeginAttempt, ClaimTask, EndAttempt, AttemptThrows, Release, NextRound, redis
<1>4. CASE BeginAttempt(w)
  <2> DEFINE t == th[w].task
  <2>1. th[w].pc = "held" /\ th[w].todo = <<>> /\ t \in Tasks
    BY <1>1, <1>4 DEF BeginAttempt, Ready, ThreadOK, OnTask, WorkerLabels
  <2>2. CASE status[t] # "queued" /\ t \in SyncTasks
    <3>1. Skipped(w)
      BY <1>4, <2>2 DEF BeginAttempt
    <3> QED BY <1>1, <1>2, <1>3, <2>1, <2>2, <3>1, ForgetSettling
  <2>3. CASE status[t] # "queued" /\ t \notin SyncTasks
    <3>1. status[t] # "processing"
      <4>1. SUFFICES ASSUME status[t] = "processing" PROVE FALSE
        OBVIOUS
      <4>2. PICK v \in Workers : th[v].task = t /\ th[v].pc = "working"
        BY <1>1, <2>1, <2>3, <4>1 DEF ProcessedByWorkers
      <4>3. v = w
        BY <2>1, <4>2, SoleWorker
      <4> QED BY <2>1, <4>2, <4>3
    <3>2. status[t] # "none"
      BY <1>1, <2>1, QueueAssumption DEF KnownTasks
    <3>3. status[t] \in Terminal /\ status' = status /\ Skipped(w)
      BY <1>1, <1>4, <2>1, <2>3, <3>1, <3>2 DEF BeginAttempt, Statuses, Pending
    <3> QED BY <1>1, <1>2, <1>3, <2>1, <3>3, ForgetSettling
  <2>4. CASE status[t] = "queued"
    <3>1. PICK n : Become(w, [th[w] EXCEPT !.pc = "loaded", !.attempt = n])
      BY <1>4, <2>4 DEF BeginAttempt
    <3>2. th[w] \in Thread /\ th'[w] = [th[w] EXCEPT !.pc = "loaded", !.attempt = n]
      BY <1>1, <3>1, BecomingAlone DEF Typed, TypeOK
    <3>3. th'[w].pc = "loaded" /\ th'[w].todo = <<>> /\ th'[w].task = t
      BY <2>1, <3>2 DEF Thread
    <3>4. SoundScript(th[w])'
      BY <1>1, <3>3, SoundAfter
    <3> QED BY <1>1, <1>2, <1>3, <3>3, <3>4, ForgetNothing DEF Keeping
  <2> QED BY <2>2, <2>3, <2>4
<1>5. CASE ClaimTask(w) \/ EndAttempt(w) \/ AttemptThrows(w)
  <2>1. th[w].pc \in {"loaded", "working"} /\ th[w].todo = <<>>
    BY <1>5 DEF ClaimTask, EndAttempt, AttemptThrows, Ready
  <2>2. CASE Goto(w, "working")
    <3>1. th'[w].pc = "working" /\ th'[w].todo = <<>> /\ th'[w].task = th[w].task
      BY <1>1, <2>1, <2>2, GotoAfter
    <3>2. SoundScript(th[w])'
      BY <1>1, <3>1, SoundAfter
    <3> QED BY <1>1, <1>2, <1>3, <3>1, <3>2, ForgetNothing DEF Keeping
  <2>3. CASE ~Goto(w, "working")
    <3>1. \/ Retried(w)
          \/ /\ Succeeded(w) \/ Skipped(w) \/ Failed(w)
             /\ th[w].task \in SyncTasks \/ status'[th[w].task] \in Terminal
      <4>1. CASE th[w].task \notin SyncTasks
        BY <1>1, <1>5, <2>3, <4>1, FailedIsFailed DEF Terminal
      <4>2. Retried(w) \/ Succeeded(w) \/ Skipped(w) \/ Failed(w)
        BY <1>5, <2>3 DEF ClaimTask, EndAttempt, AttemptThrows, Outcome
      <4> QED BY <4>1, <4>2
    <3> QED BY <1>1, <1>2, <1>3, <2>1, <3>1, ForgetSettling
  <2> QED BY <2>2, <2>3
<1>6. CASE Release(w)
  <2>1. th[w].pc = "settling" /\ th[w].todo = <<>> /\ th[w].locked
    BY <1>1, <1>6 DEF Release, Ready, Trouble, ThreadOK
  <2>2. Then(w, "releasing", ClearActive \o <<Unlock>>)
    BY <1>6, <2>1 DEF Release
  <2>3. /\ th'[w].pc = "releasing" /\ th'[w].todo = ClearActive \o <<Unlock>> /\ th'[w].task = th[w].task
        /\ th'[w].locked <=> th[w].locked
    BY <1>1, <2>2, ThenAfter
  <2>4. status' = status
    BY <1>6 DEF Release
  <2>5. th[w].task \notin SyncTasks /\ status[th[w].task] \in Pending => th[w].task \in member["delayed"] \ due
    BY <1>1, <2>1, NothingToDo DEF SoundScript
  <2>6. SoundScript(th[w])'
    BY <1>3, <2>1, <2>3, <2>4, <2>5, HarmlessScripts DEF SoundScript
  <2> QED BY <1>1, <1>2, <1>3, <2>1, <2>6, KeepsNone, ForgetNothing
<1>7. CASE NextRound(w)
  <2>1. th[w].pc = "releasing" /\ th[w].todo = <<>>
    BY <1>7 DEF NextRound, Ready
  <2>2. PICK label \in {"gone", "idle"} : Become(w, At(label))
    BY <1>7 DEF NextRound
  <2>3. th'[w].pc = label /\ th'[w].todo = <<>>
    BY <1>1, <2>2, AtAfter
  <2>4. SoundScript(th[w])'
    BY <1>1, <2>3, SoundAfter
  <2> QED BY <1>1, <1>2, <1>3, <2>1, <2>4, KeepsNone, ForgetNothing
<1> QED BY <1>4, <1>5, <1>6, <1>7

\* Before it holds the lock no worker forgets a task either: what it drops is
\* delayed, or with the worker that has the lock, or with its request.
LEMMA ForgetQueue ==
  ASSUME QueueInv, QueueInv', HeldByWorkers, DeadInv, ForgetInv, [Next]_vars,
         NEW w \in Workers, OthersStay(w),
         \/ \E t \in Tasks : ReleaseDueDelayed(w, t) \/ RecoverStalledActive(w, t)
         \/ RequeueStalled(w) \/ Pop(w) \/ CheckPopped(w) \/ TryLock(w) \/ Postpone(w)
  PROVE  ForgetInv'
<1>1. /\ Typed /\ Typed' /\ KnownTasks /\ w \in Threads /\ w \notin Clients
      /\ th \in [Threads -> Thread] /\ th[w] \in Thread
      /\ \A v \in Workers : v \in Threads /\ ThreadOK(v, th[v]) /\ SoundScript(th[v])
      /\ member \in [Sets -> SUBSET Tasks] /\ {"queued", "delayed", "active"} \subseteq Sets
      /\ waiting \in Seq(Tasks) /\ stale = {}
  BY QueueAssumption
     DEF QueueInv, DeadInv, Threads, Typed, TypeOK, ThreadsOK, ForgetInv, OneRequestPerTask, Sets
<1>2. \A t \in Tasks : RowMoves(t)
  BY <1>1, RowsMoveOnly
<1>3. ASSUME NEW t \in Tasks, ReleaseDueDelayed(w, t)
      PROVE  ForgetInv'
  <2>1. /\ th[w].pc = "idle" /\ th[w].todo = <<>> /\ status' = status
        /\ member' = [member EXCEPT !["delayed"] = @ \ {t}] /\ due' = due \ {t} /\ waiting' = waiting
        /\ stale' = {}
    BY <1>1, <1>3 DEF ReleaseDueDelayed, Ready
  <2>2. /\ member'["queued"] = member["queued"] /\ member'["delayed"] = member["delayed"] \ {t}
    BY <1>1, <2>1
  <2>3. /\ th'[w].pc = "idle" /\ th'[w].todo \in {<<>>, ListAgain}
        /\ t \in member["queued"] => th'[w].task = t /\ th'[w].todo = ListAgain
    <3>1. CASE t \in member["queued"]
      <4>1. Become(w, [At("idle") EXCEPT !.task = t, !.todo = ListAgain])
        BY <1>3, <3>1 DEF ReleaseDueDelayed
      <4>2. Typed /\ w \in Threads
        BY <1>1
      <4>3. th'[w].pc = "idle" /\ th'[w].todo = ListAgain /\ th'[w].task = t
        BY <4>1, <4>2, AtAfter
      <4> QED BY <4>3
    <3>2. CASE t \notin member["queued"]
      BY <1>3, <2>1, <3>2 DEF ReleaseDueDelayed
    <3> QED BY <3>1, <3>2
  <2>4. SoundScript(th[w])'
    BY <1>1, <2>3, SoundAfter
  <2>5. ~Keeping(th[w])
    BY <1>1, <2>1, KeepsNone
  <2>6. ASSUME NEW u \in Tasks
        PROVE  /\ u \in member["delayed"] \ due => u \in member'["delayed"] \ due'
               /\ Carried(u) => Carried(u)' \/ (th'[w].task = u /\ Keeping(th'[w]))
    <3>1. t \in due
      BY <1>3 DEF ReleaseDueDelayed
    <3>2. u \in member["delayed"] \ due => u \in member'["delayed"] \ due'
      BY <2>1, <2>2, <3>1
    <3>3. CASE u = t
      <4>1. Push \in CommandsOf(ListAgain)
        BY HarmlessScripts
      <4>2. ASSUME Carried(u)
            PROVE  th'[w].task = u /\ Keeping(th'[w])
        <5>1. th'[w].task = t /\ th'[w].todo = ListAgain
          BY <2>3, <3>3, <4>2 DEF Carried
        <5> QED BY <3>3, <4>1, <5>1 DEF Keeping
      <4> QED BY <3>2, <4>2
    <3>4. CASE u # t
      BY <2>1, <2>2, <3>4 DEF Carried
    <3> QED BY <3>2, <3>3, <3>4
  <2> QED BY <1>1, <1>2, <2>1, <2>2, <2>4, <2>5, <2>6, ForgetFrame
<1>4. ASSUME NEW t \in Tasks, RecoverStalledActive(w, t)
      PROVE  ForgetInv'
  <2>1. /\ th[w].pc = "idle" /\ th[w].todo = <<>> /\ UNCHANGED <<member, due, stale, waiting>> /\ status' = status
        /\ status[t] \in Terminal
        /\ Become(w, [At("idle") EXCEPT !.task = t, !.todo = ClearActive \o ReleaseQueueMembership])
    BY <1>1, <1>4 DEF RecoverStalledActive, Ready, redis
  <2>2. /\ th'[w].pc = "idle" /\ th'[w].todo = ClearActive \o ReleaseQueueMembership /\ th'[w].task = t
    BY <1>1, <2>1, AtAfter
  <2>3. SoundScript(th[w])'
    BY <2>1, <2>2, HarmlessScripts DEF SoundScript
  <2> QED BY <1>1, <1>2, <2>1, <2>3, KeepsNone, ForgetNothing
<1>5. CASE RequeueStalled(w)
  BY <1>1, <1>5 DEF RequeueStalled, Ready, SoundScript
<1>6. CASE Pop(w)
  <2> DEFINE u == waiting[Len(waiting)]
  <2>1. /\ th[w].pc = "idle" /\ th[w].todo = <<>> /\ UNCHANGED <<status, member, due>> /\ stale' = {}
        /\ waiting # <<>> /\ waiting' = SubSeq(waiting, 1, Len(waiting) - 1)
        /\ Become(w, [At("popped") EXCEPT !.task = u])
    BY <1>1, <1>6 DEF Pop, Ready, Start
  <2>2. th'[w].pc = "popped" /\ th'[w].todo = <<>> /\ th'[w].task = u
    BY <1>1, <2>1, AtAfter
  <2>3. SoundScript(th[w])' /\ Keeping(th'[w])
    BY <1>1, <2>2, SoundAfter DEF Keeping
  <2>4. ASSUME NEW t \in Tasks, Carried(t)
        PROVE  Carried(t)' \/ t = u
    <3>1. CASE t \in member["delayed"]
      BY <2>1, <2>4, <3>1 DEF Carried
    <3>2. CASE t \notin member["delayed"] /\ t # u
      <4>1. PICK n \in 1..Len(waiting) : waiting[n] = t
        BY <2>4, <3>2 DEF Carried
      <4>2. n # Len(waiting) /\ Len(waiting) \in Nat
        BY <1>1, <3>2, <4>1
      <4>3. n \in 1..(Len(waiting) - 1)
        BY <4>2
      <4>4. Len(waiting') = Len(waiting) - 1 /\ waiting'[n] = waiting[n]
        <5>1. Len(waiting) >= 1
          BY <4>3
        <5> QED BY <1>1, <2>1, <4>3, <5>1, SMT
      <4> QED BY <2>1, <2>4, <4>1, <4>3, <4>4 DEF Carried
    <3> QED BY <3>1, <3>2
  <2> HIDE DEF u
  <2> QED BY <1>1, <1>2, <2>1, <2>2, <2>3, <2>4, KeepsNone, ForgetFrame
<1>7. CASE CheckPopped(w)
  <2> DEFINE t == th[w].task
  <2>1. th[w].pc = "popped" /\ th[w].todo = <<>> /\ UNCHANGED <<member, due, stale, waiting>>
    BY <1>7 DEF CheckPopped, Ready, redis
  <2>2. CASE t \notin member["queued"] \/ IsDelayed(t)
    <3>1. th'[w].pc = "idle" /\ th'[w].todo = <<Remove("waitingSet")>>
      BY <1>1, <1>7, <2>2, ThenAfter DEF CheckPopped
    <3>2. SoundScript(th[w])'
      BY <1>1, <3>1, SoundAfter
    <3> QED BY <1>1, <1>2, <2>1, <2>2, <3>2, ForgetNothing DEF IsDelayed
  <2>3. CASE ~(t \notin member["queued"] \/ IsDelayed(t))
    <3>1. th'[w].pc = "locking" /\ th'[w].todo = <<>> /\ th'[w].task = t
      BY <1>1, <1>7, <2>1, <2>3, GotoAfter DEF CheckPopped
    <3>2. SoundScript(th[w])' /\ Keeping(th'[w])
      BY <1>1, <3>1, SoundAfter DEF Keeping
    <3> QED BY <1>1, <1>2, <2>1, <3>1, <3>2, ForgetNothing
  <2> QED BY <2>2, <2>3
<1>8. CASE TryLock(w)
  <2> DEFINE t == th[w].task
  <2>1. UNCHANGED <<member, due, stale, waiting>>
    BY <1>8 DEF TryLock
  <2>2. CASE Become(w, [th[w] EXCEPT !.pc = "held", !.todo = HoldTask, !.locked = TRUE])
    <3>1. th'[w] = [th[w] EXCEPT !.pc = "held", !.todo = HoldTask, !.locked = TRUE]
      BY <1>1, <2>2, BecomingAlone
    <3>2. th'[w].pc = "held" /\ th'[w].todo = HoldTask /\ th'[w].task = t
      BY <1>1, <3>1 DEF Thread
    <3>3. SoundScript(th[w])' /\ Keeping(th'[w])
      BY <1>1, <3>2, SoundAfter DEF Keeping
    <3> QED BY <1>1, <1>2, <2>1, <3>2, <3>3, ForgetNothing
  <2>3. CASE Then(w, "postponing", <<Remove("waitingSet")>>)
    <3>1. th'[w].pc = "postponing" /\ th'[w].todo = <<Remove("waitingSet")>> /\ th'[w].task = t
      BY <1>1, <2>3, ThenAfter
    <3>2. SoundScript(th[w])' /\ Keeping(th'[w])
      BY <1>1, <3>1, SoundAfter DEF Keeping
    <3> QED BY <1>1, <1>2, <2>1, <3>1, <3>2, ForgetNothing
  <2> QED BY <1>8, <2>2, <2>3 DEF TryLock
<1>9. CASE Postpone(w)
  <2> DEFINE t == th[w].task
  <2>1. th[w].pc = "postponing" /\ th[w].todo = <<>> /\ UNCHANGED <<status, member, due, stale, waiting>>
    BY <1>9 DEF Postpone, Ready, redis
  <2>2. CASE t \in member["active"]
    <3>1. th'[w].pc = "idle" /\ th'[w].todo = <<>>
      BY <1>1, <1>9, <2>2, AtAfter DEF Postpone
    <3>2. SoundScript(th[w])'
      BY <1>1, <3>1, SoundAfter
    <3>3. PICK v \in Workers : Shows(th[v], t, "active")
      BY <2>2 DEF HeldByWorkers, Beaten
    <3>4. v # w /\ th[v].task = t /\ th[v].pc \in {"held", "loaded", "working", "settling", "releasing"}
      <4>1. th[v].locked /\ th[v].task = t /\ th[v].pc \in AfterLock /\ ~th[w].locked
        BY <1>1, <2>1, <3>3 DEF Shows, ThreadOK, AfterLock
      <4> QED BY <4>1 DEF HeldByWorkers, AfterLock
    <3>5. ASSUME t \notin SyncTasks, status[t] \in Pending
          PROVE  Keeping(th[v]) \/ t \in member["delayed"]
      BY <1>1, <3>4, <3>5 DEF SoundScript, Keeping
    <3>6. ASSUME NEW u \in Tasks \ SyncTasks, th[w].task = u, status'[u] \in Pending
          PROVE  u \in member["delayed"] \/ \E y \in Threads \ {w} : Keeping(th[y]) /\ th[y].task = u
      BY <1>1, <2>1, <3>4, <3>5, <3>6
    <3> QED BY <1>1, <1>2, <2>1, <3>2, <3>6, ForgetNothing
  <2>3. CASE t \notin member["active"]
    <3>1. th'[w].pc = "idle" /\ th'[w].todo = ScheduleRetry /\ th'[w].task = t
      BY <1>1, <1>9, <2>3, ThenAfter DEF Postpone
    <3>2. SoundScript(th[w])' /\ Keeping(th'[w])
      BY <1>1, <3>1, SoundAfter, HarmlessScripts DEF Keeping
    <3> QED BY <1>1, <1>2, <2>1, <3>1, <3>2, ForgetNothing
  <2> QED BY <2>2, <2>3
<1> QED BY <1>3, <1>4, <1>5, <1>6, <1>7, <1>8, <1>9

\* A list with one more entry on its left.
LEMMA Pushing ==
  ASSUME NEW s \in Seq(Tasks), NEW t \in Tasks
  PROVE  /\ \E n \in 1..Len(<<t>> \o s) : (<<t>> \o s)[n] = t
         /\ \A n \in 1..Len(s) : \E m \in 1..Len(<<t>> \o s) : (<<t>> \o s)[m] = s[n]
<1> DEFINE q == <<t>> \o s
<1>1. /\ Len(q) = 1 + Len(s) /\ Len(s) \in Nat /\ q[1] = t
      /\ \A n \in 1..Len(s) : q[n + 1] = s[n]
  BY SMT
<1>2. 1 \in 1..Len(q) /\ \A n \in 1..Len(s) : n + 1 \in 1..Len(q)
  BY <1>1
<1> QED BY <1>1, <1>2

\* What a command of a sound script does to the sets and to the list.
LEMMA SoundCommand ==
  ASSUME Typed, NEW x \in Threads, SoundScript(th[x]), th[x].pc \notin {"listing", "booting"}, Execute(x)
  PROVE  LET t == th[x].task
             command == Head(th[x].todo) IN
         /\ CommandsOf(th[x].todo) = {command} \cup CommandsOf(th'[x].todo)
         /\ member'["queued"] \subseteq member["queued"]
         /\ \A u \in Tasks \ SyncTasks : status[u] \in Pending =>
              /\ u \in member["queued"] => u \in member'["queued"]
              /\ u \in member["delayed"] => u \in member'["delayed"]
         /\ due' \subseteq due
         /\ command = Add("delayed") => t \in member'["delayed"] \ due'
         /\ \A u \in Tasks : (\E n \in 1..Len(waiting) : waiting[n] = u) =>
              \E n \in 1..Len(waiting') : waiting'[n] = u
         /\ command = Push => \E n \in 1..Len(waiting') : waiting'[n] = t
<1> DEFINE t == th[x].task
           command == Head(th[x].todo)
           todo == IF command[1] = "seek" /\ t \in member[command[2]] THEN <<>>
                   ELSE IF command[1] = "enlist" /\ t \in member["waitingSet"]
                   THEN Tail(Tail(th[x].todo)) ELSE Tail(th[x].todo)
           r == IF todo = <<>> /\ th[x].pc = "idle" THEN At("idle") ELSE [th[x] EXCEPT !.todo = todo]
<1>1. /\ th[x] \in Thread /\ th[x].todo \in Scripts /\ th[x].todo # <<>> /\ t \in Tasks
      /\ command \in Commands /\ command \in CommandsOf(th[x].todo)
      /\ member \in [Sets -> SUBSET Tasks] /\ {"queued", "delayed"} \subseteq Sets
      /\ waiting \in Seq(Tasks)
  BY Executed DEF Typed, TypeOK, ThreadsOK, ThreadOK, Sets
<1>2. Become(x, r)
  BY DEF Execute
<1>3. /\ member' = IF command[1] \in {"add", "enlist"} THEN [member EXCEPT ![command[2]] = @ \cup {t}]
                   ELSE IF command[1] = "remove" THEN [member EXCEPT ![command[2]] = @ \ {t}]
                   ELSE member
      /\ due' = IF command[2] = "delayed" THEN due \ {t} ELSE due
      /\ waiting' = IF command[1] = "push" THEN <<t>> \o waiting ELSE waiting
  BY DEF Execute
<1>4. CommandsOf(th[x].todo) = {command} \cup CommandsOf(Tail(th[x].todo))
  BY <1>1, TailOfScript
<1>5. command # Enlist /\ command # Add("queued")
  BY <1>1 DEF SoundScript
<1>0. command \notin Seeks
  BY <1>1 DEF Typed, ThreadsOK, ThreadOK
<1>6. command \in {Remove("queued"), Remove("delayed")} => t \in SyncTasks \/ status[t] \notin Pending
  BY <1>1 DEF SoundScript, Terminal, Pending
<1>7. command = Add("delayed") => command[1] = "add" /\ command[2] = "delayed"
  BY DEF Add
<1>8. command = Push => command[1] = "push"
  BY DEF Push
<1> HIDE DEF command
<1>9. CommandsOf(th[x].todo) = {command} \cup CommandsOf(th'[x].todo)
  <2>1. command[1] \notin {"enlist", "seek"}
    BY <1>0, <1>1, <1>5 DEF Commands, Seeks, Add, Remove, Seek, Enlist, Push, Unlock, Forget, Bury
  <2>2. th'[x] = r /\ todo = Tail(th[x].todo)
    BY <1>1, <1>2, <2>1, BecomingAlone DEF Typed, TypeOK
  <2>3. r.todo = todo
    BY <1>1 DEF At, Thread
  <2> QED BY <1>4, <2>2, <2>3
<1>10. /\ member'["queued"] \subseteq member["queued"]
       /\ \A u \in Tasks \ SyncTasks : status[u] \in Pending =>
            /\ u \in member["queued"] => u \in member'["queued"]
            /\ u \in member["delayed"] => u \in member'["delayed"]
  <2>1. CASE \E s \in Sets : command = Add(s)
    <3>1. PICK s \in Sets : command = Add(s)
      BY <2>1
    <3>2. command[1] = "add" /\ command[2] = s /\ s # "queued"
      BY <1>5, <3>1 DEF Add
    <3>3. member' = [member EXCEPT ![s] = @ \cup {t}]
      BY <1>3, <3>2
    <3> QED BY <1>1, <3>2, <3>3
  <2>2. CASE \E s \in Sets : command = Remove(s)
    <3>1. PICK s \in Sets : command = Remove(s)
      BY <2>2
    <3>2. command[1] = "remove" /\ command[2] = s
      BY <3>1 DEF Remove
    <3>3. member' = [member EXCEPT ![s] = @ \ {t}]
      BY <1>3, <3>2
    <3>4. s \in {"queued", "delayed"} => t \in SyncTasks \/ status[t] \notin Pending
      BY <1>6, <3>1
    <3> QED BY <1>1, <3>3, <3>4
  <2>3. CASE command \in {Push, Unlock, Forget, Bury}
    <3>1. command[1] \notin {"add", "enlist", "remove"}
      BY <2>3 DEF Push, Unlock, Forget, Bury
    <3> QED BY <1>3, <3>1
  <2> QED BY <1>0, <1>1, <1>5, <2>1, <2>2, <2>3 DEF Commands, Seeks
<1>11. due' \subseteq due
  BY <1>3
<1>12. command = Add("delayed") => t \in member'["delayed"] \ due'
  <2>1. SUFFICES ASSUME command = Add("delayed") PROVE t \in member'["delayed"] \ due'
    OBVIOUS
  <2>2. member' = [member EXCEPT !["delayed"] = @ \cup {t}] /\ due' = due \ {t}
    BY <1>3, <1>7, <2>1
  <2> QED BY <1>1, <2>2
<1>13. waiting' = waiting \/ waiting' = <<t>> \o waiting
  BY <1>3
<1>14. command = Push => waiting' = <<t>> \o waiting
  BY <1>3, <1>8
<1> HIDE DEF t
<1> DEFINE longer == <<t>> \o waiting
<1>15. /\ \E n \in 1..Len(longer) : longer[n] = t
       /\ \A n \in 1..Len(waiting) : \E m \in 1..Len(longer) : longer[m] = waiting[n]
  BY <1>1, Pushing
<1>16. waiting' = waiting \/ waiting' = longer
  BY <1>13
<1>17. command = Push => waiting' = longer
  BY <1>14
<1> HIDE DEF longer
<1>18. \A u \in Tasks : (\E n \in 1..Len(waiting) : waiting[n] = u) =>
         \E n \in 1..Len(waiting') : waiting'[n] = u
  BY <1>15, <1>16
<1>19. command = Push => \E n \in 1..Len(waiting') : waiting'[n] = t
  BY <1>15, <1>17
<1> QED BY <1>9, <1>10, <1>11, <1>12, <1>18, <1>19 DEF command, t

\* A thread that runs its commands forgets no pending task.
LEMMA ForgetExecute ==
  ASSUME QueueInv, QueueInv', DeadInv, ForgetInv, NEW x \in Threads, OthersStay(x), Execute(x)
  PROVE  ForgetInv'
<1> DEFINE t == th[x].task
           command == Head(th[x].todo)
<1>1. /\ Typed /\ Typed' /\ KnownTasks /\ th[x] \in Thread /\ t \in Tasks
      /\ SoundScript(th[x]) /\ OneRequestPerTask /\ QueuedOrWaiting
      /\ status' = status /\ stale' = {} /\ Clients \subseteq Threads
  BY Executed DEF QueueInv, DeadInv, Typed, TypeOK, ForgetInv, OneRequestPerTask, Execute, Threads
<1>2. /\ CommandsOf(th[x].todo) = {command} \cup CommandsOf(th'[x].todo)
      /\ member'["queued"] \subseteq member["queued"]
      /\ \A u \in Tasks \ SyncTasks : status[u] \in Pending =>
           /\ u \in member["queued"] => u \in member'["queued"]
           /\ u \in member["delayed"] => u \in member'["delayed"]
      /\ due' \subseteq due
      /\ command = Add("delayed") => t \in member'["delayed"] \ due'
      /\ \A u \in Tasks : (\E n \in 1..Len(waiting) : waiting[n] = u) =>
           \E n \in 1..Len(waiting') : waiting'[n] = u
      /\ command = Push => \E n \in 1..Len(waiting') : waiting'[n] = t
  <2>1. th[x].pc \notin {"listing", "booting"}
    <3>1. x \in Workers => th[x].pc \in WorkerLabels
      BY <1>1 DEF Typed, ThreadsOK, ThreadOK
    <3>2. x \in Clients => th[x].pc \in ClientLabels /\ th[x].pc # "listing"
      BY <1>1 DEF Typed, ThreadsOK, ThreadOK, OneRequestPerTask
    <3>3. x \in Instances => th[x].pc = "up"
      BY DEF DeadInv, AllUp
    <3> QED BY <3>1, <3>2, <3>3 DEF Threads, WorkerLabels, ClientLabels
  <2> QED BY <1>1, <2>1, SoundCommand
<1>3. \/ th[x].pc = "idle" /\ th'[x].pc = "idle" /\ th'[x].todo = <<>>
      \/ /\ th'[x].pc = th[x].pc /\ th'[x].task = t
         /\ th'[x].locked <=> th[x].locked
  <2>1. CASE th[x].pc = "idle" /\ th'[x] = At("idle")
    BY <2>1 DEF At
  <2>2. CASE th'[x] = [th[x] EXCEPT !.todo = th'[x].todo]
    BY <1>1, <2>2 DEF Thread
  <2> QED BY <1>1, <2>1, <2>2, Executed
<1> HIDE DEF t, command
<1>4. th'[x].pc = th[x].pc /\ (th'[x].todo = <<>> \/ th'[x].task = t)
  BY <1>3
<1>5. CommandsOf(<<>>) = {}
  BY NothingToDo
<1>6. SoundScript(th[x])'
  <2>1. th[x].pc \in {"settling", "releasing"} => th'[x].task = t /\ (th'[x].locked <=> th[x].locked)
    BY <1>3
  <2> QED BY <1>1, <1>2, <1>4, <1>5, <2>1 DEF SoundScript, t
<1>7. ASSUME NEW u \in Tasks \ SyncTasks, status[u] \in Pending
      PROVE  /\ u \in member["queued"] => u \in member'["queued"]
             /\ u \in member["delayed"] \ due => u \in member'["delayed"] \ due'
             /\ Carried(u) => Carried(u)'
  BY <1>2, <1>7 DEF Carried
<1>8. Waits(th[x]) => th'[x].task = t
  BY <1>3 DEF Waits
<1>9. Waits(th'[x]) <=> Waits(th[x])
  BY <1>4 DEF Waits
<1>10. ASSUME NEW u \in Tasks \ SyncTasks, u = t, Keeping(th[x]), status[u] \in Pending
       PROVE  \/ Carried(u)'
              \/ Keeping(th'[x]) /\ th'[x].task = u
              \/ \E y \in Threads \ {x} : Keeping(th[y]) /\ th[y].task = u
  <2>1. CASE th[x].pc # "idle" /\ ~(Push \in CommandsOf(th[x].todo) \/ Add("delayed") \in CommandsOf(th[x].todo))
    BY <1>3, <1>10, <2>1 DEF Keeping, Waits
  <2>2. CASE Push \in CommandsOf(th'[x].todo) \/ Add("delayed") \in CommandsOf(th'[x].todo)
    BY <1>4, <1>5, <1>10, <2>2 DEF Keeping
  <2>3. CASE command \in {Push, Add("delayed")}
    <3>1. CASE u \in member["queued"]
      <4>1. u \in member'["queued"]
        BY <1>1, <1>2, <1>10, <3>1
      <4>2. u \in member'["delayed"] \/ \E n \in 1..Len(waiting') : waiting'[n] = u
        BY <1>2, <1>10, <2>3
      <4> QED BY <4>1, <4>2 DEF Carried
    <3>2. CASE u \notin member["queued"]
      <4>1. PICK c \in Clients : th[c].task = u /\ Waits(th[c])
        BY <1>1, <1>10, <3>2 DEF QueuedOrWaiting
      <4> QED BY <1>1, <1>8, <1>9, <1>10, <4>1 DEF Keeping
    <3> QED BY <3>1, <3>2
  <2>4. th[x].pc = "idle" => Push \in CommandsOf(th[x].todo) \/ Add("delayed") \in CommandsOf(th[x].todo)
    BY <1>10 DEF Keeping, Waits
  <2> QED BY <1>2, <2>1, <2>2, <2>3, <2>4
<1>11. ASSUME x \in Clients, Waits(th'[x])
       PROVE  /\ th'[x].task \notin member'["queued"]
              /\ \A d \in Clients \ {x} : Waits(th[d]) => th[d].task # th'[x].task
  <2>1. Waits(th[x]) /\ th'[x].task = th[x].task
    BY <1>8, <1>9, <1>11 DEF t
  <2> QED BY <1>1, <1>2, <1>11, <2>1 DEF OneRequestPerTask
<1>12. x \in Clients => th'[x].pc \notin {"checking", "listing"}
  BY <1>1, <1>4 DEF OneRequestPerTask
<1>13. \A u \in Tasks : RowMoves(u)
  BY <1>1 DEF RowMoves
<1> QED BY <1>1, <1>2, <1>6, <1>7, <1>8, <1>9, <1>10, <1>11, <1>12, <1>13, ForgetFrame DEF t

\* A request hands its task from its own thread to the list, or settles it.
LEMMA ForgetRequest ==
  ASSUME QueueInv, QueueInv', DeadInv, ForgetInv, ListCap = 0, NEW c \in Clients, OthersStay(c),
         ClientStep(c) \/ \E t \in Tasks : Arrive(c, t)
  PROVE  ForgetInv'
<1>1. /\ Typed /\ Typed' /\ KnownTasks /\ c \in Threads /\ Clients \subseteq Threads
      /\ ThreadOK(c, th[c]) /\ th[c] \in Thread /\ NoTask \notin Tasks
      /\ SoundScript(th[c]) /\ OneRequestPerTask /\ stale = {}
      /\ status \in [Tasks -> Statuses] /\ member \in [Sets -> SUBSET Tasks]
      /\ waiting \in Seq(Tasks) /\ {"queued", "waitingSet", "delayed"} \subseteq Sets
  BY QueueAssumption
     DEF QueueInv, DeadInv, Typed, TypeOK, ThreadsOK, ForgetInv, OneRequestPerTask, Threads, Sets
<1>2. ASSUME NEW t \in Tasks \ SyncTasks, CreateTask(c, t)
      PROVE  ForgetInv'
  <2>1. /\ th[c].pc = "idle" /\ th[c].todo = <<>> /\ status[t] = "none"
        /\ status' = [status EXCEPT ![t] = "queued"] /\ UNCHANGED <<member, due, stale, waiting>>
        /\ Become(c, [At("admitting") EXCEPT !.task = t, !.fresh = TRUE])
    BY <1>2 DEF CreateTask, Ready, redis
  <2>2. th'[c].pc = "admitting" /\ th'[c].todo = <<>> /\ th'[c].task = t
    BY <1>1, <2>1, AtAfter
  <2>3. SoundScript(th[c])' /\ ~Keeping(th[c])
    BY <1>1, <2>1, <2>2, SoundAfter, KeepsNone
  <2>4. Waits(th'[c]) /\ ~Waits(th[c])
    BY <2>1, <2>2 DEF Waits
  <2>5. t \notin member["queued"] /\ \A d \in Clients : th[d].task # t
    BY <1>1, <2>1 DEF OneRequestPerTask, KnownTasks
  <2>6. \A u \in Tasks : u # t => RowMoves(u)
    BY <1>1, <2>1 DEF RowMoves
  <2>7. \A u \in Tasks : Carried(u) => Carried(u)'
    BY <2>1 DEF Carried
  <2> QED BY <1>1, <2>1, <2>2, <2>3, <2>4, <2>5, <2>6, <2>7, ForgetFrame
<1>8. ASSUME NEW t \in SyncTasks, CreateTask(c, t)
      PROVE  ForgetInv'
  <2>1. /\ th[c].pc = "idle" /\ th[c].todo = <<>> /\ status[t] = "none" /\ t \in Tasks
        /\ status' = [status EXCEPT ![t] = "queued"] /\ UNCHANGED <<member, due, stale, waiting>>
        /\ Become(c, [At("generating") EXCEPT !.task = t])
    BY <1>8, QueueAssumption DEF CreateTask, Ready, Start, redis
  <2>2. th'[c].pc = "generating" /\ th'[c].todo = <<>>
    BY <1>1, <2>1, AtAfter
  <2>3. SoundScript(th[c])' /\ ~Keeping(th[c]) /\ ~Waits(th[c]) /\ ~Waits(th'[c])
    BY <1>1, <2>1, <2>2, SoundAfter, KeepsNone DEF Waits
  <2>4. \A u \in Tasks : u # t => RowMoves(u)
    BY <1>1, <2>1 DEF RowMoves
  <2>5. \A u \in Tasks : Carried(u) => Carried(u)'
    BY <2>1 DEF Carried
  <2> QED BY <1>1, <1>8, <2>1, <2>2, <2>3, <2>4, <2>5, ForgetFrame
<1>9. CASE ClaimInRequest(c) \/ EndInRequest(c)
  <2>1. /\ th[c].pc \in {"generating", "calling"} /\ th[c].todo = <<>>
        /\ UNCHANGED <<member, due, stale, waiting>> /\ th[c].task \in SyncTasks
    BY <1>1, <1>9 DEF ClaimInRequest, EndInRequest, Ready, ThreadOK, redis
  <2>2. Goto(c, "calling") \/ Become(c, At("idle"))
    BY <1>9 DEF ClaimInRequest, EndInRequest
  <2>3. th'[c].pc \in {"calling", "idle"} /\ th'[c].todo = <<>>
    <3>1. CASE Goto(c, "calling")
      BY <1>1, <2>1, <3>1, GotoAfter
    <3>2. CASE Become(c, At("idle"))
      BY <1>1, <3>2, AtAfter
    <3> QED BY <2>2, <3>1, <3>2
  <2>4. SoundScript(th[c])' /\ ~Keeping(th[c]) /\ ~Waits(th[c]) /\ ~Waits(th'[c])
    BY <1>1, <2>1, <2>3, SoundAfter, NothingToDo DEF Waits, Keeping
  <2>5. \A u \in Tasks : RowMoves(u)
    <3>1. \/ status' = status
          \/ FailTask(th[c].task)
          \/ status[th[c].task] \in Pending /\ \E new \in {"processing", "success"} :
               status' = [status EXCEPT ![th[c].task] = new]
      BY <1>9 DEF ClaimInRequest, EndInRequest, Pending
    <3>2. th[c].task \in Tasks
      BY <2>1, QueueAssumption
    <3>3. CASE FailTask(th[c].task)
      BY <1>1, <3>2, <3>3, FailTaskMoves
    <3> QED BY <1>1, <3>1, <3>2, <3>3 DEF RowMoves, Pending, Terminal
  <2>6. \A u \in Tasks : Carried(u) => Carried(u)'
    BY <2>1 DEF Carried
  <2> QED BY <1>1, <2>1, <2>3, <2>4, <2>5, <2>6, ForgetFrame
<1>3. ASSUME NEW t \in Tasks
      PROVE  ~RepeatRequest(c, t)
  <2>1. ~(Len(waiting) < 0)
    BY <1>1
  <2> QED BY <2>1 DEF RepeatRequest
<1>4. CASE Admit(c) \/ Overloaded(c)
  <2>1. th[c].pc = "admitting" /\ th[c].todo = <<>> /\ UNCHANGED <<status, member, due, stale, waiting>>
    BY <1>4 DEF Admit, Overloaded, Ready, redis
  <2>2. PICK label \in {"enqueueing", "refusing"} : Goto(c, label)
    BY <1>4 DEF Admit, Overloaded
  <2>3. th'[c].pc = label /\ th'[c].todo = <<>> /\ th'[c].task = th[c].task
    BY <1>1, <2>1, <2>2, GotoAfter
  <2>4. SoundScript(th[c])' /\ Waits(th[c]) /\ Waits(th'[c]) /\ Keeping(th'[c])
    BY <1>1, <2>1, <2>3, SoundAfter DEF Waits, Keeping
  <2>5. \A u \in Tasks : RowMoves(u) /\ (Carried(u) => Carried(u)')
    BY <2>1 DEF RowMoves, Carried
  <2>6. /\ th[c].task \notin member["queued"]
        /\ \A d \in Clients \ {c} : Waits(th[d]) => th[d].task # th[c].task
    BY <1>1, <2>4 DEF OneRequestPerTask
  <2>7. th'[c].pc \notin {"checking", "listing"}
    BY <2>2, <2>3
  <2> QED BY <1>1, <2>1, <2>3, <2>4, <2>5, <2>6, <2>7, ForgetFrame
<1>5. CASE Enqueue(c)
  <2> DEFINE t == th[c].task
             longer == <<t>> \o waiting
  <2>1. /\ th[c].pc = "enqueueing" /\ th[c].todo = <<>> /\ UNCHANGED <<status, due, stale>>
        /\ Script(t) /\ t \in Tasks
    BY <1>1, <1>5 DEF Enqueue, Ready, ThreadOK, OnTask, ClientLabels
  <2>2. Waits(th[c]) /\ t \notin member["queued"]
    BY <1>1, <2>1 DEF OneRequestPerTask, Waits
  <2>3. /\ member' = [member EXCEPT !["queued"] = @ \cup {t}, !["waitingSet"] = @ \cup {t}]
        /\ waiting' = longer
    BY <2>1, <2>2 DEF Script
  <2>4. /\ member'["queued"] = member["queued"] \cup {t} /\ member'["delayed"] = member["delayed"]
    BY <1>1, <2>3
  <2>5. Become(c, At("idle"))
    BY <1>5, <2>2 DEF Enqueue
  <2>6. th'[c].pc = "idle" /\ th'[c].todo = <<>>
    BY <1>1, <2>5, AtAfter
  <2>7. SoundScript(th[c])' /\ ~Waits(th'[c])
    BY <1>1, <2>6, SoundAfter DEF Waits
  <2>8. /\ \E n \in 1..Len(longer) : longer[n] = t
        /\ \A n \in 1..Len(waiting) : \E m \in 1..Len(longer) : longer[m] = waiting[n]
    BY <1>1, <2>1, Pushing
  <2>9. status[t] # "none"
    BY <1>1, <2>1 DEF KnownTasks
  <2> HIDE DEF longer
  <2>10. ASSUME NEW u \in Tasks
         PROVE  /\ Carried(u) => Carried(u)'
                /\ u = t => Carried(u)'
    <3>1. (\E n \in 1..Len(waiting) : waiting[n] = u) \/ u = t => \E n \in 1..Len(waiting') : waiting'[n] = u
      BY <2>3, <2>8
    <3> QED BY <2>4, <3>1 DEF Carried
  <2>11. \A u \in Tasks : RowMoves(u)
    BY <2>1 DEF RowMoves
  <2> QED BY <1>1, <2>1, <2>2, <2>4, <2>6, <2>7, <2>9, <2>10, <2>11, ForgetFrame
<1>6. CASE Refuse(c)
  <2> DEFINE t == th[c].task
  <2>1. /\ th[c].pc = "refusing" /\ th[c].todo = <<>> /\ UNCHANGED <<member, due, stale, waiting>>
        /\ FailTask(t) /\ t \in Tasks /\ Become(c, At("idle"))
    BY <1>1, <1>6 DEF Refuse, Ready, ThreadOK, OnTask, ClientLabels, redis
  <2>2. th'[c].pc = "idle" /\ th'[c].todo = <<>>
    BY <1>1, <2>1, AtAfter
  <2>3. SoundScript(th[c])' /\ ~Waits(th'[c])
    BY <1>1, <2>2, SoundAfter DEF Waits
  <2>4. status'[t] \notin Pending
    BY <1>1, <2>1 DEF FailTask, Pending
  <2>5. \A u \in Tasks : RowMoves(u)
    BY <1>1, <2>1, FailTaskMoves
  <2>6. \A u \in Tasks : Carried(u) => Carried(u)'
    BY <2>1 DEF Carried
  <2> QED BY <1>1, <2>1, <2>2, <2>3, <2>4, <2>5, <2>6, ForgetFrame
<1>7. ~CheckQueued(c) /\ ~Listed(c)
  BY <1>1 DEF OneRequestPerTask, CheckQueued, Listed, Ready
<1> QED BY <1>2, <1>3, <1>4, <1>5, <1>6, <1>7, <1>8, <1>9 DEF ClientStep, Arrive

\* Time forgets nothing, if no retry is due before its worker has unlocked the task,
\* and neither do heartbeats.
LEMMA ForgetTime ==
  ASSUME QueueInv, HeldByWorkers, ForgetInv, ~SlowFinish, SlowBeats = {},
         (\E t \in Tasks : TimePasses(t)) \/ (\E w \in Workers : Beat(w)) \/ UNCHANGED vars
  PROVE  ForgetInv'
<1>1. /\ OneRequestPerTask /\ QueuedOrWaiting /\ InGoodHands
      /\ \A x \in Threads : SoundScript(th[x]) /\ ThreadOK(x, th[x])
      /\ member \in [Sets -> SUBSET Tasks] /\ "started" \in Sets
  BY DEF ForgetInv, QueueInv, Typed, TypeOK, ThreadsOK, Sets
<1>0. /\ (\E w \in Workers : Beat(w)) =>
           /\ UNCHANGED <<th, status, due, waiting>> /\ stale' \subseteq stale
           /\ \A set \in {"queued", "delayed"} : member'[set] = member[set]
  <2>1. ASSUME NEW w \in Workers, Beat(w)
        PROVE  stale' \subseteq stale
    BY <2>1 DEF Beat, Heartbeat, HeartbeatChecks, HeartbeatWrites, Refresh, redis
  <2>2. Typed
    BY DEF QueueInv
  <2> QED BY <2>1, <2>2, BeatsAlone DEF Sets
<1>2. UNCHANGED <<th, status, waiting>> /\ \A set \in {"queued", "delayed"} : member'[set] = member[set]
  BY <1>0 DEF TimePasses, DelayElapses, EntryStales, LockExpires, vars, redis
<1>3. stale' = {}
  <2>1. ASSUME NEW t \in Tasks, EntryStales(t)
        PROVE  FALSE
    <3>1. PICK w \in Workers : Shows(th[w], t, "started")
      BY <2>1 DEF EntryStales, HeldByWorkers, Beaten
    <3>2. Holds(w, t)
      BY <3>1 DEF Shows, Holds
    <3> QED BY <2>1, <3>2 DEF EntryStales
  <2> QED BY <1>0, <1>1, <2>1 DEF TimePasses, DelayElapses, LockExpires, vars, redis, OneRequestPerTask
<1>4. ASSUME NEW x \in Threads, th[x].pc \in {"settling", "releasing"}, th[x].task \notin SyncTasks,
             status[th[x].task] \in Pending,
             th[x].task \in member["delayed"] \ due
      PROVE  th[x].task \notin due'
  <2>1. x \in Workers /\ th[x].locked
    BY <1>1, <1>4 DEF Threads, ThreadOK, InstanceLabels, ClientLabels, SoundScript
  <2>2. ~DelayElapses(th[x].task)
    BY <2>1 DEF DelayElapses, Holds
  <2>3. due' = due \/ \E t \in Tasks : DelayElapses(t) /\ due' = due \cup {t}
    BY <1>0 DEF TimePasses, DelayElapses, EntryStales, LockExpires, vars, redis
  <2> QED BY <1>4, <2>2, <2>3
<1>5. \A x \in Threads : SoundScript(th[x])'
  BY <1>1, <1>2, <1>4 DEF SoundScript
<1>6. OneRequestPerTask'
  BY <1>1, <1>2, <1>3 DEF OneRequestPerTask, Waits
<1>7. QueuedOrWaiting'
  BY <1>1, <1>2 DEF QueuedOrWaiting, Waits
<1>8. InGoodHands'
  BY <1>1, <1>2 DEF InGoodHands, Keeping, Waits, Carried
<1> QED BY <1>5, <1>6, <1>7, <1>8 DEF ForgetInv

\* Every step where nothing fails.
LEMMA ForgetStep ==
  ASSUME QueueInv, QueueInv', HeldByWorkers, DeadInv, ForgetInv, ~SlowFinish, SlowBeats = {},
         ListCap = 0, ~Fault, [Next]_vars
  PROVE  ForgetInv'
<1>1. Typed /\ AllUp /\ Workers \subseteq Threads
  BY DEF QueueInv, DeadInv, Threads
<1>2. ASSUME NEW w \in Workers, OthersStay(w), WorkerStep(w), th[w].pc \notin Trouble
      PROVE  ForgetInv'
  <2>1. ~MarkWorkerException(w) /\ ~GiveUp(w)
    BY <1>2 DEF MarkWorkerException, GiveUp, Ready, Trouble
  <2> QED BY <1>2, <2>1, ForgetWork, ForgetQueue DEF WorkerStep
<1> QED BY <1>1, <1>2, OneActsOrWaits, ForgetTime, ForgetExecute, ForgetRequest

\* Where no process dies or starts beside the others, no call fails, no request is
\* repeated, and no retry is due and no heartbeat writes after its worker is through,
\* every pending task of the queue is with a request, in Redis where a worker will
\* find it, or with a worker.
THEOREM NothingIsForgotten ==
  Spec => [](~SlowFinish /\ SlowBeats = {} /\ ListCap = 0 /\ Late = {} /\ NoFaults => NothingForgotten)
<1> DEFINE Fine == NoFaults => HeldByWorkers
           Inv == ~SlowFinish /\ SlowBeats = {} /\ ListCap = 0 /\ Late = {} /\ NoFaults => DeadInv /\ ForgetInv
<1>1. Init => Inv
  <2> SUFFICES ASSUME Init, Late = {} PROVE DeadInv /\ ForgetInv
    OBVIOUS
  <2>1. DeadInv
    BY DeadAtFirst
  <2>2. \A x \in Threads : th[x] = At("up") \/ th[x] = At("idle")
    BY DEF Init
  <2>3. \A x \in Threads : th[x].todo = <<>> /\ th[x].pc \in {"up", "idle"}
    BY <2>2 DEF At
  <2>4. \A t \in Tasks : status[t] \notin Pending
    BY DEF Init, Pending
  <2>5. stale = {} /\ member["queued"] = {} /\ Clients \subseteq Threads
    BY DEF Init, Sets, Threads
  <2>6. OneRequestPerTask
    BY <2>3, <2>5 DEF OneRequestPerTask, Waits
  <2>7. \A x \in Threads : SoundScript(th[x])
    BY <2>3, NothingToDo DEF SoundScript
  <2> QED BY <2>1, <2>4, <2>6, <2>7 DEF ForgetInv, QueuedOrWaiting, InGoodHands
<1>2. QueueInv /\ QueueInv' /\ Fine /\ Inv /\ [Next]_vars => Inv'
  <2> SUFFICES ASSUME QueueInv, QueueInv', Fine, Inv, [Next]_vars, ~SlowFinish, SlowBeats = {}, ListCap = 0, Late = {}, NoFaults'
               PROVE  DeadInv' /\ ForgetInv'
    BY DEF NoFaults
  <2>1. ~Fault /\ NoFaults
    BY NoFaultYet DEF QueueInv
  <2> QED BY <2>1, DeadStep, ForgetStep
<1>3. Inv /\ QueueInv => (~SlowFinish /\ SlowBeats = {} /\ ListCap = 0 /\ Late = {} /\ NoFaults => NothingForgotten)
  BY DEF ForgetInv, InGoodHands, NothingForgotten, InHand
<1>4. Spec => []Fine
  BY HeldAlways
<1> QED BY <1>1, <1>2, <1>3, <1>4, Invariance, PTL DEF Spec
=============================================================================
