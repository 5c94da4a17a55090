------------------------------ MODULE MCParts ------------------------------
(***************************************************************************)
(* The parts of the browser, of the service and of the older backend that  *)
(* share no state, checked side by side: an initial state chooses one of   *)
(* Parts, which alone takes steps.  The workspace page is EXTENDed, with   *)
(* its own variables; the others use x1 to x15, and what a part does not   *)
(* use keeps its value.                                                    *)
(* A part's reachable states are those of its module under the constants   *)
(* that its INSTANCE gives; most are instances of the modules that prove   *)
(* theorems about theirs, of which some hold several parts: Service is the *)
(* redemption codes and holds Service!Filter, the rules of the service.    *)
(***************************************************************************)
EXTENDS Workspace, Sequences, Integers

CONSTANTS
  Parts,
  NeverSaved,
  Live   \* whether the bounds are the smaller ones of liveness

VARIABLES
  part,
  x1, x2, x3, x4, x5, x6, x7, x8, x9, x10, x11, x12, x13, x14, x15

pool == <<x1, x2, x3, x4, x5, x6, x7, x8, x9, x10, x11, x12, x13, x14, x15>>
pageVars == <<cookie, server, page, net, announced, bounds>>

-----------------------------------------------------------------------------
(* The parts *)

(* The page with one task: requests that fail; two users, with a task of    *)
(* the first; reloads                                                       *)
Failing == INSTANCE WorkspaceProofs
  WITH JobCount <- 1, Earlier <- {}, Gestures <- {"submit", "history", "jobs", "account"}, MaxErrors <- 1
Switching == INSTANCE WorkspaceProofs
  WITH Users <- {"u1", "u2"}, JobCount <- 1, Earlier <- {1}, Gestures <- {"login", "logout"}
Reloading == INSTANCE Workspace
  WITH JobCount <- 1, Earlier <- {}, Gestures <- {"submit", "history", "reload"}


(* The table of gateways of the administration page: one gateway, changes   *)
(* by others and errors; and three gateways                                *)
Console == INSTANCE ConsoleProofs
  WITH Gateways <- {"g1"}, Unmade <- {}, MaxClicks <- 2, MaxOthers <- IF Live THEN 0 ELSE 1, MaxErrors <- 1,
       rows <- x1, session <- x2, user <- x3, open <- x4, auto <- x5, hidden <- x6, timer <- x7,
       list <- x8, drafts <- x9, configured <- x10, load <- x11, net <- x12, clicks <- x13,
       others <- x14, errors <- x15
Table == INSTANCE ConsoleProofs
  WITH Gateways <- {"g1", "g2", "g3"}, Unmade <- {"g3"}, MaxClicks <- 2, MaxOthers <- 0, MaxErrors <- 0,
       rows <- x1, session <- x2, user <- x3, open <- x4, auto <- x5, hidden <- x6, timer <- x7,
       list <- x8, drafts <- x9, configured <- x10, load <- x11, net <- x12, clicks <- x13,
       others <- x14, errors <- x15

(* The other pages *)
Pages == INSTANCE PagesProofs
  WITH Users <- {"u1", "u2"}, Admins <- {"a", "b"}, Seeds <- {"a"},
       Picks <- {<<"f1">>, <<"f2">>, <<"f2", "f3">>}, Results <- {"x1"}, Sizes <- {1, 2},
       MaxReferences <- 2, MaxImages <- 3, MaxRequests <- 3, MaxRestarts <- 1, MaxVisits <- 3,
       MaxClicks <- 2, MaxOthers <- IF Live THEN 0 ELSE 1, MaxErrors <- 1, Rules <- {"r1", "r2"},
       EarlierRules <- {"r1"}, Texts <- {"p", "q"}, Models <- {"g1", "g2"}, NoGateway <- "none",
       Price <- [g \in {"g1", "g2"} |-> IF g = "g1" THEN 8 ELSE 5],
       Offers <- {<<>>, <<"g1">>, <<"g2">>, <<"g1", "g2">>}, Typed <- {0, 1, 7, 20, 21}, MaxLists <- 2,
       WarningCount <- 3, EarlierWarnings <- IF Live THEN 3 ELSE 1, PageLimit <- 2, MaxRefreshes <- 2,
       MaxLost <- IF Live THEN 0 ELSE 1, PageSize <- 1, EarlierEntries <- 2, MaxEntries <- 5,
       MaxLoads <- 5, Patient <- TRUE,
       rows <- x1, open <- x4, list <- x8, configured <- x10, load <- x11, net <- x12, clicks <- x13,
       others <- x14, errors <- x15, credits <- x1, users <- x2, selected <- x3, shown <- x4,
       drawer <- x5, bulk <- x6, granted <- x7, refs <- x1, tray <- x2, previews <- x3,
       requests <- x4, files <- x5, urls <- x6, sending <- x7, fetching <- x8, accounts <- x1,
       asking <- x2, raced <- x3, restarts <- x5, form <- x1, stored <- x2, keyConfigured <- x3,
       loaded <- x4, loads <- x7, saving <- x8, testing <- x9, upstream <- x10, result <- x11,
       total <- x1, gallery <- x2, visible <- x3, failed <- x4, unmade <- x3, rendered <- x4,
       filter <- x5, replace <- x6, ticks <- x7, replaced <- x9, signedIn <- x1, ratio <- x2,
       quality <- x3, count <- x4, gateway <- x5, options <- x6, brief <- x8, draft <- x9,
       sent <- x2, acknowledged <- x3, active <- x5, timers <- x6, refreshes <- x7, seen <- x8,
       entries <- x1, view <- x2, cached <- x3

(* The older backend: its accounts and codes, and its tasks as Older!Gen    *)
Older == INSTANCE NestProofs
  WITH Emails <- {"u1", "u2"}, Codes <- {"c1", "c2"}, NoCode <- "none", Activities <- {"a1"},
       Admins <- {"x", "y"}, CaptchaIds <- {1, 2}, MaxPatches <- 3,
       captchas <- x1, issued <- x2, registering <- x3, accounts <- x4, bonus <- x5, codes <- x6,
       uses <- x7, redeeming <- x8, granted <- x9, patching <- x10, active <- x11,
       disabling <- x12, raced <- x13, patches <- x14,
       Tasks <- {"t1", "t2"}, Count <- 2, UnitCost <- 1, Balance <- 3, Attempts <- 2, QueueLimit <- 1,
       Threshold <- 2, MaxCrashes <- 1, MaxErrors <- 1, MaxToggles <- IF Live THEN 0 ELSE 1,
       status <- x1, images <- x2, usage <- x3, wallet <- x4, refunded <- x5, gateway <- x6,
       request <- x7, job <- x8, runs <- x9, disturbed <- x10, crashes <- x11, errors <- x12,
       toggles <- x13, deleting <- x14, recovering <- x15

(* The service: two users and a click on their codes, the rule cache, and   *)
(* gateways with two workers; one user and the codes tab, and gateways with *)
(* two administrators                                                      *)
Service == INSTANCE ServiceProofs
  WITH Users <- {"u1", "u2"}, Codes <- {"c1", "c2", "c3"}, Earlier <- {"c1", "c2"}, Redeemed <- {},
       Keys <- {"a1", "a2"}, NoCode <- "none", MaxUses <- 2, MaxRequests <- 2, MaxClicks <- 1, MaxErrors <- 1,
       Rules <- IF Live THEN {"r2"} ELSE {"r1", "r2"}, NoRule <- "none",
       Kept <- IF Live THEN {} ELSE {"r1"}, Checks <- {"c1", "c2"}, Nobody <- "nobody",
       Changes <- {"a1"}, MaxChanges <- 1,
       Gateways <- {"g1", "g2"}, EarlierGateways <- {"g1"}, NoGateway <- "none", ImageTasks <- {"t1", "t2"},
       Requests <- {"a1"}, Threshold <- 2, MaxOutcomes <- 3, MaxAsked <- 1,
       users <- x1, codes <- x2, uses <- x3, entries <- x4, redeeming <- x5, deleting <- x6,
       list <- x7, created <- x8, popover <- x9, load <- x10, net <- x11, requests <- x12,
       clicks <- x13, errors <- x14, stored <- x1, changing <- x2, activeRules <- x3, loaded <- x4,
       monitor <- x5, checking <- x6, emptied <- x7, changes <- x8, rows <- x1, tasks <- x2,
       working <- x3, asking <- x4, streak <- x5, touched <- x6, outcomes <- x7
Contest == INSTANCE ServiceProofs
  WITH Users <- {"u1"}, Codes <- {"c1", "c2"}, Earlier <- {"c1", "c2"}, Redeemed <- {[code |-> "c1", user |-> "u1"]},
       Keys <- {"a1"}, NoCode <- "none", MaxUses <- 2, MaxRequests <- 1, MaxClicks <- 2, MaxErrors <- 1,
       Rules <- {"r1", "r2"}, NoRule <- "none", Kept <- {"r1"}, Checks <- {"c1", "c2"},
       Nobody <- "nobody", Changes <- {"a1"}, MaxChanges <- 1,
       Gateways <- {"g1", "g2"}, EarlierGateways <- {"g1"}, NoGateway <- "none", ImageTasks <- {"t1"},
       Requests <- {"a1", "a2"}, Threshold <- 2, MaxOutcomes <- 3, MaxAsked <- 2,
       users <- x1, codes <- x2, uses <- x3, entries <- x4, redeeming <- x5, deleting <- x6,
       list <- x7, created <- x8, popover <- x9, load <- x10, net <- x11, requests <- x12,
       clicks <- x13, errors <- x14, stored <- x1, changing <- x2, activeRules <- x3, loaded <- x4,
       monitor <- x5, checking <- x6, emptied <- x7, changes <- x8, rows <- x1, tasks <- x2,
       working <- x3, asking <- x4, streak <- x5, touched <- x6, outcomes <- x7

\* Of the pages, requests of "failing page" fail, users of "switching page" sign in and out.
ASSUME PartsAssumption ==
  /\ WorkspaceAssumption
  /\ MaxErrors = 0 /\ Gestures \cap {"login", "logout"} = {}
  /\ Failing!WorkspaceAssumption
  /\ Switching!WorkspaceAssumption
  /\ Reloading!WorkspaceAssumption
  /\ Pages!Options!ComposerAssumption
  /\ Pages!Tray!ReferencesAssumption
  /\ Pages!Warning!AccountWarningsAssumption
  /\ Pages!Credits!CreditsViewAssumption
  /\ Console!AdminConsoleAssumption
  /\ Table!AdminConsoleAssumption
  /\ Pages!People!AdminUsersAssumption
  /\ Pages!Gallery!AdminGalleryAssumption
  /\ Pages!RulesTab!AdminRulesAssumption
  /\ Pages!Channel!CallSquareAssumption
  /\ Older!Gen!NestTasksAssumption
  /\ Older!NestAccountsAssumption
  /\ Service!RedemptionAssumption
  /\ Contest!RedemptionAssumption
  /\ Service!Filter!SensitiveRulesAssumption
  /\ Service!Health!GatewayHealthAssumption
  /\ Contest!Health!GatewayHealthAssumption
  /\ Pages!Staff!AdministratorsAssumption

-----------------------------------------------------------------------------
(* Variables that a part does not use *)

U15 == <<x15>>
U10 == <<x10, x11, x12, x13, x14, x15>>
U9 == <<x9, x10, x11, x12, x13, x14, x15>>
Uwarnings == <<x9, x10, x11, x13, x14>>
Ucredits == <<x4, x6, x8, x9, x10, x11, x13, x14, x15>>
Ugallery == <<x5, x6, x7, x8, x9, x10, x11, x14>>
Ugateways == <<x8, x9, x10, x11, x13, x14, x15>>
U6 == <<x6, x7, x8, x9, x10, x11, x12, x13, x14, x15>>

Z15 == x15 = 0
Z11 == x11 = 0 /\ x12 = 0 /\ x13 = 0 /\ x14 = 0 /\ Z15
Z10 == x10 = 0 /\ Z11
Z9 == x9 = 0 /\ Z10
Zwarnings == x9 = 0 /\ x10 = 0 /\ x11 = 0 /\ x13 = 0 /\ x14 = 0
Zcredits == x4 = 0 /\ x6 = 0 /\ x8 = 0 /\ x9 = 0 /\ x10 = 0 /\ x11 = 0 /\ x13 = 0 /\ x14 = 0 /\ x15 = 0
Zgallery == x5 = 0 /\ x6 = 0 /\ x7 = 0 /\ x8 = 0 /\ x9 = 0 /\ x10 = 0 /\ x11 = 0 /\ x14 = 0
Zgateways == x8 = 0 /\ x9 = 0 /\ x10 = 0 /\ x11 = 0 /\ x13 = 0 /\ x14 = 0 /\ Z15
Z8 == x8 = 0 /\ Z9
Z7 == x7 = 0 /\ Z8
Z6 == x6 = 0 /\ Z7
Z1 == x1 = 0 /\ x2 = 0 /\ x3 = 0 /\ x4 = 0 /\ x5 = 0 /\ Z6

NoPage ==
  /\ cookie = NoUser /\ owner = <<>> /\ status = <<>> /\ page = FreshPage(NoJob)
  /\ net = EmptyBag /\ announced = 0 /\ clicks = 0 /\ errors = 0

PartsInit ==
  /\ part \in Parts
  /\ \/ part = "page" /\ Init /\ Z1
     \/ part = "failing page" /\ Failing!Init /\ Z1
     \/ part = "switching page" /\ Switching!Init /\ Z1
     \/ part = "reloading page" /\ Reloading!Init /\ Z1
     \/ part = "composer" /\ Pages!Options!Init /\ NoPage /\ Z10
     \/ part = "references" /\ Pages!Tray!Init /\ NoPage /\ Z9
     \/ part = "warnings" /\ Pages!Warning!Init /\ NoPage /\ Zwarnings
     \/ part = "credits" /\ Pages!Credits!Init /\ NoPage /\ Zcredits
     \/ part = "console" /\ Console!Init /\ NoPage
     \/ part = "channels" /\ Table!Init /\ NoPage
     \/ part = "users" /\ Pages!People!Init /\ NoPage /\ x8 = 0 /\ x9 = 0
     \/ part = "gallery" /\ Pages!Gallery!Init /\ NoPage /\ Zgallery
     \/ part = "rules tab" /\ Pages!RulesTab!Init /\ NoPage
     \/ part = "callsquare" /\ Pages!Channel!Init /\ NoPage /\ x12 = 0
     \/ part = "nest tasks" /\ Older!Gen!Init /\ NoPage
     \/ part = "nest accounts" /\ Older!Init /\ NoPage /\ Z15
     \/ part = "redemptions" /\ Service!Init /\ NoPage /\ Z15
     \/ part = "codes tab" /\ Contest!Init /\ NoPage /\ Z15
     \/ part = "rules" /\ Service!Filter!Init /\ NoPage /\ Z9
     \/ part = "gateways" /\ Service!Health!Init /\ NoPage /\ Zgateways
     \/ part = "contested gateways" /\ Contest!Health!Init /\ NoPage /\ Zgateways
     \/ part = "administrators" /\ Pages!Staff!Init /\ NoPage /\ Z6

PartsNext ==
  /\ UNCHANGED part
  /\ \/ /\ UNCHANGED pool
        /\ \/ part = "page" /\ Next
           \/ part = "failing page" /\ Failing!Next
           \/ part = "switching page" /\ Switching!Next
           \/ part = "reloading page" /\ Reloading!Next
     \/ /\ UNCHANGED pageVars
        /\ \/ part = "composer" /\ Pages!Options!Next /\ UNCHANGED U10
           \/ part = "references" /\ Pages!Tray!Next /\ UNCHANGED U9
           \/ part = "warnings" /\ Pages!Warning!Next /\ UNCHANGED Uwarnings
           \/ part = "credits" /\ Pages!Credits!Next /\ UNCHANGED Ucredits
           \/ part = "console" /\ Console!Next
           \/ part = "channels" /\ Table!Next
           \/ part = "users" /\ Pages!People!Next /\ UNCHANGED <<x8, x9>>
           \/ part = "gallery" /\ Pages!Gallery!Next /\ UNCHANGED Ugallery
           \/ part = "rules tab" /\ Pages!RulesTab!Next
           \/ part = "callsquare" /\ Pages!Channel!Next /\ UNCHANGED x12
           \/ part = "nest tasks" /\ Older!Gen!Next
           \/ part = "nest accounts" /\ Older!Next /\ UNCHANGED U15
           \/ part = "redemptions" /\ Service!Next /\ UNCHANGED U15
           \/ part = "codes tab" /\ Contest!Next /\ UNCHANGED U15
           \/ part = "rules" /\ Service!Filter!Next /\ UNCHANGED U9
           \/ part = "gateways" /\ Service!Health!Next /\ UNCHANGED Ugateways
           \/ part = "contested gateways" /\ Contest!Health!Next /\ UNCHANGED Ugateways
           \/ part = "administrators" /\ Pages!Staff!Next /\ UNCHANGED U6

allVars == <<part, pool, pageVars>>

PartsSpec == PartsInit /\ [][PartsNext]_allVars

(* The fairness of the parts' specifications that liveness is checked of;   *)
(* each line is fairness of one step of each part, as part does not change. *)
PageMoves == part = "reloading page" /\ UNCHANGED <<part, pool>>
ConsoleMoves == part = "console" /\ UNCHANGED <<part, pageVars>>
WarningsMove == part = "warnings" /\ UNCHANGED <<part, pageVars, Uwarnings>>
TasksMove == part = "nest tasks" /\ UNCHANGED <<part, pageVars>>
RulesMove == part = "rules" /\ UNCHANGED <<part, pageVars, U9>>

FairPartsSpec ==
  /\ PartsSpec
  /\ WF_allVars(\/ PageMoves /\ Reloading!ServeAny
                \/ ConsoleMoves /\ Console!Services
                \/ WarningsMove /\ Pages!Warning!Answers
                \/ TasksMove /\ Older!Gen!Work
                \/ RulesMove /\ Service!Filter!Check("c1"))
  /\ WF_allVars(\/ PageMoves /\ Reloading!DeliverAny
                \/ ConsoleMoves /\ Console!Continuations
                \/ WarningsMove /\ Pages!Warning!Timers
                \/ RulesMove /\ Service!Filter!Check("c2"))
  /\ WF_allVars(\/ PageMoves /\ Reloading!TimerFires
                \/ ConsoleMoves /\ Console!TimerFires
                \/ WarningsMove /\ Pages!Warning!Dismiss
                \/ RulesMove /\ Service!Filter!Expire)
  /\ WF_allVars(\/ PageMoves /\ Reloading!Progress(1)
                \/ RulesMove /\ Service!Filter!Finish)

-----------------------------------------------------------------------------
(* Properties: those of the parts, each of its own states *)

(* The type invariants of all parts. *)
PartsTypeOK ==
  /\ part = "page" => TypeOK
  /\ part = "failing page" => Failing!TypeOK
  /\ part = "switching page" => Switching!TypeOK
  /\ part = "composer" => Pages!Options!TypeOK
  /\ part = "references" => Pages!Tray!TypeOK
  /\ part = "warnings" => Pages!Warning!TypeOK
  /\ part = "credits" => Pages!Credits!TypeOK
  /\ part = "console" => Console!TypeOK
  /\ part = "channels" => Table!TypeOK
  /\ part = "users" => Pages!People!TypeOK
  /\ part = "gallery" => Pages!Gallery!TypeOK
  /\ part = "rules tab" => Pages!RulesTab!TypeOK
  /\ part = "callsquare" => Pages!Channel!TypeOK
  /\ part = "nest tasks" => Older!Gen!TypeOK
  /\ part = "nest accounts" => Older!TypeOK
  /\ part = "redemptions" => Service!TypeOK
  /\ part = "codes tab" => Contest!TypeOK
  /\ part = "rules" => Service!Filter!TypeOK
  /\ part = "gateways" => Service!Health!TypeOK
  /\ part = "contested gateways" => Contest!Health!TypeOK
  /\ part = "administrators" => Pages!Staff!TypeOK

(* The page announces no more completions than tasks were submitted, and    *)
(* while it waits for a job that it lists as pending it has not silently    *)
(* stopped to ask for it.                                                   *)
PageKeepsWaiting ==
  /\ part = "page" => ToastsAreCovered /\ WaitingIsPolling
  /\ part = "failing page" => Failing!ToastsAreCovered
  /\ part = "switching page" => Switching!ToastsAreCovered

(* What the brief of the options shows is what a generation will use and    *)
(* cost, after any choices, lists that come late, reloads and drafts.       *)
BriefIsTrue ==
  part = "composer" => Pages!Options!ShownPriceIsCharged /\ Pages!Options!GatewayIsOffered

(* The tray, the payloads and the object URLs agree with the files kept.    *)
TrayShowsFiles ==
  part = "references" => Pages!Tray!TrayShowsFiles /\ Pages!Tray!PayloadCountsFiles /\ Pages!Tray!NoUrlLeaks

(* A warning is acknowledged only when it was shown, and the dialog that    *)
(* shows it can always be closed.                                           *)
WarningsAreRead ==
  part = "warnings" => Pages!Warning!AcknowledgedWasShown /\ Pages!Warning!DialogCanBeAnswered

(* Edits of the gateway table survive whatever happens to other rows.       *)
DraftsSurvive ==
  [][/\ part = "console" => Console!KeepsDrafts
     /\ part = "channels" => Table!KeepsDrafts]_allVars

(* The console refreshes itself only when it is wanted.                     *)
TimerIsWanted ==
  /\ part = "console" => Console!TimerIsWanted
  /\ part = "channels" => Table!TimerIsWanted

(* A bulk adjustment that ends well has given each selected user its amount *)
(* once.                                                                    *)
BulkIsExact == [][part = "users" => Pages!People!GivesOnce]_allVars

(* The two lists of credit entries have no gap between what they show, the  *)
(* gallery shows the images of the page that its pager names, and the rules *)
(* tab does to the rules what its buttons and its box say.                  *)
PagesAreTrue ==
  /\ part = "credits" => Pages!Credits!NoEntrySkippedInTab /\ Pages!Credits!NoEntrySkippedInDrawer
  /\ part = "gallery" => Pages!Gallery!PagerIsTrue
  /\ part = "rules tab" => Pages!RulesTab!ButtonsAreTrue /\ Pages!RulesTab!ReplacedOncePerTick

(* Only real keys of the channel are stored and used.                       *)
KeysAreReal == [][part = "callsquare" => Pages!Channel!UsesRealKeys]_allVars

(* What a task of the older backend has cost follows from its status.       *)
MoneyFollowsStatus == part = "nest tasks" => Older!Gen!MoneyFollowsStatus

(* Its users are granted what a code, an activity and a registration bring, *)
(* once.                                                                    *)
GrantedOnce == part = "nest accounts" => Older!GrantedOnce

(* Administrators, of the service and of the older backend, do not lock     *)
(* everybody out but by a race of two.                                      *)
OnlyRacesLockOut ==
  /\ part = "nest accounts" => Older!OnlyRacesLockOut
  /\ part = "administrators" => Pages!Staff!OnlyRacesLockOut

(* A rule that is enabled all along is skipped by no check that has read    *)
(* the cached list and its time together.                                   *)
OnlyRacesSkip == part = "rules" => Service!Filter!OnlyRacesSkip

(* No gateway is deleted under a worker, and its failures, its health and   *)
(* its cooldown follow from the outcomes that were recorded.                *)
GatewaysAreSound ==
  /\ part = "gateways" => Service!Health!CalledGatewayExists /\ Service!Health!HealthIsEarned
  /\ part = "contested gateways" => Contest!Health!CalledGatewayExists /\ Contest!Health!HealthIsEarned

(* Redemptions are allowed by the code as it then is, and the array of the  *)
(* code, the uses and the wallet entries tell the same story.               *)
RedemptionsAreSound ==
  [][/\ part = "redemptions" => Service!Sound
     /\ part = "codes tab" => Contest!Sound]_allVars

(* The page's polling comes to an end, and the job it waited for is listed  *)
(* as finished, across reloads.                                             *)
PollingEnds == Reloading!PollingSettles /\ Reloading!RememberedJobIsShown

(* A console that is watched ends up with the gateways there are, and the   *)
(* checks of an instance with the rules that are enabled.                   *)
CachesCatchUp ==
  /\ <>[](part = "console" /\ Console!Watching) => <>[](part = "console" /\ Console!CaughtUp)
  /\ <>[](part = "rules" => \A c \in {"c1", "c2"} : Service!Filter!Applies(c))

(* Warnings that were loaded come up one after the other.                   *)
LoadedWarningsDrain ==
  \A w \in 1..3 : (part = "warnings" /\ w \in x8) ~> (part = "warnings" /\ Pages!Warning!ReadUpTo(w))

(* Tasks of the older backend end.                                          *)
EveryTaskEnds ==
  \A t \in {"t1", "t2"} :
    (part = "nest tasks" /\ Older!Gen!Exists(t)) ~> (part = "nest tasks" /\ Older!Gen!Ended(t))
=============================================================================
