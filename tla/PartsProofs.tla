----------------------------- MODULE PartsProofs -----------------------------
(***************************************************************************)
(* The theorems about the parts, brought to MCParts, which the runs check: *)
(* a behaviour keeps the part that its initial state chose, and then is    *)
(* one of the part's module under the constants of its instance.           *)
(***************************************************************************)
EXTENDS MCParts, WorkspaceProofs, TLAPS

-----------------------------------------------------------------------------
(* The parts *)

(* A behaviour is one of the part throughout, or never. *)
Stays(p) == [](part = p) \/ []~(part = p)

\* The part does not change.
LEMMA PartStays == ASSUME NEW CONSTANT p PROVE PartsSpec => Stays(p)
<1>1. part = p /\ [PartsNext]_allVars => (part = p)'
  BY DEF PartsNext, allVars
<1>2. ~(part = p) /\ [PartsNext]_allVars => (~(part = p))'
  BY DEF PartsNext, allVars
<1> QED BY <1>1, <1>2, PTL DEF PartsSpec, Stays

\* The page of the workspace.
LEMMA PagePart ==
  PartsSpec => []~(part = "page") \/ ([](part = "page") /\ Spec)
<1>1. part = "page" /\ PartsInit => Init
  BY DEF PartsInit
<1>2. part = "page" /\ [PartsNext]_allVars => [Next]_vars
  BY DEF PartsNext, allVars, pageVars, vars, server, bounds
<1>3. PartsSpec => Stays("page")
  BY PartStays
<1> QED BY <1>1, <1>2, <1>3, PTL DEF PartsSpec, Spec, Stays

\* The page whose requests fail.
LEMMA FailingPart ==
  PartsSpec => []~(part = "failing page") \/ ([](part = "failing page") /\ Failing!Spec)
<1>1. part = "failing page" /\ PartsInit => Failing!Init
  BY DEF PartsInit
<1>2. part = "failing page" /\ [PartsNext]_allVars => [Failing!Next]_(Failing!vars)
  BY DEF PartsNext, allVars, pageVars, Failing!vars, Failing!server, Failing!bounds, server, bounds
<1>3. PartsSpec => Stays("failing page")
  BY PartStays
<1> QED BY <1>1, <1>2, <1>3, PTL DEF PartsSpec, Failing!Spec, Stays

\* The page where users sign in and out.
LEMMA SwitchingPart ==
  PartsSpec => []~(part = "switching page") \/ ([](part = "switching page") /\ Switching!Spec)
<1>1. part = "switching page" /\ PartsInit => Switching!Init
  BY DEF PartsInit
<1>2. part = "switching page" /\ [PartsNext]_allVars => [Switching!Next]_(Switching!vars)
  BY DEF PartsNext, allVars, pageVars, Switching!vars, Switching!server, Switching!bounds, server, bounds
<1>3. PartsSpec => Stays("switching page")
  BY PartStays
<1> QED BY <1>1, <1>2, <1>3, PTL DEF PartsSpec, Switching!Spec, Stays

\* The options of the composer.
LEMMA ComposerPart ==
  PartsSpec => []~(part = "composer") \/ ([](part = "composer") /\ Pages!Options!Spec)
<1>1. part = "composer" /\ PartsInit => Pages!Options!Init
  BY DEF PartsInit
<1>2. part = "composer" /\ [PartsNext]_allVars => [Pages!Options!Next]_(Pages!Options!vars)
  BY DEF PartsNext, allVars, pool, pageVars, Pages!Options!vars, Pages!Options!choice
<1>3. PartsSpec => Stays("composer")
  BY PartStays
<1> QED BY <1>1, <1>2, <1>3, PTL DEF PartsSpec, Pages!Options!Spec, Stays

\* The reference images.
LEMMA TrayPart ==
  PartsSpec => []~(part = "references") \/ ([](part = "references") /\ Pages!Tray!Spec)
<1>1. part = "references" /\ PartsInit => Pages!Tray!Init
  BY DEF PartsInit
<1>2. part = "references" /\ [PartsNext]_allVars => [Pages!Tray!Next]_(Pages!Tray!vars)
  BY DEF PartsNext, allVars, pool, pageVars, Pages!Tray!vars, Pages!Tray!page
<1>3. PartsSpec => Stays("references")
  BY PartStays
<1> QED BY <1>1, <1>2, <1>3, PTL DEF PartsSpec, Pages!Tray!Spec, Stays

\* The warnings of an account.
LEMMA WarningsPart ==
  PartsSpec => []~(part = "warnings") \/ ([](part = "warnings") /\ Pages!Warning!Spec)
<1>1. part = "warnings" /\ PartsInit => Pages!Warning!Init
  BY DEF PartsInit
<1>2. part = "warnings" /\ [PartsNext]_allVars => [Pages!Warning!Next]_(Pages!Warning!vars)
  BY DEF PartsNext, allVars, pool, pageVars, Pages!Warning!vars, Pages!Warning!server, Pages!Warning!dialog,
      Pages!Warning!bounds
<1>3. PartsSpec => Stays("warnings")
  BY PartStays
<1> QED BY <1>1, <1>2, <1>3, PTL DEF PartsSpec, Pages!Warning!Spec, Stays

\* The lists of credit entries.
LEMMA CreditsPart ==
  PartsSpec => []~(part = "credits") \/ ([](part = "credits") /\ Pages!Credits!Spec)
<1>1. part = "credits" /\ PartsInit => Pages!Credits!Init
  BY DEF PartsInit
<1>2. part = "credits" /\ [PartsNext]_allVars => [Pages!Credits!Next]_(Pages!Credits!vars)
  BY DEF PartsNext, allVars, pool, pageVars, Pages!Credits!vars
<1>3. PartsSpec => Stays("credits")
  BY PartStays
<1> QED BY <1>1, <1>2, <1>3, PTL DEF PartsSpec, Pages!Credits!Spec, Stays

\* The table of one gateway.
LEMMA ConsolePart ==
  PartsSpec => []~(part = "console") \/ ([](part = "console") /\ Console!Spec)
<1>1. part = "console" /\ PartsInit => Console!Init
  BY DEF PartsInit
<1>2. part = "console" /\ [PartsNext]_allVars => [Console!Next]_(Console!vars)
  BY DEF PartsNext, allVars, pool, pageVars, Console!vars, Console!server, Console!refresh, Console!table,
      Console!bounds
<1>3. PartsSpec => Stays("console")
  BY PartStays
<1> QED BY <1>1, <1>2, <1>3, PTL DEF PartsSpec, Console!Spec, Stays

\* The table of three gateways.
LEMMA TablePart ==
  PartsSpec => []~(part = "channels") \/ ([](part = "channels") /\ Table!Spec)
<1>1. part = "channels" /\ PartsInit => Table!Init
  BY DEF PartsInit
<1>2. part = "channels" /\ [PartsNext]_allVars => [Table!Next]_(Table!vars)
  BY DEF PartsNext, allVars, pool, pageVars, Table!vars, Table!server, Table!refresh, Table!table, Table!bounds
<1>3. PartsSpec => Stays("channels")
  BY PartStays
<1> QED BY <1>1, <1>2, <1>3, PTL DEF PartsSpec, Table!Spec, Stays

\* The users of the administration page.
LEMMA PeoplePart ==
  PartsSpec => []~(part = "users") \/ ([](part = "users") /\ Pages!People!Spec)
<1>1. part = "users" /\ PartsInit => Pages!People!Init
  BY DEF PartsInit
<1>2. part = "users" /\ [PartsNext]_allVars => [Pages!People!Next]_(Pages!People!vars)
  BY DEF PartsNext, allVars, pool, pageVars, Pages!People!vars, Pages!People!bounds
<1>3. PartsSpec => Stays("users")
  BY PartStays
<1> QED BY <1>1, <1>2, <1>3, PTL DEF PartsSpec, Pages!People!Spec, Stays

\* Its gallery.
LEMMA GalleryPart ==
  PartsSpec => []~(part = "gallery") \/ ([](part = "gallery") /\ Pages!Gallery!Spec)
<1>1. part = "gallery" /\ PartsInit => Pages!Gallery!Init
  BY DEF PartsInit
<1>2. part = "gallery" /\ [PartsNext]_allVars => [Pages!Gallery!Next]_(Pages!Gallery!vars)
  BY DEF PartsNext, allVars, pool, pageVars, Pages!Gallery!vars
<1>3. PartsSpec => Stays("gallery")
  BY PartStays
<1> QED BY <1>1, <1>2, <1>3, PTL DEF PartsSpec, Pages!Gallery!Spec, Stays

\* Its tab of sensitive words.
LEMMA RulesTabPart ==
  PartsSpec => []~(part = "rules tab") \/ ([](part = "rules tab") /\ Pages!RulesTab!Spec)
<1>1. part = "rules tab" /\ PartsInit => Pages!RulesTab!Init
  BY DEF PartsInit
<1>2. part = "rules tab" /\ [PartsNext]_allVars => [Pages!RulesTab!Next]_(Pages!RulesTab!vars)
  BY DEF PartsNext, allVars, pool, pageVars, Pages!RulesTab!vars, Pages!RulesTab!server, Pages!RulesTab!page,
      Pages!RulesTab!loading, Pages!RulesTab!history
<1>3. PartsSpec => Stays("rules tab")
  BY PartStays
<1> QED BY <1>1, <1>2, <1>3, PTL DEF PartsSpec, Pages!RulesTab!Spec, Stays

\* The channel.
LEMMA ChannelPart ==
  PartsSpec => []~(part = "callsquare") \/ ([](part = "callsquare") /\ Pages!Channel!Spec)
<1>1. part = "callsquare" /\ PartsInit => Pages!Channel!Init
  BY DEF PartsInit
<1>2. part = "callsquare" /\ [PartsNext]_allVars => [Pages!Channel!Next]_(Pages!Channel!vars)
  BY DEF PartsNext, allVars, pool, pageVars, Pages!Channel!vars, Pages!Channel!editor, Pages!Channel!tray,
      Pages!Channel!bounds
<1>3. PartsSpec => Stays("callsquare")
  BY PartStays
<1> QED BY <1>1, <1>2, <1>3, PTL DEF PartsSpec, Pages!Channel!Spec, Stays

\* The tasks of the older backend.
LEMMA TasksPart ==
  PartsSpec => []~(part = "nest tasks") \/ ([](part = "nest tasks") /\ Older!Gen!Spec)
<1>1. part = "nest tasks" /\ PartsInit => Older!Gen!Init
  BY DEF PartsInit
<1>2. part = "nest tasks" /\ [PartsNext]_allVars => [Older!Gen!Next]_(Older!Gen!vars)
  BY DEF PartsNext, allVars, pool, pageVars, Older!Gen!vars, Older!Gen!records, Older!Gen!bounds
<1>3. PartsSpec => Stays("nest tasks")
  BY PartStays
<1> QED BY <1>1, <1>2, <1>3, PTL DEF PartsSpec, Older!Gen!Spec, Stays

\* Its accounts and codes.
LEMMA AccountsPart ==
  PartsSpec => []~(part = "nest accounts") \/ ([](part = "nest accounts") /\ Older!Spec)
<1>1. part = "nest accounts" /\ PartsInit => Older!Init
  BY DEF PartsInit
<1>2. part = "nest accounts" /\ [PartsNext]_allVars => [Older!Next]_(Older!vars)
  BY DEF PartsNext, allVars, pool, pageVars, Older!vars, Older!signup, Older!redemption, Older!admins
<1>3. PartsSpec => Stays("nest accounts")
  BY PartStays
<1> QED BY <1>1, <1>2, <1>3, PTL DEF PartsSpec, Older!Spec, Stays

\* The codes that two users redeem.
LEMMA RedemptionsPart ==
  PartsSpec => []~(part = "redemptions") \/ ([](part = "redemptions") /\ Service!Spec)
<1>1. part = "redemptions" /\ PartsInit => Service!Init
  BY DEF PartsInit
<1>2. part = "redemptions" /\ [PartsNext]_allVars => [Service!Next]_(Service!vars)
  BY DEF PartsNext, allVars, pool, pageVars, Service!vars, Service!books, Service!page
<1>3. PartsSpec => Stays("redemptions")
  BY PartStays
<1> QED BY <1>1, <1>2, <1>3, PTL DEF PartsSpec, Service!Spec, Stays

\* The codes that the administration page shows.
LEMMA CodesTabPart ==
  PartsSpec => []~(part = "codes tab") \/ ([](part = "codes tab") /\ Contest!Spec)
<1>1. part = "codes tab" /\ PartsInit => Contest!Init
  BY DEF PartsInit
<1>2. part = "codes tab" /\ [PartsNext]_allVars => [Contest!Next]_(Contest!vars)
  BY DEF PartsNext, allVars, pool, pageVars, Contest!vars, Contest!books, Contest!page
<1>3. PartsSpec => Stays("codes tab")
  BY PartStays
<1> QED BY <1>1, <1>2, <1>3, PTL DEF PartsSpec, Contest!Spec, Stays

\* The rules that prompts are checked by.
LEMMA RulesPart ==
  PartsSpec => []~(part = "rules") \/ ([](part = "rules") /\ Service!Filter!Spec)
<1>1. part = "rules" /\ PartsInit => Service!Filter!Init
  BY DEF PartsInit
<1>2. part = "rules" /\ [PartsNext]_allVars => [Service!Filter!Next]_(Service!Filter!vars)
  BY DEF PartsNext, allVars, pool, pageVars, Service!Filter!vars, Service!Filter!rows, Service!Filter!cache
<1>3. PartsSpec => Stays("rules")
  BY PartStays
<1> QED BY <1>1, <1>2, <1>3, PTL DEF PartsSpec, Service!Filter!Spec, Stays

\* The gateways of two workers.
LEMMA GatewaysPart ==
  PartsSpec => []~(part = "gateways") \/ ([](part = "gateways") /\ Service!Health!Spec)
<1>1. part = "gateways" /\ PartsInit => Service!Health!Init
  BY DEF PartsInit
<1>2. part = "gateways" /\ [PartsNext]_allVars => [Service!Health!Next]_(Service!Health!vars)
  BY DEF PartsNext, allVars, pool, pageVars, Service!Health!vars, Service!Health!counted
<1>3. PartsSpec => Stays("gateways")
  BY PartStays
<1> QED BY <1>1, <1>2, <1>3, PTL DEF PartsSpec, Service!Health!Spec, Stays

\* The gateways of two administrators.
LEMMA ContestedPart ==
  PartsSpec => []~(part = "contested gateways") \/ ([](part = "contested gateways") /\ Contest!Health!Spec)
<1>1. part = "contested gateways" /\ PartsInit => Contest!Health!Init
  BY DEF PartsInit
<1>2. part = "contested gateways" /\ [PartsNext]_allVars => [Contest!Health!Next]_(Contest!Health!vars)
  BY DEF PartsNext, allVars, pool, pageVars, Contest!Health!vars, Contest!Health!counted
<1>3. PartsSpec => Stays("contested gateways")
  BY PartStays
<1> QED BY <1>1, <1>2, <1>3, PTL DEF PartsSpec, Contest!Health!Spec, Stays

\* The accounts of administrators.
LEMMA AdministratorsPart ==
  PartsSpec => []~(part = "administrators") \/ ([](part = "administrators") /\ Pages!Staff!Spec)
<1>1. part = "administrators" /\ PartsInit => Pages!Staff!Init
  BY DEF PartsInit
<1>2. part = "administrators" /\ [PartsNext]_allVars => [Pages!Staff!Next]_(Pages!Staff!vars)
  BY DEF PartsNext, allVars, pool, pageVars, Pages!Staff!vars
<1>3. PartsSpec => Stays("administrators")
  BY PartStays
<1> QED BY <1>1, <1>2, <1>3, PTL DEF PartsSpec, Pages!Staff!Spec, Stays

-----------------------------------------------------------------------------
(* The theorems *)

\* No gateway is deleted under a worker, and its failures, its health and its
\* cooldown follow from the outcomes that were recorded.
THEOREM GatewaysSound == PartsSpec => []GatewaysAreSound
<1>1. Service!Health!GatewayHealthAssumption /\ Contest!Health!GatewayHealthAssumption
  BY PartsAssumption
<1>2. Service!Health!Spec => [](Service!Health!CalledGatewayExists /\ Service!Health!HealthIsEarned)
  BY <1>1, Service!CalledGatewaysExist, Service!HealthEarned, PTL
<1>3. Contest!Health!Spec => [](Contest!Health!CalledGatewayExists /\ Contest!Health!HealthIsEarned)
  BY <1>1, Contest!CalledGatewaysExist, Contest!HealthEarned, PTL
<1>4. /\ part = "gateways" => Service!Health!CalledGatewayExists /\ Service!Health!HealthIsEarned
      /\ part = "contested gateways" => Contest!Health!CalledGatewayExists /\ Contest!Health!HealthIsEarned
      => GatewaysAreSound
  BY DEF GatewaysAreSound
<1> QED BY <1>2, <1>3, <1>4, GatewaysPart, ContestedPart, PTL

\* A rule that is enabled all along is skipped by no check that has read the cached
\* list and its time together.
THEOREM RacesSkip == PartsSpec => []OnlyRacesSkip
<1>1. Service!Filter!SensitiveRulesAssumption
  BY PartsAssumption
<1>2. Service!Filter!Spec => []Service!Filter!OnlyRacesSkip
  BY <1>1, Service!OnlyTornSkip, PTL
<1>3. (part = "rules" => Service!Filter!OnlyRacesSkip)
      => OnlyRacesSkip
  BY DEF OnlyRacesSkip
<1> QED BY <1>2, <1>3, RulesPart, PTL

\* Redemptions are allowed by the code as it then is, and the array of the code, the
\* uses and the wallet entries tell the same story.
THEOREM AllRedemptionsSound == PartsSpec => RedemptionsAreSound
<1>1. Service!RedemptionAssumption /\ Contest!RedemptionAssumption
  BY PartsAssumption
<1>2. Service!Spec => [][Service!Sound]_(Service!vars)
  BY <1>1, Service!RedemptionsSound, PTL
<1>3. Contest!Spec => [][Contest!Sound]_(Contest!vars)
  BY <1>1, Contest!RedemptionsSound, PTL
<1> DEFINE Kept == /\ part = "redemptions" => Service!Sound
                   /\ part = "codes tab" => Contest!Sound
<1>4. part = "redemptions" /\ [PartsNext]_allVars /\ [Service!Sound]_(Service!vars) => [Kept]_allVars
  <2>1. part = "redemptions" /\ PartsNext /\ UNCHANGED Service!vars => UNCHANGED allVars
    BY DEF PartsNext, allVars, pool, Service!vars, Service!books, Service!page, U15
  <2> QED BY <2>1
<1>5. part = "codes tab" /\ [PartsNext]_allVars /\ [Contest!Sound]_(Contest!vars) => [Kept]_allVars
  <2>1. part = "codes tab" /\ PartsNext /\ UNCHANGED Contest!vars => UNCHANGED allVars
    BY DEF PartsNext, allVars, pool, Contest!vars, Contest!books, Contest!page, U15
  <2> QED BY <2>1
<1>6. ~(part = "redemptions") /\ ~(part = "codes tab") => [Kept]_allVars
  OBVIOUS
<1> HIDE DEF Kept
<1>7. PartsSpec => [][Kept]_allVars
  BY <1>2, <1>3, <1>4, <1>5, <1>6, RedemptionsPart, CodesTabPart, PTL DEF PartsSpec
<1> QED BY <1>7 DEF RedemptionsAreSound, Kept

\* Users of the older backend are granted what a code, an activity and a registration
\* bring, once.
THEOREM GrantedOnceToAll == PartsSpec => []GrantedOnce
<1>1. Older!NestAccountsAssumption
  BY PartsAssumption
<1>2. Older!Spec => []Older!GrantedOnce
  BY <1>1, Older!GrantedOnceAlways, PTL
<1>3. (part = "nest accounts" => Older!GrantedOnce)
      => GrantedOnce
  BY DEF GrantedOnce
<1> QED BY <1>2, <1>3, AccountsPart, PTL

\* What a task of the older backend has cost follows from its status, on the
\* instance the runs check too.
THEOREM MoneyFollows == PartsSpec => []MoneyFollowsStatus
<1>1. Older!Gen!NestTasksAssumption
  BY PartsAssumption
<1>2. Older!Gen!Spec => []Older!Gen!MoneyFollowsStatus
  BY <1>1, Older!MoneyAlwaysFollows, PTL
<1>3. (part = "nest tasks" => Older!Gen!MoneyFollowsStatus)
      => MoneyFollowsStatus
  BY DEF MoneyFollowsStatus
<1> QED BY <1>2, <1>3, TasksPart, PTL

\* Administrators, of the service and of the older backend, do not lock everybody out
\* but by a race of two.
THEOREM RacesLockOut == PartsSpec => []OnlyRacesLockOut
<1>1. Older!NestAccountsAssumption /\ Pages!Staff!AdministratorsAssumption
  BY PartsAssumption
<1>2. Older!Spec => []Older!OnlyRacesLockOut
  BY <1>1, Older!LockoutsAreRaces, PTL
<1>3. Pages!Staff!Spec => []Pages!Staff!OnlyRacesLockOut
  BY <1>1, Pages!LockoutsAreRaces, PTL
<1>4. /\ part = "nest accounts" => Older!OnlyRacesLockOut
      /\ part = "administrators" => Pages!Staff!OnlyRacesLockOut
      => OnlyRacesLockOut
  BY DEF OnlyRacesLockOut
<1> QED BY <1>2, <1>3, <1>4, AccountsPart, AdministratorsPart, PTL

\* However files are picked, deleted, fetched and submitted, the tray, the payloads and
\* the object URLs agree with the files kept.
THEOREM TrayShows == PartsSpec => []TrayShowsFiles
<1>1. Pages!Tray!ReferencesAssumption
  BY PartsAssumption
<1>2. Pages!Tray!Spec => [](Pages!Tray!TrayShowsFiles /\ Pages!Tray!PayloadCountsFiles /\ Pages!Tray!NoUrlLeaks)
  BY <1>1, Pages!TrayAlwaysTrue, PTL
<1>3. (part = "references" => Pages!Tray!TrayShowsFiles /\ Pages!Tray!PayloadCountsFiles /\ Pages!Tray!NoUrlLeaks)
      => TrayShowsFiles
  BY DEF TrayShowsFiles
<1> QED BY <1>2, <1>3, TrayPart, PTL

\* The console refreshes itself only when it is wanted.
THEOREM TimerWanted == PartsSpec => []TimerIsWanted
<1>1. Console!AdminConsoleAssumption /\ Table!AdminConsoleAssumption
  BY PartsAssumption
<1>2. Console!Spec => []Console!TimerIsWanted
  BY <1>1, Console!DraftsAlwaysSurvive, PTL
<1>3. Table!Spec => []Table!TimerIsWanted
  BY <1>1, Table!DraftsAlwaysSurvive, PTL
<1>4. /\ part = "console" => Console!TimerIsWanted
      /\ part = "channels" => Table!TimerIsWanted
      => TimerIsWanted
  BY DEF TimerIsWanted
<1> QED BY <1>2, <1>3, <1>4, ConsolePart, TablePart, PTL

\* Edits of the gateway table survive whatever happens to other rows.
THEOREM DraftsKept == PartsSpec => DraftsSurvive
<1>1. Console!AdminConsoleAssumption /\ Table!AdminConsoleAssumption
  BY PartsAssumption
<1>2. Console!Spec => [][Console!KeepsDrafts]_(Console!vars)
  BY <1>1, Console!DraftsAlwaysSurvive, PTL DEF Console!DraftsSurvive
<1>3. Table!Spec => [][Table!KeepsDrafts]_(Table!vars)
  BY <1>1, Table!DraftsAlwaysSurvive, PTL DEF Table!DraftsSurvive
<1> DEFINE Kept == /\ part = "console" => Console!KeepsDrafts
                   /\ part = "channels" => Table!KeepsDrafts
<1>4. part = "console" /\ [PartsNext]_allVars /\ [Console!KeepsDrafts]_(Console!vars) => [Kept]_allVars
  <2>1. part = "console" /\ PartsNext /\ UNCHANGED Console!vars => UNCHANGED allVars
    BY DEF PartsNext, allVars, pool, Console!vars, Console!server, Console!refresh, Console!table, Console!bounds
  <2> QED BY <2>1
<1>5. part = "channels" /\ [PartsNext]_allVars /\ [Table!KeepsDrafts]_(Table!vars) => [Kept]_allVars
  <2>1. part = "channels" /\ PartsNext /\ UNCHANGED Table!vars => UNCHANGED allVars
    BY DEF PartsNext, allVars, pool, Table!vars, Table!server, Table!refresh, Table!table, Table!bounds
  <2> QED BY <2>1
<1>6. ~(part = "console") /\ ~(part = "channels") => [Kept]_allVars
  OBVIOUS
<1> HIDE DEF Kept
<1>7. PartsSpec => [][Kept]_allVars
  BY <1>2, <1>3, <1>4, <1>5, <1>6, ConsolePart, TablePart, PTL DEF PartsSpec
<1> QED BY <1>7 DEF DraftsSurvive, Kept

\* A bulk adjustment that ends well has given each selected user its amount once.
THEOREM BulkExact == PartsSpec => BulkIsExact
<1>1. Pages!People!AdminUsersAssumption
  BY PartsAssumption
<1>2. Pages!People!Spec => [][Pages!People!GivesOnce]_(Pages!People!vars)
  BY <1>1, Pages!BulkAlwaysExact, PTL DEF Pages!People!BulkIsExact
<1> DEFINE Kept == part = "users" => Pages!People!GivesOnce
<1>3. part = "users" /\ [PartsNext]_allVars /\ [Pages!People!GivesOnce]_(Pages!People!vars) => [Kept]_allVars
  <2>1. part = "users" /\ PartsNext /\ UNCHANGED Pages!People!vars => UNCHANGED allVars
    BY DEF PartsNext, allVars, pool, Pages!People!vars, Pages!People!bounds
  <2> QED BY <2>1
<1>4. ~(part = "users") => [Kept]_allVars
  OBVIOUS
<1> HIDE DEF Kept
<1>5. PartsSpec => [][Kept]_allVars
  BY <1>2, <1>3, <1>4, PeoplePart, PTL DEF PartsSpec
<1> QED BY <1>5 DEF BulkIsExact, Kept

\* Only real keys of the channel are stored and used.
THEOREM KeysReal == PartsSpec => KeysAreReal
<1>1. Pages!Channel!CallSquareAssumption
  BY PartsAssumption
<1>2. Pages!Channel!Spec => [][Pages!Channel!UsesRealKeys]_(Pages!Channel!vars)
  BY <1>1, Pages!KeysAlwaysReal, PTL DEF Pages!Channel!KeysAreReal
<1> DEFINE Kept == part = "callsquare" => Pages!Channel!UsesRealKeys
<1>3. part = "callsquare" /\ [PartsNext]_allVars /\ [Pages!Channel!UsesRealKeys]_(Pages!Channel!vars) =>
          [Kept]_allVars
  <2>1. part = "callsquare" /\ PartsNext /\ UNCHANGED Pages!Channel!vars => UNCHANGED allVars
    BY DEF PartsNext, allVars, pool, Pages!Channel!vars, Pages!Channel!editor, Pages!Channel!tray,
        Pages!Channel!bounds
  <2> QED BY <2>1
<1>4. ~(part = "callsquare") => [Kept]_allVars
  OBVIOUS
<1> HIDE DEF Kept
<1>5. PartsSpec => [][Kept]_allVars
  BY <1>2, <1>3, <1>4, ChannelPart, PTL DEF PartsSpec
<1> QED BY <1>5 DEF KeysAreReal, Kept

\* What the brief of the options shows is what a generation will use and cost.
THEOREM PriceTrue == PartsSpec => []BriefIsTrue
<1>1. Pages!Options!ComposerAssumption
  BY PartsAssumption
<1>2. Pages!Options!Spec => [](Pages!Options!ShownPriceIsCharged /\ Pages!Options!GatewayIsOffered)
  BY <1>1, Pages!PriceAlwaysTrue, PTL
<1>3. (part = "composer" => Pages!Options!ShownPriceIsCharged /\ Pages!Options!GatewayIsOffered)
      => BriefIsTrue
  BY DEF BriefIsTrue
<1> QED BY <1>2, <1>3, ComposerPart, PTL

\* A warning is acknowledged only when it was shown, and its dialog can be closed.
THEOREM WarningsRead == PartsSpec => []WarningsAreRead
<1>1. Pages!Warning!AccountWarningsAssumption
  BY PartsAssumption
<1>2. Pages!Warning!Spec => [](Pages!Warning!AcknowledgedWasShown /\ Pages!Warning!DialogCanBeAnswered)
  BY <1>1, Pages!WarningsAlwaysRead, PTL
<1>3. (part = "warnings" => Pages!Warning!AcknowledgedWasShown /\ Pages!Warning!DialogCanBeAnswered)
      => WarningsAreRead
  BY DEF WarningsAreRead
<1> QED BY <1>2, <1>3, WarningsPart, PTL

\* The lists of credit entries have no gap, the gallery shows the page of its pager, and
\* the rules tab does to the rules what its buttons and its box say.
THEOREM PagesTrue == PartsSpec => []PagesAreTrue
<1>1. /\ Pages!Credits!CreditsViewAssumption
      /\ Pages!Gallery!AdminGalleryAssumption
      /\ Pages!RulesTab!AdminRulesAssumption
  BY PartsAssumption
<1>2. Pages!Credits!Spec => [](Pages!Credits!NoEntrySkippedInTab /\ Pages!Credits!NoEntrySkippedInDrawer)
  BY <1>1, Pages!CreditsAlwaysWhole, PTL
<1>3. Pages!Gallery!Spec => []Pages!Gallery!PagerIsTrue
  BY <1>1, Pages!PagerAlwaysTrue, PTL
<1>4. Pages!RulesTab!Spec => [](Pages!RulesTab!ButtonsAreTrue /\ Pages!RulesTab!ReplacedOncePerTick)
  BY <1>1, Pages!ButtonsAlwaysTrue, PTL
<1>5. /\ part = "credits" => Pages!Credits!NoEntrySkippedInTab /\ Pages!Credits!NoEntrySkippedInDrawer
      /\ part = "gallery" => Pages!Gallery!PagerIsTrue
      /\ part = "rules tab" => Pages!RulesTab!ButtonsAreTrue /\ Pages!RulesTab!ReplacedOncePerTick
      => PagesAreTrue
  BY DEF PagesAreTrue
<1> QED BY <1>2, <1>3, <1>4, <1>5, CreditsPart, GalleryPart, RulesTabPart, PTL

\* The page announces no more completions than tasks were submitted, also when requests
\* fail and users change, and while it waits for a job that it lists as pending it has not
\* stopped to ask for it.
THEOREM PageWaits == PartsSpec => []PageKeepsWaiting
<1>1. /\ WorkspaceAssumption /\ Undisturbed
      /\ Failing!WorkspaceAssumption
      /\ Switching!WorkspaceAssumption
  BY PartsAssumption DEF Undisturbed
<1>2. Spec => [](ToastsAreCovered /\ WaitingIsPolling)
  BY <1>1, ToastsAlwaysCovered, WaitingAlwaysPolls, PTL
<1>3. Failing!Spec => []Failing!ToastsAreCovered
  BY <1>1, Failing!ToastsAlwaysCovered, PTL
<1>4. Switching!Spec => []Switching!ToastsAreCovered
  BY <1>1, Switching!ToastsAlwaysCovered, PTL
<1>5. /\ part = "page" => ToastsAreCovered /\ WaitingIsPolling
      /\ part = "failing page" => Failing!ToastsAreCovered
      /\ part = "switching page" => Switching!ToastsAreCovered
      => PageKeepsWaiting
  BY DEF PageKeepsWaiting
<1> QED BY <1>2, <1>3, <1>4, <1>5, PagePart, FailingPart, SwitchingPart, PTL
-----------------------------------------------------------------------------
(* The types *)

(* The types of the pages of the workspace *)
WorkspaceTypes ==
  /\ part = "page" => TypeOK
  /\ part = "failing page" => Failing!TypeOK
  /\ part = "switching page" => Switching!TypeOK
  /\ part = "composer" => Pages!Options!TypeOK
  /\ part = "references" => Pages!Tray!TypeOK
  /\ part = "warnings" => Pages!Warning!TypeOK
  /\ part = "credits" => Pages!Credits!TypeOK

\* They hold throughout.
LEMMA WorkspaceTyped == PartsSpec => []WorkspaceTypes
<1>1. /\ WorkspaceAssumption
      /\ Failing!WorkspaceAssumption
      /\ Switching!WorkspaceAssumption
      /\ Pages!Options!ComposerAssumption
      /\ Pages!Tray!ReferencesAssumption
      /\ Pages!Warning!AccountWarningsAssumption
      /\ Pages!Credits!CreditsViewAssumption
  BY PartsAssumption
<1>2. PartsSpec => [](part = "page" => TypeOK)
  BY <1>1, PagePart, WorkspaceTypeCorrect, PTL
<1>3. PartsSpec => [](part = "failing page" => Failing!TypeOK)
  BY <1>1, FailingPart, Failing!WorkspaceTypeCorrect, PTL
<1>4. PartsSpec => [](part = "switching page" => Switching!TypeOK)
  BY <1>1, SwitchingPart, Switching!WorkspaceTypeCorrect, PTL
<1>5. PartsSpec => [](part = "composer" => Pages!Options!TypeOK)
  BY <1>1, ComposerPart, Pages!PriceAlwaysTrue, PTL
<1>6. PartsSpec => [](part = "references" => Pages!Tray!TypeOK)
  BY <1>1, TrayPart, Pages!TrayAlwaysTrue, PTL
<1>7. PartsSpec => [](part = "warnings" => Pages!Warning!TypeOK)
  BY <1>1, WarningsPart, Pages!WarningsAlwaysRead, PTL
<1>8. PartsSpec => [](part = "credits" => Pages!Credits!TypeOK)
  BY <1>1, CreditsPart, Pages!CreditsAlwaysWhole, PTL
<1> QED BY <1>2, <1>3, <1>4, <1>5, <1>6, <1>7, <1>8, PTL DEF WorkspaceTypes

(* The types of the pages of administrators, the channel and who administers *)
AdministrationTypes ==
  /\ part = "console" => Console!TypeOK
  /\ part = "channels" => Table!TypeOK
  /\ part = "users" => Pages!People!TypeOK
  /\ part = "gallery" => Pages!Gallery!TypeOK
  /\ part = "rules tab" => Pages!RulesTab!TypeOK
  /\ part = "callsquare" => Pages!Channel!TypeOK
  /\ part = "administrators" => Pages!Staff!TypeOK

\* They hold throughout.
LEMMA AdministrationTyped == PartsSpec => []AdministrationTypes
<1>1. /\ Console!AdminConsoleAssumption
      /\ Table!AdminConsoleAssumption
      /\ Pages!People!AdminUsersAssumption
      /\ Pages!Gallery!AdminGalleryAssumption
      /\ Pages!RulesTab!AdminRulesAssumption
      /\ Pages!Channel!CallSquareAssumption
      /\ Pages!Staff!AdministratorsAssumption
  BY PartsAssumption
<1>2. PartsSpec => [](part = "console" => Console!TypeOK)
  BY <1>1, ConsolePart, Console!DraftsAlwaysSurvive, PTL
<1>3. PartsSpec => [](part = "channels" => Table!TypeOK)
  BY <1>1, TablePart, Table!DraftsAlwaysSurvive, PTL
<1>4. PartsSpec => [](part = "users" => Pages!People!TypeOK)
  BY <1>1, PeoplePart, Pages!BulkAlwaysExact, PTL
<1>5. PartsSpec => [](part = "gallery" => Pages!Gallery!TypeOK)
  BY <1>1, GalleryPart, Pages!PagerAlwaysTrue, PTL
<1>6. PartsSpec => [](part = "rules tab" => Pages!RulesTab!TypeOK)
  BY <1>1, RulesTabPart, Pages!ButtonsAlwaysTrue, PTL
<1>7. PartsSpec => [](part = "callsquare" => Pages!Channel!TypeOK)
  BY <1>1, ChannelPart, Pages!KeysAlwaysReal, PTL
<1>8. PartsSpec => [](part = "administrators" => Pages!Staff!TypeOK)
  BY <1>1, AdministratorsPart, Pages!LockoutsAreRaces, PTL
<1> QED BY <1>2, <1>3, <1>4, <1>5, <1>6, <1>7, <1>8, PTL DEF AdministrationTypes

(* The types of the older backend and the service *)
BackendTypes ==
  /\ part = "nest tasks" => Older!Gen!TypeOK
  /\ part = "nest accounts" => Older!TypeOK
  /\ part = "redemptions" => Service!TypeOK
  /\ part = "codes tab" => Contest!TypeOK
  /\ part = "rules" => Service!Filter!TypeOK
  /\ part = "gateways" => Service!Health!TypeOK
  /\ part = "contested gateways" => Contest!Health!TypeOK

\* They hold throughout.
LEMMA BackendTyped == PartsSpec => []BackendTypes
<1>1. /\ Older!Gen!NestTasksAssumption
      /\ Older!NestAccountsAssumption
      /\ Service!RedemptionAssumption
      /\ Contest!RedemptionAssumption
      /\ Service!Filter!SensitiveRulesAssumption
      /\ Service!Health!GatewayHealthAssumption
      /\ Contest!Health!GatewayHealthAssumption
  BY PartsAssumption
<1>2. PartsSpec => [](part = "nest tasks" => Older!Gen!TypeOK)
  BY <1>1, TasksPart, Older!TasksTypeCorrect, PTL
<1>3. PartsSpec => [](part = "nest accounts" => Older!TypeOK)
  BY <1>1, AccountsPart, Older!TypeCorrect, PTL
<1>4. PartsSpec => [](part = "redemptions" => Service!TypeOK)
  BY <1>1, RedemptionsPart, Service!RedemptionTypeCorrect, PTL
<1>5. PartsSpec => [](part = "codes tab" => Contest!TypeOK)
  BY <1>1, CodesTabPart, Contest!RedemptionTypeCorrect, PTL
<1>6. PartsSpec => [](part = "rules" => Service!Filter!TypeOK)
  BY <1>1, RulesPart, Service!FilterTypeCorrect, PTL
<1>7. PartsSpec => [](part = "gateways" => Service!Health!TypeOK)
  BY <1>1, GatewaysPart, Service!GatewayTypeCorrect, PTL
<1>8. PartsSpec => [](part = "contested gateways" => Contest!Health!TypeOK)
  BY <1>1, ContestedPart, Contest!GatewayTypeCorrect, PTL
<1> QED BY <1>2, <1>3, <1>4, <1>5, <1>6, <1>7, <1>8, PTL DEF BackendTypes

\* Every part has its types throughout: whatever the browser, the service and the older
\* backend do, no step of theirs leaves the values that the properties are about.
THEOREM PartsTypeCorrect == PartsSpec => []PartsTypeOK
<1>1. WorkspaceTypes /\ AdministrationTypes /\ BackendTypes => PartsTypeOK
  BY DEF WorkspaceTypes, AdministrationTypes, BackendTypes, PartsTypeOK
<1> QED BY <1>1, WorkspaceTyped, AdministrationTyped, BackendTyped, PTL
==============================================================================
