------------------------------ MODULE Composer ------------------------------
(***************************************************************************)
(* The options of the composer (public/script.js): ratio, quality, number  *)
(* of images and gateway; the brief that names their price; the draft in   *)
(* localStorage that a reload restores; and the list of gateways, which    *)
(* arrives when it arrives.  What the service charges for the payload is   *)
(* ImageService's: normalizeSize and the unit costs of createTask.         *)
(***************************************************************************)
EXTENDS Naturals, Sequences, SequencesExt

CONSTANTS
  Gateways, NoGateway,
  Price,        \* Price[g]: costCredits of a gateway
  Offers,       \* the lists a user may be offered, by priority
  Typed,        \* what is typed into the field for the number of images
  NeverSaved,
  MaxLoads      \* bound of the model on requests for the list under way

(* What is assumed of the constants, by the module that gives their values *)
ComposerAssumption ==
  /\ NoGateway \notin Gateways
  /\ Price \in [Gateways -> Nat]
  /\ Offers \subseteq Seq(Gateways)
  /\ Typed \subseteq Nat
  /\ MaxLoads \in Nat

Ratios == {"auto", "1:1", "9:16", "16:9"}   \* auto is 自动 in the state, Auto on its tile
Qualities == {"2k", "4k"}
CountButtons == 1..4
MaxGenerationCount == 20

VARIABLES
  signedIn,
  ratio, quality, count, gateway,
  options,    \* gateways of the options that are shown
  brief,      \* what the brief shows: the choice and its price
  draft,      \* localStorage, NeverSaved at the first visit
  loads       \* requests for the list under way

choice == <<ratio, quality, count, gateway>>
vars == <<signedIn, choice, options, brief, draft, loads>>

-----------------------------------------------------------------------------
(* The service *)

Square(r) == r \in {"auto", "1:1"}

NormalizeSize(r, q) ==
  IF Square(r) THEN "2048x2048"
  ELSE IF q = "4k" THEN (IF r = "16:9" THEN "3840x2160" ELSE "2160x3840")
  ELSE (IF r = "16:9" THEN "2048x1152" ELSE "1152x2048")

AtLeast(n, bound) == IF n < bound THEN bound ELSE n
AtMost(n, bound) == IF n > bound THEN bound ELSE n

UnitCost(size, g) ==
  CASE size \in {"3840x2160", "2160x3840"} -> 8
    [] size \in {"2048x2048", "2048x1152", "1152x2048"} -> 6
    [] OTHER -> AtLeast(Price[g], 1)

NormalizeImageCount(n) == AtLeast(AtMost(n, 20), 1)

Charge(p) == UnitCost(NormalizeSize(p.ratio, p.quality), p.gateway) * NormalizeImageCount(p.count)

-----------------------------------------------------------------------------
(* The page *)

NormalizeCount(n) == IF n < 1 THEN 1 ELSE AtMost(n, MaxGenerationCount)

EstimateCost(q, n) == (IF q = "4k" THEN 8 ELSE 6) * NormalizeCount(n)

(* createGeneratePayload *)
Payload == [ratio |-> ratio, quality |-> quality, count |-> NormalizeCount(count), gateway |-> gateway]

(* updateTask *)
Brief(r, q, n) == [ratio |-> r, quality |-> q, cost |-> EstimateCost(q, n)]

Draft(r, q, n, g) == [ratio |-> r, quality |-> q, count |-> NormalizeCount(n), gateway |-> g]

Saved == draft' = Draft(ratio', quality', count', gateway')
Shown == brief' = Brief(ratio', quality', count')

(* enforceQualityRatioCompat: a square is not available in 4k *)
(* Variant: only the explicit square is refused. *)
Compatible_OnlySquare(r, q) == IF q = "4k" /\ r = "1:1" THEN "2k" ELSE q

Compatible(r, q) == IF q = "4k" /\ Square(r) THEN "2k" ELSE q

(* What renderModelOptions may select: the gateway chosen before if it is   *)
(* shown, none when a user is offered none, the first otherwise; without a  *)
(* user it goes by the model and may take any.                              *)
Selectable(list, g) ==
  IF list = <<>> THEN {NoGateway}
  ELSE IF Contains(list, g) THEN {g}
  ELSE IF signedIn THEN {Head(list)}
  ELSE ToSet(list)

RenderModelOptions(list) ==
  /\ options' = list
  /\ gateway' \in Selectable(list, gateway)

-----------------------------------------------------------------------------

Init ==
  /\ signedIn = FALSE
  /\ ratio = "auto" /\ quality = "2k" /\ count = 1 /\ gateway = NoGateway
  /\ options = <<>>
  /\ brief = Brief("auto", "2k", 1)
  /\ draft = NeverSaved
  /\ loads = 0

ClickRatio(r) ==
  /\ ratio' = r
  /\ quality' = Compatible(r, quality)
  /\ UNCHANGED <<count, gateway>>
  /\ Shown /\ Saved
  /\ UNCHANGED <<signedIn, options, loads>>

ClickQuality(q) ==
  /\ quality' = Compatible(ratio, q)
  /\ UNCHANGED <<ratio, count, gateway>>
  /\ Shown /\ Saved
  /\ UNCHANGED <<signedIn, options, loads>>

ClickCount(n) ==
  /\ count' = n
  /\ UNCHANGED <<ratio, quality, gateway>>
  /\ Shown /\ Saved
  /\ UNCHANGED <<signedIn, options, loads>>

TypeCount(v) ==
  /\ v >= 1
  /\ count' = NormalizeCount(v)
  /\ UNCHANGED <<ratio, quality, gateway>>
  /\ Shown /\ Saved
  /\ UNCHANGED <<signedIn, options, loads>>

ClickModel(i) ==
  /\ i \in DOMAIN options
  /\ gateway' = options[i]
  /\ UNCHANGED <<ratio, quality, count>>
  /\ Shown /\ Saved
  /\ UNCHANGED <<signedIn, options, loads>>

(* Of a login, or of the first load with a session: the list is asked for. *)
SignIn ==
  /\ ~signedIn /\ loads < MaxLoads
  /\ signedIn' = TRUE
  /\ loads' = loads + 1
  /\ UNCHANGED <<choice, options, brief, draft>>

RefreshAccount ==
  /\ signedIn /\ loads < MaxLoads
  /\ loads' = loads + 1
  /\ UNCHANGED <<signedIn, choice, options, brief, draft>>

(* Without a user nothing is asked, and the built-in option has no gateway. *)
SignOut ==
  /\ signedIn
  /\ signedIn' = FALSE
  /\ options' = <<>>
  /\ gateway' = NoGateway
  /\ UNCHANGED <<ratio, quality, count, draft, loads>>
  /\ Shown

(* A list that was asked for earlier is shown even when the user has gone. *)
GatewaysArrive ==
  /\ loads > 0
  /\ loads' = loads - 1
  /\ \E list \in Offers : RenderModelOptions(list)
  /\ UNCHANGED <<signedIn, ratio, quality, count, draft>>
  /\ Shown

(* What was offered last is shown again. *)
GatewaysFail ==
  /\ loads > 0
  /\ loads' = loads - 1
  /\ RenderModelOptions(options)
  /\ UNCHANGED <<signedIn, ratio, quality, count, draft>>
  /\ Shown

(* restoreWorkspaceState after a load: nothing is shown as offered yet *)
Reload ==
  /\ IF draft = NeverSaved
     THEN ratio' = "auto" /\ quality' = "2k" /\ count' = 1 /\ gateway' = NoGateway /\ UNCHANGED draft
     ELSE /\ ratio' = draft.ratio /\ quality' = draft.quality
          /\ count' = NormalizeCount(draft.count) /\ gateway' = draft.gateway
          /\ Saved
  /\ signedIn' = FALSE /\ options' = <<>> /\ loads' = 0
  /\ Shown

Next ==
  \/ \E r \in Ratios : ClickRatio(r)
  \/ \E q \in Qualities : ClickQuality(q)
  \/ \E n \in CountButtons : ClickCount(n)
  \/ \E v \in Typed : TypeCount(v)
  \/ \E i \in 1..Len(options) : ClickModel(i)
  \/ SignIn \/ RefreshAccount \/ SignOut
  \/ GatewaysArrive \/ GatewaysFail
  \/ Reload

Spec == Init /\ [][Next]_vars

-----------------------------------------------------------------------------
(* Properties *)

Drafts ==
  [ratio : Ratios, quality : Qualities, count : 1..MaxGenerationCount, gateway : Gateways \cup {NoGateway}]

(* Every option keeps to the values the page offers; the number of images   *)
(* stays within 1 to 20 whatever is typed or restored (normalizeCount).     *)
TypeOK ==
  /\ signedIn \in BOOLEAN
  /\ ratio \in Ratios /\ quality \in Qualities
  /\ count \in 1..MaxGenerationCount
  /\ gateway \in Gateways \cup {NoGateway}
  /\ options \in Seq(Gateways)
  /\ draft \in Drafts \cup {NeverSaved}
  /\ loads \in 0..MaxLoads

(* The price in the brief is what the service charges for the payload that  *)
(* would be sent now: the page's table (8 or 6 by quality) and the          *)
(* service's (8 or 6 by size, with no 4k square) agree because the page     *)
(* never keeps 4k with a square, a restored draft included.                 *)
ShownPriceIsCharged ==
  signedIn /\ gateway # NoGateway => brief.cost = Charge(Payload)

(* Once the lists that were asked for are in, the gateway that would be     *)
(* used is one of those shown, whatever order they came in and whatever     *)
(* draft was restored (renderModelOptions).                                 *)
GatewayIsOffered ==
  signedIn /\ loads = 0 /\ gateway # NoGateway => Contains(options, gateway)
=============================================================================
