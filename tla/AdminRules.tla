----------------------------- MODULE AdminRules -----------------------------
(***************************************************************************)
(* The rules tab of the administrators' console (public/admin.js): the     *)
(* table of rules with an input and three buttons per row, the form that   *)
(* imports rules and may disable all others first, and the load that       *)
(* refreshes the list.  Every rendering makes new rows: what was typed in  *)
(* them is gone, and buttons that were disabled by a call are not.  The    *)
(* session is in AdminConsole.                                             *)
(***************************************************************************)
EXTENDS Naturals, FiniteSets, Functions

CONSTANTS
  Rules, Earlier,  \* ids of rules, and those there are at the beginning
  Texts,           \* patterns
  MaxClicks,       \* bound of the model on what the administrator does
  MaxOthers,       \* bound of the model on what others do to the rules
  MaxErrors        \* bound of the model on calls that fail

(* What is assumed of the constants, by the module that gives their values *)
AdminRulesAssumption ==
  /\ Earlier \subseteq Rules /\ Cardinality(Earlier) <= Cardinality(Texts)
  /\ MaxClicks \in Nat /\ MaxOthers \in Nat /\ MaxErrors \in Nat

VARIABLES
  stored, unmade,    \* server: the rules there are, and ids that are not given yet
  list,              \* state.sensitiveRules
  rows, rendered,    \* the rows as they were rendered and typed in, and when
  filter,
  replace,           \* the box of the form
  net, load, configured,
  ticks, replaced,   \* history: how often the box was ticked, and replacements confirmed
  clicks, others, errors

server == <<stored, unmade>>
page == <<list, rows, rendered, filter, replace>>
loading == <<load, configured>>
history == <<ticks, replaced>>
vars == <<server, page, net, loading, history, clicks, others, errors>>

-----------------------------------------------------------------------------
NoLoad == [stage |-> "none", answer |-> <<>>]
NoCall == [id |-> 0, kind |-> "import", rule |-> "none", text |-> "none", enabled |-> TRUE, replace |-> FALSE,
           stage |-> "sent", answer |-> <<>>]

(* renderSensitiveRules with the filter of the status *)
Filtered(rules, status) ==
  RestrictValues(rules, LAMBDA rule : status = "all" \/ rule.enabled = (status = "enabled"))

Render(rules, status) ==
  /\ rows' = Filtered(rules, status)
  /\ rendered' = clicks

(* withBusy disables the button that was clicked, until the answer or until *)
(* the row is rendered anew.                                                *)
Busy(r, kind) == \E c \in net : c.rule = r /\ c.kind = kind /\ c.id > rendered
Importing == \E c \in net : c.kind = "import"

(* The page some time after its first load, with the settings of the call  *)
(* square loaded or not                                                     *)
Init ==
  /\ stored \in [Earlier -> [text : Texts, enabled : BOOLEAN]]
  /\ \A r, s \in Earlier : r # s => stored[r].text # stored[s].text
  /\ unmade = Rules \ Earlier
  /\ list = stored /\ rows = stored /\ rendered = 0
  /\ filter = "all" /\ replace = FALSE
  /\ net = {} /\ load = NoLoad /\ configured \in BOOLEAN
  /\ ticks = 0 /\ replaced = 0
  /\ clicks = 0 /\ others = 0 /\ errors = 0

-----------------------------------------------------------------------------
(* The service *)

TextTaken(text, except) == \E r \in DOMAIN stored \ except : stored[r].text = text

Enabled(rule, enabled) == [rule EXCEPT !.enabled = enabled]

(* batchConfigure *)
Configure(text, replaces) ==
  LET kept == [r \in DOMAIN stored |->
                 IF stored[r].text = text THEN Enabled(stored[r], TRUE)
                 ELSE Enabled(stored[r], stored[r].enabled /\ ~replaces)]
  IN  IF TextTaken(text, {}) THEN stored' = kept /\ UNCHANGED unmade
      ELSE \E r \in unmade :
             /\ stored' = [s \in DOMAIN kept \cup {r} |-> IF s = r THEN [text |-> text, enabled |-> TRUE] ELSE kept[s]]
             /\ unmade' = unmade \ {r}

Move(c, next) == net' = (net \ {c}) \cup next

ServeImport(c) ==
  /\ c.kind = "import" /\ c.stage = "sent"
  /\ Configure(c.text, c.replace)
  /\ Move(c, {[c EXCEPT !.stage = "answered", !.answer = stored']})
  /\ UNCHANGED <<page, loading, history, clicks, others, errors>>

(* patchRule and deleteRule: 404 for a rule that has gone, 409 for a text   *)
(* that another rule has.                                                   *)
Refuses(c) == c.rule \notin DOMAIN stored \/ (c.kind = "save" /\ TextTaken(c.text, {c.rule}))

Patched(c) ==
  CASE c.kind = "save" -> [stored EXCEPT ![c.rule].text = c.text]
    [] c.kind = "toggle" -> [stored EXCEPT ![c.rule].enabled = c.enabled]
    [] c.kind = "delete" -> Restrict(stored, DOMAIN stored \ {c.rule})

Serve(c) ==
  /\ c.kind # "import" /\ c.stage = "sent"
  /\ stored' = IF Refuses(c) THEN stored ELSE Patched(c)
  /\ Move(c, {[c EXCEPT !.stage = IF Refuses(c) THEN "refused" ELSE "answered",
                        !.answer = IF Refuses(c) \/ c.kind = "delete" THEN <<>> ELSE stored'[c.rule]]})
  /\ UNCHANGED <<unmade, page, loading, history, clicks, others, errors>>

ServeLoad ==
  /\ load.stage = "sent"
  /\ load' = [stage |-> "answered", answer |-> stored]
  /\ UNCHANGED <<server, page, net, configured, history, clicks, others, errors>>

(* A call fails before it is served, or its answer is lost. *)
Lose ==
  /\ errors < MaxErrors /\ errors' = errors + 1
  /\ \/ /\ \E c \in net : c.stage \in {"sent", "answered"} /\ Move(c, {[c EXCEPT !.stage = "refused"]})
        /\ UNCHANGED load
     \/ /\ load.stage \in {"sent", "answered"} /\ load' = NoLoad
        /\ UNCHANGED net
  /\ UNCHANGED <<server, page, configured, history, clicks, others>>

(* Another administrator *)
Other ==
  /\ others < MaxOthers /\ others' = others + 1
  /\ \E r \in DOMAIN stored :
       stored' \in {Restrict(stored, DOMAIN stored \ {r}), [stored EXCEPT ![r].enabled = ~@]}
  /\ UNCHANGED <<unmade, page, net, loading, history, clicks, errors>>

-----------------------------------------------------------------------------
(* The continuations of the handlers *)

(* The list is changed and rendered together. *)
Show(rules) == list' = rules /\ Render(rules, filter)

Imported(c) ==
  /\ c.kind = "import" /\ c.stage = "answered"
  /\ Show(c.answer)
  /\ replace' = FALSE
  /\ replaced' = replaced + (IF c.replace THEN 1 ELSE 0)
  /\ Move(c, {})
  /\ UNCHANGED <<server, filter, loading, ticks, clicks, others, errors>>

(* upsertById, or the rule leaves the list *)
Changed(c) ==
  /\ c.kind # "import" /\ c.stage = "answered"
  /\ Show(IF c.kind = "delete" THEN Restrict(list, DOMAIN list \ {c.rule})
          ELSE [r \in DOMAIN list \cup {c.rule} |-> IF r = c.rule THEN c.answer ELSE list[r]])
  /\ Move(c, {})
  /\ UNCHANGED <<server, filter, replace, loading, history, clicks, others, errors>>

(* An error is told, and the page stays as it is. *)
Refused(c) ==
  /\ c.stage = "refused"
  /\ Move(c, {})
  /\ UNCHANGED <<server, page, loading, history, clicks, others, errors>>

(* loadAll takes over all lists, and waits once more, for the settings of   *)
(* the call square, before it renders them.                                 *)
Loaded ==
  /\ load.stage = "answered"
  /\ list' = load.answer
  /\ IF configured THEN load' = NoLoad /\ Render(list', filter)
     ELSE load' = [NoLoad EXCEPT !.stage = "config"] /\ UNCHANGED <<rows, rendered>>
  /\ UNCHANGED <<server, filter, replace, net, configured, history, clicks, others, errors>>

LoadEnds ==
  /\ load.stage = "config"
  /\ configured' \in BOOLEAN
  /\ load' = NoLoad
  /\ Render(list, filter)
  /\ UNCHANGED <<server, list, filter, replace, net, history, clicks, others, errors>>

-----------------------------------------------------------------------------
(* The administrator *)

Click == clicks < MaxClicks /\ clicks' = clicks + 1 /\ UNCHANGED <<server, others, errors>>

Send(call) == net' = net \cup {[call EXCEPT !.id = clicks']}

Tick ==
  /\ Click
  /\ replace' = ~replace
  /\ ticks' = ticks + (IF replace THEN 0 ELSE 1)
  /\ UNCHANGED <<list, rows, rendered, filter, net, loading, replaced>>

Import(text) ==
  /\ Click /\ ~Importing
  /\ Send([NoCall EXCEPT !.text = text, !.replace = replace])
  /\ UNCHANGED <<page, loading, history>>

Type(r, text) ==
  /\ Click /\ rows[r].text # text
  /\ rows' = [rows EXCEPT ![r].text = text]
  /\ UNCHANGED <<list, rendered, filter, replace, net, loading, history>>

(* The row's buttons do nothing once its rule has left the list.            *)
Press(r, call) ==
  /\ Click /\ r \in DOMAIN list /\ ~Busy(r, call.kind)
  /\ Send([call EXCEPT !.rule = r])
  /\ UNCHANGED <<page, loading, history>>

Save(r) == Press(r, [NoCall EXCEPT !.kind = "save", !.text = rows[r].text])
Toggle(r) == Press(r, [NoCall EXCEPT !.kind = "toggle", !.enabled = ~list[r].enabled])
Delete(r) == Press(r, [NoCall EXCEPT !.kind = "delete"])

Filter(status) ==
  /\ Click /\ status # filter
  /\ filter' = status
  /\ Render(list, status)
  /\ UNCHANGED <<list, replace, net, loading, history>>

(* Refresh, by a click or by the timer; callers join a load under way.      *)
Refresh ==
  /\ Click /\ load = NoLoad
  /\ load' = [NoLoad EXCEPT !.stage = "sent"]
  /\ UNCHANGED <<page, net, configured, history>>

(* renderAll for a change of another table *)
Elsewhere ==
  /\ Click
  /\ Render(list, filter)
  /\ UNCHANGED <<list, filter, replace, net, loading, history>>

Next ==
  \/ ServeLoad \/ Lose \/ Other \/ Loaded \/ LoadEnds
  \/ \E c \in net : ServeImport(c) \/ Serve(c) \/ Imported(c) \/ Changed(c) \/ Refused(c)
  \/ Tick \/ Refresh \/ Elsewhere
  \/ \E text \in Texts : Import(text)
  \/ \E r \in DOMAIN rows : Save(r) \/ Toggle(r) \/ Delete(r) \/ \E text \in Texts : Type(r, text)
  \/ \E status \in {"all", "enabled", "disabled"} : Filter(status)

Spec == Init /\ [][Next]_vars

-----------------------------------------------------------------------------
(* Properties *)

RuleTables == UNION {[S -> [text : Texts, enabled : BOOLEAN]] : S \in SUBSET Rules}

(* The rules, the list, the rows and the calls. *)
TypeOK ==
  /\ stored \in RuleTables /\ DOMAIN stored \cap unmade = {}
  /\ list \in RuleTables /\ rows \in RuleTables
  /\ filter \in {"all", "enabled", "disabled"} /\ replace \in BOOLEAN
  /\ load.stage \in {"none", "sent", "answered", "config"}
  /\ \A c \in net : c.stage \in {"sent", "answered", "refused"} /\ c.id \in 1..clicks

(* A row is in the list and its button says what the click will do, whatever *)
(* was loaded, saved, filtered and deleted since; except while a load waits  *)
(* for the settings of the call square with a list that is not shown yet     *)
(* (toggle-sensitive-rule sends the opposite of the list's value).           *)
ButtonsAreTrue ==
  load.stage # "config" =>
    \A r \in DOMAIN rows : r \in DOMAIN list /\ rows[r].enabled = list[r].enabled

(* Ticking the box once disables the other rules by one import at most, of  *)
(* those that are confirmed; the box is off again afterwards.               *)
ReplacedOncePerTick == replaced + (IF replace THEN 1 ELSE 0) <= ticks
=============================================================================
