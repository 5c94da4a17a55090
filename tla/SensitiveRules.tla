---------------------------- MODULE SensitiveRules ----------------------------
(***************************************************************************)
(* The rules that prompts are checked by (SensitiveWordService): the rows  *)
(* of SensitiveWordRule, the transactions that change them, and the list   *)
(* of compiled rules that one instance keeps for some seconds.  The list   *)
(* and the time of its loading are two volatile fields: each is read and   *)
(* written in a step of its own, and only loading is synchronized.  A rule *)
(* stands for its pattern, which is unique; a prompt for the rule that it  *)
(* matches.                                                                *)
(***************************************************************************)
EXTENDS Naturals, FiniteSets

CONSTANTS
  Rules, NoRule,
  Kept,        \* the rules that are enabled and that no administrator touches
  Checks,      \* threads of the instance that check prompts
  Nobody,
  Changes,     \* administrators' requests
  MaxChanges   \* bound of the model on the changes that begin

(* What is assumed of the constants, by the module that gives their values *)
SensitiveRulesAssumption ==
  NoRule \notin Rules /\ Kept \subseteq Rules /\ Nobody \notin Checks /\ MaxChanges \in Nat

VARIABLES
  stored,      \* the committed rows
  changing,    \* the transactions under way
  activeRules,
  loaded,      \* activeRulesLoadedAt: in its time to live, past it, or 0
  monitor,     \* the thread in the synchronized block
  checking,    \* the threads that check a prompt
  emptied,     \* history: a new list was thrown away and its time kept
  changes      \* changes that have begun

rows == <<stored, changing, changes>>
cache == <<activeRules, loaded, monitor, emptied>>
vars == <<rows, cache, checking>>

States == {"enabled", "disabled", "absent"}
Enabled == {r \in Rules : stored[r] = "enabled"}

NoChange == [pc |-> "idle", here |-> FALSE, writes |-> <<>>]
NoCheck == [pc |-> "idle", prompt |-> NoRule, list |-> {}, early |-> FALSE, torn |-> FALSE]

Init ==
  /\ stored \in [Rules -> {"enabled", "disabled"}]
  /\ \A r \in Kept : stored[r] = "enabled"
  /\ changing = [a \in Changes |-> NoChange]
  /\ activeRules = {} /\ loaded = "never"
  /\ monitor = Nobody
  /\ checking = [c \in Checks |-> NoCheck]
  /\ emptied = FALSE /\ changes = 0

-----------------------------------------------------------------------------
(* batchConfigure, patchRule, deleteRule: the cache is invalidated inside   *)
(* of the transaction.  A change that another instance serves does not      *)
(* reach this cache.                                                        *)

Writing(r) == \E a \in Changes : r \in DOMAIN changing[a].writes

(* The rows that UPDATE, INSERT and DELETE touch are locked until the end.  *)
Begin(a, here, writes) ==
  /\ changing[a].pc = "idle" /\ changes < MaxChanges
  /\ \A r \in DOMAIN writes : ~Writing(r)
  /\ changing' = [changing EXCEPT ![a] = [pc |-> "written", here |-> here, writes |-> writes]]
  /\ changes' = changes + 1
  /\ UNCHANGED <<stored, cache, checking>>

(* With replace every other rule is disabled first. *)
BatchConfigure(a, here, patterns, replace) ==
  Begin(a, here, [r \in patterns \cup (IF replace THEN {x \in Rules \ Kept : stored[x] # "absent"} ELSE {}) |->
                    IF r \in patterns THEN "enabled" ELSE "disabled"])

(* What it does not change it writes as it has read it: another change may  *)
(* come between, and a row that has gone meanwhile stays away.              *)
ReadRule(a, here, r, enabled) ==
  /\ changing[a].pc = "idle" /\ changes < MaxChanges
  /\ stored[r] # "absent"
  /\ changing' = [changing EXCEPT ![a] =
       [pc |-> "read", here |-> here, writes |-> <<>>, rule |-> r,
        next |-> IF enabled = "kept" THEN stored[r] ELSE enabled]]
  /\ changes' = changes + 1
  /\ UNCHANGED <<stored, cache, checking>>

PatchRule(a) ==
  LET change == changing[a]
  IN  /\ change.pc = "read" /\ ~Writing(change.rule)
      /\ changing' = [changing EXCEPT ![a] =
           [pc |-> "written", here |-> change.here,
            writes |-> IF stored[change.rule] = "absent" THEN <<>>
                       ELSE [r \in {change.rule} |-> change.next]]]
      /\ UNCHANGED <<stored, changes, cache, checking>>

DeleteRule(a, here, r) ==
  stored[r] # "absent" /\ Begin(a, here, [x \in {r} |-> "absent"])

(* invalidateCache: first the time, then the list. *)
InvalidateTime(a) ==
  /\ changing[a].pc = "written" /\ changing[a].here
  /\ loaded' = "never"
  /\ changing' = [changing EXCEPT ![a].pc = "untimed"]
  /\ UNCHANGED <<stored, changes, activeRules, monitor, emptied, checking>>

(* Whoever has read the list and not yet its time now mixes two lists.      *)
Torn(writer) ==
  [c \in Checks |-> [checking[c] EXCEPT !.torn = @ \/ (c # writer /\ checking[c].pc \in {"listed", "again"})]]

InvalidateList(a) ==
  /\ changing[a].pc = "untimed"
  /\ activeRules' = {}
  /\ emptied' = (emptied \/ loaded # "never" \/ \E c \in Checks : checking[c].pc = "timing")
  /\ checking' = Torn(Nobody)
  /\ changing' = [changing EXCEPT ![a].pc = "invalidated"]
  /\ UNCHANGED <<stored, changes, loaded, monitor>>

Commit(a) ==
  LET change == changing[a]
  IN  /\ change.pc = "invalidated" \/ (change.pc = "written" /\ ~change.here)
      /\ stored' = [r \in Rules |-> IF r \in DOMAIN change.writes THEN change.writes[r] ELSE stored[r]]
      /\ changing' = [changing EXCEPT ![a] = NoChange]
      /\ UNCHANGED <<changes, cache, checking>>

-----------------------------------------------------------------------------
(* loadActiveRules *)

(* Variant: a list stays in its time to live. *)
Fresh_Ever(c) == loaded # "never"

(* now - activeRulesLoadedAt <= CACHE_TTL_MS, with the time at which the    *)
(* check began                                                              *)
Fresh(c) == loaded = "fresh" \/ (loaded = "expired" /\ checking[c].early)

Begun == {"begun", "listed", "waiting", "again"}

(* The time to live of the list ends. *)
Expire ==
  /\ loaded = "fresh"
  /\ loaded' = "expired"
  /\ checking' = [c \in Checks |-> [checking[c] EXCEPT !.early = @ \/ checking[c].pc \in Begun]]
  /\ UNCHANGED <<rows, activeRules, monitor, emptied>>

AssertAllowed(c, prompt) ==
  /\ checking[c].pc = "idle"
  /\ checking' = [checking EXCEPT ![c] = [NoCheck EXCEPT !.pc = "begun", !.prompt = prompt]]
  /\ UNCHANGED <<rows, cache>>

ReadList(c) ==
  /\ checking[c].pc = "begun"
  /\ checking' = [checking EXCEPT ![c].pc = "listed", ![c].list = activeRules, ![c].torn = emptied]
  /\ UNCHANGED <<rows, cache>>

(* The list that was read first is used if the time read now allows it.     *)
CheckTime(c) ==
  /\ checking[c].pc = "listed"
  /\ checking' = [checking EXCEPT ![c] =
       IF Fresh(c) THEN [@ EXCEPT !.pc = "matching", !.early = FALSE]
       ELSE [@ EXCEPT !.pc = "waiting", !.torn = FALSE]]
  /\ UNCHANGED <<rows, cache>>

(* The block is entered, and the time is checked again. *)
Synchronize(c) ==
  /\ checking[c].pc = "waiting" /\ monitor = Nobody
  /\ monitor' = c
  /\ checking' = [checking EXCEPT ![c].pc = IF Fresh(c) THEN "again" ELSE "query", ![c].early = @ /\ Fresh(c)]
  /\ UNCHANGED <<rows, activeRules, loaded, emptied>>

(* Variant: the block answers with the list that was read before it. *)
Reread_First(c) ==
  /\ checking[c].pc = "again"
  /\ monitor' = Nobody
  /\ checking' = [checking EXCEPT ![c].pc = "matching", ![c].early = FALSE]
  /\ UNCHANGED <<rows, activeRules, loaded, emptied>>

Reread(c) ==
  /\ checking[c].pc = "again"
  /\ monitor' = Nobody
  /\ checking' = [checking EXCEPT ![c].pc = "matching", ![c].list = activeRules, ![c].early = FALSE,
                                  ![c].torn = @ \/ emptied]
  /\ UNCHANGED <<rows, activeRules, loaded, emptied>>

Query(c) ==
  /\ checking[c].pc = "query"
  /\ checking' = [checking EXCEPT ![c].pc = "loaded", ![c].list = Enabled]
  /\ UNCHANGED <<rows, cache>>

StoreList(c) ==
  /\ checking[c].pc = "loaded"
  /\ activeRules' = checking[c].list
  /\ checking' = [Torn(c) EXCEPT ![c].pc = "timing"]
  /\ emptied' = FALSE
  /\ UNCHANGED <<rows, loaded, monitor>>

StoreTime(c) ==
  /\ checking[c].pc = "timing"
  /\ loaded' = "fresh" /\ monitor' = Nobody
  /\ checking' = [checking EXCEPT ![c].pc = "matching"]
  /\ UNCHANGED <<rows, activeRules, emptied>>

(* firstMatch; the alert of a rule that has been deleted cannot be stored,  *)
(* and the error refuses the prompt as well.                                *)
FirstMatch(c) ==
  /\ checking[c].pc = "matching"
  /\ checking' = [checking EXCEPT ![c].pc = IF checking[c].prompt \notin checking[c].list THEN "allowed"
                                            ELSE IF stored[checking[c].prompt] = "absent" THEN "failed"
                                            ELSE "blocked"]
  /\ UNCHANGED <<rows, cache>>

Finished(c) == checking[c].pc \in {"allowed", "blocked", "failed"}

Answer(c) ==
  /\ Finished(c)
  /\ checking' = [checking EXCEPT ![c] = NoCheck]
  /\ UNCHANGED <<rows, cache>>

-----------------------------------------------------------------------------
Check(c) ==
  \/ ReadList(c) \/ CheckTime(c) \/ Synchronize(c) \/ Reread(c) \/ Query(c)
  \/ StoreList(c) \/ StoreTime(c) \/ FirstMatch(c) \/ Answer(c)

Finish == \E a \in Changes : PatchRule(a) \/ InvalidateTime(a) \/ InvalidateList(a) \/ Commit(a)

Administer ==
  \E a \in Changes, here \in BOOLEAN :
    \/ \E patterns \in SUBSET (Rules \ Kept) \ {{}}, replace \in BOOLEAN :
         BatchConfigure(a, here, patterns, replace)
    \/ \E r \in Rules \ Kept :
         \/ \E enabled \in {"enabled", "disabled", "kept"} : ReadRule(a, here, r, enabled)
         \/ DeleteRule(a, here, r)

Next ==
  \/ Administer \/ Finish \/ Expire
  \/ \E c \in Checks : Check(c) \/ \E r \in Rules : AssertAllowed(c, r)

Spec == Init /\ [][Next]_vars

-----------------------------------------------------------------------------
(* The rows, the transactions, the cache and the checks. *)
TypeOK ==
  /\ stored \in [Rules -> States]
  /\ \A a \in Changes :
       /\ changing[a].pc \in {"idle", "read", "written", "untimed", "invalidated"}
       /\ DOMAIN changing[a].writes \subseteq Rules \ Kept
  /\ activeRules \subseteq Rules /\ loaded \in {"never", "fresh", "expired"}
  /\ monitor \in Checks \cup {Nobody} /\ emptied \in BOOLEAN /\ changes \in 0..MaxChanges
  /\ \A c \in Checks :
       /\ checking[c].pc \in Begun \cup {"idle", "query", "loaded", "timing", "matching", "allowed", "blocked", "failed"}
       /\ checking[c].list \subseteq Rules
       /\ (monitor = c) <=> checking[c].pc \in {"again", "query", "loaded", "timing"}

Skipped(c) == checking[c].pc = "allowed" /\ checking[c].prompt \in Kept

(* A rule that is shown as in effect, and that nobody touches, blocks every *)
(* prompt that matches it ("当前生效", public/admin.js:1418).               *)
RulesInEffect == \A c \in Checks : ~Skipped(c)

(* It is skipped in two ways only: by a check that has read the list before *)
(* it was written and its time after, and by one that has read the empty    *)
(* list of an invalidation that threw away what had been loaded since it    *)
(* began (loadActiveRules, invalidateCache).                                *)
OnlyRacesSkip == \A c \in Checks : Skipped(c) => checking[c].torn

(* A check that ends has applied the rules that are enabled. *)
Applies(c) == Finished(c) => checking[c].list = Enabled
=============================================================================
