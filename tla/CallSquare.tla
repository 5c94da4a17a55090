----------------------------- MODULE CallSquare -----------------------------
(***************************************************************************)
(* The test page of the administrators' console (public/admin.js): a form  *)
(* with the parameters of a channel, which the service stores and answers  *)
(* with its key masked, the reference images of a test, and the tests.     *)
(***************************************************************************)
EXTENDS Naturals, Sequences, SequencesExt

CONSTANTS
  MaxReferences,  \* 16 in addCallSquareReferences
  MaxClicks,      \* bound of the model on what the administrator does
  MaxOthers,      \* bound of the model on what others store
  MaxErrors       \* bound of the model on calls that fail

(* What is assumed of the constants, by the module that gives their values *)
CallSquareAssumption ==
  /\ MaxReferences \in Nat /\ MaxClicks \in Nat
  /\ MaxOthers \in Nat /\ MaxErrors \in Nat

VARIABLES
  stored,         \* server: the parameters and the key
  form,           \* the fields of the form
  keyConfigured,  \* state.callSquareConfig.apiKeyConfigured
  loaded,         \* state.callSquareConfigLoaded
  files,          \* state.callSquareReferenceFiles
  urls,           \* object URLs that have not been revoked
  loads,          \* reads of the configuration under way
  saving,         \* the save under way
  testing,        \* the test under way
  upstream,       \* the keys that the tests have called the channel with
  result,         \* what the result shows
  clicks, others, errors

editor == <<form, keyConfigured, loaded>>
tray == <<files, urls>>
bounds == <<clicks, others, errors>>
vars == <<stored, editor, tray, loads, saving, testing, upstream, result, bounds>>

-----------------------------------------------------------------------------

Texts == {"default", "edited", "broken"}  \* "broken" is no JSON object
Keys == {"blank", "mask", "real"}
Default == [text |-> "default", key |-> "blank"]
Idle == [stage |-> "idle", form |-> Default, edit |-> FALSE, ok |-> FALSE]
NoResult == [shown |-> "none", edit |-> FALSE]

(* getCallSquareConfig *)
Masked(s) == [text |-> s.text, key |-> IF s.key = "blank" THEN "blank" ELSE "mask"]

(* applyCallSquareConfig; only the service says that a key is configured. *)
ApplyCallSquareConfig(config, configured) == form' = config /\ keyConfigured' = configured

(* renderCallSquareReferences revokes the URLs it replaces. *)
RenderReferences(fs) == files' = fs /\ urls' = Len(fs)

Init ==
  /\ stored \in [text : {"default"}, key : {"blank", "real"}]
  /\ form = Default /\ keyConfigured = FALSE /\ loaded = FALSE
  /\ files = <<>> /\ urls = 0
  /\ loads = <<>> /\ saving = Idle /\ testing = Idle
  /\ upstream = {} /\ result = NoResult
  /\ clicks = 0 /\ others = 0 /\ errors = 0

-----------------------------------------------------------------------------
(* The service *)

(* Variant: what is in the form is stored. *)
SaveConfig_Verbatim(f) == stored' = f

(* saveCallSquareConfig: a masked or blank key leaves the key as it is. *)
SaveConfig(f) == stored' = [text |-> f.text, key |-> IF f.key = "real" THEN "real" ELSE stored.key]

SaveRefused(f) == f.key = "mask" /\ stored.key = "blank"

OtherSaves ==
  /\ others < MaxOthers /\ others' = others + 1
  /\ \E f \in [text : Texts \ {"broken"}, key : Keys] : ~SaveRefused(f) /\ SaveConfig(f)
  /\ UNCHANGED <<editor, tray, loads, saving, testing, upstream, result, clicks, errors>>

ServeSave ==
  /\ saving.stage = "sent"
  /\ IF SaveRefused(saving.form) THEN UNCHANGED stored /\ saving' = [saving EXCEPT !.stage = "failed"]
     ELSE /\ SaveConfig(saving.form)
          /\ saving' = [saving EXCEPT !.stage = "answered", !.form = Masked(stored'), !.ok = stored'.key # "blank"]
  /\ UNCHANGED <<editor, tray, loads, testing, upstream, result, bounds>>

(* The parameters are stored before the key, without a transaction. *)
ServeSavePartly ==
  /\ errors < MaxErrors /\ errors' = errors + 1
  /\ saving.stage = "sent" /\ ~SaveRefused(saving.form)
  /\ stored' = [stored EXCEPT !.text = saving.form.text]
  /\ saving' = [saving EXCEPT !.stage = "failed"]
  /\ UNCHANGED <<editor, tray, loads, testing, upstream, result, clicks, others>>

ServeLoad(i) ==
  /\ loads[i].stage = "sent"
  /\ loads' = [loads EXCEPT ![i] = [stage |-> "answered", form |-> Masked(stored), ok |-> stored.key # "blank"]]
  /\ UNCHANGED <<stored, editor, tray, saving, testing, upstream, result, bounds>>

(* callSquareTest: a masked or blank key stands for the stored one. *)
EffectiveKey(f) == IF f.key = "real" THEN "real" ELSE stored.key

ServeTest ==
  /\ testing.stage = "sent"
  /\ IF EffectiveKey(testing.form) = "blank"
     THEN UNCHANGED upstream /\ testing' = [testing EXCEPT !.stage = "failed"]
     ELSE /\ upstream' = upstream \cup {EffectiveKey(testing.form)}
          /\ \E ok \in BOOLEAN : testing' = [testing EXCEPT !.stage = "answered", !.ok = ok]
  /\ UNCHANGED <<stored, editor, tray, loads, saving, result, bounds>>

Lose ==
  /\ errors < MaxErrors /\ errors' = errors + 1
  /\ \/ saving.stage \in {"sent", "answered"} /\ saving' = [saving EXCEPT !.stage = "failed"] /\ UNCHANGED <<loads, testing>>
     \/ testing.stage \in {"sent", "answered"} /\ testing' = [testing EXCEPT !.stage = "failed"] /\ UNCHANGED <<loads, saving>>
     \/ \E i \in DOMAIN loads : loads' = RemoveAt(loads, i) /\ UNCHANGED <<saving, testing>>
  /\ UNCHANGED <<stored, editor, tray, upstream, result, clicks, others>>

-----------------------------------------------------------------------------
(* The continuations of the handlers *)

LoadArrives(i) ==
  /\ loads[i].stage = "answered"
  /\ ApplyCallSquareConfig(loads[i].form, loads[i].ok)
  /\ loaded' = TRUE
  /\ loads' = RemoveAt(loads, i)
  /\ UNCHANGED <<stored, tray, saving, testing, upstream, result, bounds>>

SaveEnds ==
  /\ saving.stage \in {"answered", "failed"}
  /\ IF saving.stage = "answered" THEN ApplyCallSquareConfig(saving.form, saving.ok)
     ELSE UNCHANGED <<form, keyConfigured>>
  /\ saving' = Idle
  /\ UNCHANGED <<stored, loaded, tray, loads, testing, upstream, result, bounds>>

(* A failure is described with the files that are in the tray by now. *)
TestEnds ==
  /\ testing.stage \in {"answered", "failed"}
  /\ result' = IF testing.stage = "answered"
               THEN [shown |-> IF testing.ok THEN "ok" ELSE "error", edit |-> testing.edit]
               ELSE [shown |-> "error", edit |-> files # <<>>]
  /\ testing' = Idle
  /\ UNCHANGED <<stored, editor, tray, loads, saving, upstream, bounds>>

-----------------------------------------------------------------------------
(* The administrator *)

Click ==
  /\ clicks < MaxClicks /\ clicks' = clicks + 1
  /\ UNCHANGED <<stored, upstream, others, errors>>

Type(f) ==
  /\ Click /\ form # f
  /\ form' = f
  /\ UNCHANGED <<keyConfigured, loaded, tray, loads, saving, testing, result>>

(* loadAll and switchView read the configuration until it was read once. *)
LoadConfig ==
  /\ Click /\ ~loaded
  /\ loads' = Append(loads, [stage |-> "sent", form |-> Default, ok |-> FALSE])
  /\ UNCHANGED <<editor, tray, saving, testing, result>>

(* saveCallSquareConfig of the page; its button is busy until it has ended. *)
SaveButton ==
  /\ Click /\ saving = Idle /\ form.text # "broken"
  /\ saving' = [Idle EXCEPT !.stage = "sent", !.form = form]
  /\ UNCHANGED <<editor, tray, loads, testing, result>>

TestRefused == form.text = "broken" \/ (form.key = "mask" /\ ~keyConfigured)

TestButton ==
  /\ Click /\ testing = Idle
  /\ IF TestRefused
     THEN result' = [shown |-> "error", edit |-> files # <<>>] /\ UNCHANGED testing
     ELSE /\ testing' = [Idle EXCEPT !.stage = "sent", !.form = form, !.edit = files # <<>>]
          /\ UNCHANGED result
  /\ UNCHANGED <<editor, tray, loads, saving>>

(* addCallSquareReferences; files of a wrong type or size are refused as a whole. *)
AddReferences(n) ==
  /\ Click
  /\ RenderReferences(SubSeq(files \o [i \in 1..n |-> clicks], 1,
                             IF Len(files) + n < MaxReferences THEN Len(files) + n ELSE MaxReferences))
  /\ UNCHANGED <<editor, loads, saving, testing, result>>

RemoveReference(i) ==
  /\ Click
  /\ RenderReferences(RemoveAt(files, i))
  /\ UNCHANGED <<editor, loads, saving, testing, result>>

ClearReferences ==
  /\ Click /\ files # <<>>
  /\ RenderReferences(<<>>)
  /\ UNCHANGED <<editor, loads, saving, testing, result>>

ClearConfig ==
  /\ Click
  /\ ApplyCallSquareConfig(Default, FALSE)
  /\ RenderReferences(<<>>)
  /\ result' = NoResult
  /\ UNCHANGED <<loaded, loads, saving, testing>>

(* clearAdminData keeps the files and the result. *)
SignOut ==
  /\ Click
  /\ ApplyCallSquareConfig(Default, FALSE) /\ loaded' = FALSE
  /\ UNCHANGED <<tray, loads, saving, testing, result>>

Next ==
  \/ OtherSaves \/ ServeSave \/ ServeSavePartly \/ ServeTest \/ Lose
  \/ \E i \in DOMAIN loads : ServeLoad(i) \/ LoadArrives(i)
  \/ SaveEnds \/ TestEnds
  \/ \E f \in [text : Texts, key : Keys] : Type(f)
  \/ LoadConfig \/ SaveButton \/ TestButton
  \/ \E n \in 1..2 : AddReferences(n)
  \/ \E i \in DOMAIN files : RemoveReference(i)
  \/ ClearReferences \/ ClearConfig \/ SignOut

Spec == Init /\ [][Next]_vars

-----------------------------------------------------------------------------
(* Properties *)

(* The form, the files of the next test with an object URL each, and the    *)
(* calls under way.                                                         *)
TypeOK ==
  /\ form \in [text : Texts, key : Keys] /\ stored.text \in Texts \ {"broken"}
  /\ Len(files) <= MaxReferences /\ urls = Len(files)
  /\ \A i \in DOMAIN loads : loads[i].form.key # "real"
  /\ saving.form.text # "broken" /\ testing.form.text # "broken"
  /\ clicks \in 0..MaxClicks

(* A key goes to the page as a mask and comes back with the form: the mask  *)
(* is never stored, nor a channel called with it, whatever was typed,       *)
(* saved, cleared and answered late, and a key that is stored stays stored. *)
UsesRealKeys ==
  /\ stored'.key \in {"blank", "real"} /\ upstream' \subseteq {"real"}
  /\ stored.key = "real" => stored'.key = "real"

KeysAreReal == [][UsesRealKeys]_vars
=============================================================================
