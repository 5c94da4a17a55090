----------------------------- MODULE References -----------------------------
(***************************************************************************)
(* The reference images of the composer (public/script.js): the files of   *)
(* the next generation, the tray of previews with a delete button each,    *)
(* the object URLs of the previews, and what submissions take with them.   *)
(* Two handlers leave the page to itself before they touch the files: a    *)
(* submission waits for its answer, and "continue editing" for the image.  *)
(***************************************************************************)
EXTENDS Naturals, Sequences, SequencesExt, FiniteSets

CONSTANTS
  Picks,          \* selections of the file dialog, sequences of files
  Results,        \* images that may be edited further
  MaxReferences,  \* 16 in appendReferenceFiles
  MaxRequests     \* bound of the model on requests, under way and done

Files == (UNION {ToSet(p) : p \in Picks}) \cup Results

(* What is assumed of the constants, by the module that gives their values *)
ReferencesAssumption ==
  /\ MaxReferences \in Nat \ {0}
  /\ MaxRequests \in Nat
  /\ \A p \in Picks : p \in Seq(Files) /\ p # <<>>

VARIABLES
  files,     \* state.referenceFiles
  refs,      \* state.refs
  tray,      \* the previews: the file shown, and the index its button deletes
  urls,      \* object URLs of files that have not been revoked
  previews,  \* state.previewUrls: those of the tray
  sending,   \* payloads of the submissions under way
  fetching,  \* images being fetched for editing
  requests

page == <<files, refs, tray, urls, previews>>
vars == <<page, sending, fetching, requests>>

-----------------------------------------------------------------------------

Revoked == urls \ previews

(* renderReferencePreviews, after the URLs of the former previews are gone *)
Render(list) ==
  /\ tray' = [i \in DOMAIN list |-> [file |-> list[i], index |-> i]]
  /\ previews' = ToSet(list)
  /\ urls' = Revoked \cup ToSet(list)

Keep(list) == files' = list /\ refs' = Len(list)

(* clearThumbPreviews *)
ClearThumbPreviews ==
  /\ Keep(<<>>)
  /\ tray' = <<>> /\ previews' = {} /\ urls' = Revoked

Upto(list, n) == SubSeq(list, 1, IF Len(list) < n THEN Len(list) ELSE n)

Init ==
  /\ files = <<>> /\ refs = 0
  /\ tray = <<>> /\ urls = {} /\ previews = {}
  /\ sending = {} /\ fetching = {}
  /\ requests = 0

(* appendReferenceFiles; files of a wrong type or size are refused as a whole *)
(* Variant: the limit applies to the new files alone. *)
AppendReferenceFiles_LimitsNew(pick) ==
  /\ LET merged == files \o Upto(pick, MaxReferences)
     IN  Keep(merged) /\ Render(merged)
  /\ UNCHANGED <<sending, fetching, requests>>

AppendReferenceFiles(pick) ==
  /\ \A i \in DOMAIN pick : ~Contains(files, pick[i])
  /\ LET merged == Upto(files \o pick, MaxReferences)
     IN  Keep(merged) /\ Render(merged)
  /\ UNCHANGED <<sending, fetching, requests>>

(* The delete button of a preview *)
(* Variant: the previews that stay are not rendered again. *)
DeleteReference_KeepsTray(i) ==
  /\ i \in DOMAIN tray
  /\ tray[i].index \in DOMAIN files
  /\ Keep(RemoveAt(files, tray[i].index))
  /\ tray' = RemoveAt(tray, i)
  /\ previews' = previews \ {tray[i].file}
  /\ urls' = urls \ {tray[i].file}
  /\ UNCHANGED <<sending, fetching, requests>>

DeleteReference(i) ==
  /\ i \in DOMAIN tray
  /\ LET left == IF tray[i].index \in DOMAIN files THEN RemoveAt(files, tray[i].index) ELSE files
     IN  Keep(left) /\ Render(left)
  /\ UNCHANGED <<sending, fetching, requests>>

ClearReferences ==
  /\ ClearThumbPreviews
  /\ UNCHANGED <<sending, fetching, requests>>

-----------------------------------------------------------------------------
(* Submissions *)

(* createGeneratePayload *)
Payload == [refs |-> refs, files |-> files]

Submit ==
  /\ requests < MaxRequests
  /\ requests' = requests + 1
  /\ sending' = sending \cup {[id |-> requests, payload |-> Payload]}
  /\ UNCHANGED <<page, fetching>>

(* The answer of POST /api/generate: whatever is in the tray by now goes. *)
Submitted(s) ==
  /\ ClearThumbPreviews
  /\ sending' = sending \ {s}
  /\ UNCHANGED <<fetching, requests>>

SubmissionFails(s) ==
  /\ sending' = sending \ {s}
  /\ UNCHANGED <<page, fetching, requests>>

-----------------------------------------------------------------------------
(* Continuing with a result: the image is fetched, then it replaces the files. *)

ContinueEditing(x) ==
  /\ requests < MaxRequests
  /\ requests' = requests + 1
  /\ fetching' = fetching \cup {[id |-> requests, image |-> x]}
  /\ UNCHANGED <<page, sending>>

AddResultAsReference(f) ==
  /\ Keep(<<f.image>>) /\ Render(<<f.image>>)
  /\ fetching' = fetching \ {f}
  /\ UNCHANGED <<sending, requests>>

EditFails(f) ==
  /\ fetching' = fetching \ {f}
  /\ UNCHANGED <<page, sending, requests>>

Next ==
  \/ \E pick \in Picks : AppendReferenceFiles(pick)
  \/ \E i \in 1..Len(tray) : DeleteReference(i)
  \/ ClearReferences
  \/ Submit
  \/ \E s \in sending : Submitted(s) \/ SubmissionFails(s)
  \/ \E x \in Results : ContinueEditing(x)
  \/ \E f \in fetching : AddResultAsReference(f) \/ EditFails(f)

Spec == Init /\ [][Next]_vars

-----------------------------------------------------------------------------
(* Properties *)

TrayEntry == [file : Files, index : 1..MaxReferences]

(* No more files than the service takes, in the page and in every payload   *)
(* (the limit of 16 applies to the files kept and the new ones together).   *)
TypeOK ==
  /\ files \in Seq(Files) /\ Len(files) <= MaxReferences
  /\ tray \in Seq(TrayEntry)
  /\ urls \subseteq Files /\ previews \subseteq urls
  /\ \A s \in sending : Len(s.payload.files) <= MaxReferences
  /\ requests \in 0..MaxRequests

(* The tray shows the files of the next generation in their order, and the  *)
(* button of a preview deletes the file that is shown there, after any      *)
(* deletions, additions and replacements before it (the button keeps the    *)
(* index it was created with).                                              *)
TrayShowsFiles ==
  /\ Len(tray) = Len(files)
  /\ \A i \in DOMAIN tray : tray[i].index \in DOMAIN files /\ files[tray[i].index] = tray[i].file

(* A payload says how many files it carries, also one that was made between *)
(* two changes of the tray (refs is kept beside the files).                 *)
PayloadCountsFiles ==
  refs = Len(files) /\ \A s \in sending : s.payload.refs = Len(s.payload.files)

(* Object URLs are revoked with the preview they were created for.          *)
NoUrlLeaks == urls = ToSet(files)
=============================================================================
