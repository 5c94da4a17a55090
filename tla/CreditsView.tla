----------------------------- MODULE CreditsView -----------------------------
(***************************************************************************)
(* The two lists of ledger entries in the workspace (public/script.js):    *)
(* the tab, which keeps its first page for the next visit, and the drawer  *)
(* that a double click opens.  Both load the history page by page with an  *)
(* offset of their own, while the service adds entries at the top          *)
(* (Db.walletHistory).                                                     *)
(***************************************************************************)
EXTENDS Naturals, Sequences, SequencesExt, FiniteSets

CONSTANTS
  PageSize,    \* PAGE and VIEW_PAGE
  Earlier,     \* entries there are at the start
  MaxEntries,  \* bound of the model on entries
  MaxLoads,    \* bound of the model on loads
  Patient      \* the user waits for a list before the next click on it

(* What is assumed of the constants, by the module that gives their values *)
CreditsViewAssumption ==
  /\ PageSize \in Nat \ {0}
  /\ MaxEntries \in Nat /\ Earlier \in 0..MaxEntries
  /\ MaxLoads \in Nat
  /\ Patient \in BOOLEAN

VARIABLES
  entries,   \* server: entries 1..entries, in the order they were made
  view,      \* the tab: rows, viewOffset, whether "load more" is offered
  cached,    \* cachedEntries, NoPage before the first load
  drawer,    \* the drawer: rows, offset, whether "load more" is offered
  net,       \* loads under way
  loads

vars == <<entries, view, cached, drawer, net, loads>>

NoPage == <<0>>   \* no entry has the number 0
Unloaded == [rows |-> <<>>, offset |-> 0, more |-> FALSE]

(* walletHistory: a page of the history, newest first *)
WalletHistory(offset) ==
  LET newestFirst == [i \in 1..entries |-> entries + 1 - i]
      last == IF offset + PageSize < entries THEN offset + PageSize ELSE entries
  IN  SubSeq(newestFirst, offset + 1, last)

Load(list, append, offset) ==
  [list |-> list, append |-> append, offset |-> offset, id |-> loads, answer |-> NoPage]

Waiting(list) == \E l \in net : l.list = list

Ask(list, append, offset) ==
  /\ loads < MaxLoads /\ loads' = loads + 1
  /\ Patient => ~Waiting(list)
  /\ net' = net \cup {Load(list, append, offset)}

-----------------------------------------------------------------------------

(* What an answer leaves in a list (renderViewEntries, renderDrawerEntries) *)
Rendered(list, append, page) ==
  [rows |-> IF append THEN list.rows \o page ELSE page,
   offset |-> list.offset + Len(page),
   more |-> IF page = <<>> /\ ~append THEN list.more ELSE Len(page) >= PageSize]

Init ==
  /\ entries = Earlier
  /\ view = Unloaded /\ cached = NoPage /\ drawer = Unloaded
  /\ net = {} /\ loads = 0

NewEntry ==
  /\ entries < MaxEntries
  /\ entries' = entries + 1
  /\ UNCHANGED <<view, cached, drawer, net, loads>>

Serve(l) ==
  /\ l.answer = NoPage
  /\ net' = (net \ {l}) \cup {[l EXCEPT !.answer = WalletHistory(l.offset)]}
  /\ UNCHANGED <<entries, view, cached, drawer, loads>>

(* creditsViewLoad(false): the page of the last visit, or a skeleton, until *)
(* the answer is in                                                         *)
OpenTab ==
  /\ Ask("view", FALSE, 0)
  /\ view' = IF cached = NoPage THEN [view EXCEPT !.rows = <<>>, !.offset = 0]
             ELSE [rows |-> cached, offset |-> 0, more |-> Len(cached) >= PageSize]
  /\ UNCHANGED <<entries, cached, drawer>>

(* creditsViewLoad(true) *)
LoadMoreInTab ==
  /\ view.more
  /\ Ask("view", TRUE, view.offset)
  /\ UNCHANGED <<entries, view, cached, drawer>>

TabLoaded(l) ==
  /\ l.list = "view" /\ l.answer # NoPage
  /\ cached' = IF l.append THEN cached ELSE l.answer
  /\ view' = Rendered(view, l.append, l.answer)
  /\ net' = net \ {l}
  /\ UNCHANGED <<entries, drawer, loads>>

(* Variant: the offset goes on as if the page had come. *)
TabFails_Advances(l) ==
  /\ l.list = "view"
  /\ view' = [view EXCEPT !.offset = @ + PageSize]
  /\ net' = net \ {l}
  /\ UNCHANGED <<entries, cached, drawer, loads>>

(* A page that follows is dropped; a first page is replaced by a message. *)
TabFails(l) ==
  /\ l.list = "view"
  /\ view' = IF l.append THEN view ELSE [view EXCEPT !.rows = <<>>]
  /\ net' = net \ {l}
  /\ UNCHANGED <<entries, cached, drawer, loads>>

(* open, and loadHistory(false) *)
OpenDrawer ==
  /\ Ask("drawer", FALSE, 0)
  /\ drawer' = [drawer EXCEPT !.rows = <<>>, !.offset = 0]
  /\ UNCHANGED <<entries, view, cached>>

LoadMoreInDrawer ==
  /\ drawer.more
  /\ Ask("drawer", TRUE, drawer.offset)
  /\ UNCHANGED <<entries, view, cached, drawer>>

DrawerLoaded(l) ==
  /\ l.list = "drawer" /\ l.answer # NoPage
  /\ drawer' = Rendered(drawer, l.append, l.answer)
  /\ net' = net \ {l}
  /\ UNCHANGED <<entries, view, cached, loads>>

(* The message takes the place of all rows, the offset stays. *)
DrawerFails(l) ==
  /\ l.list = "drawer"
  /\ drawer' = [drawer EXCEPT !.rows = <<>>]
  /\ net' = net \ {l}
  /\ UNCHANGED <<entries, view, cached, loads>>

Next ==
  \/ NewEntry
  \/ OpenTab \/ LoadMoreInTab
  \/ OpenDrawer \/ LoadMoreInDrawer
  \/ \E l \in net :
       Serve(l) \/ TabLoaded(l) \/ TabFails(l) \/ DrawerLoaded(l) \/ DrawerFails(l)

Spec == Init /\ [][Next]_vars

-----------------------------------------------------------------------------
(* Properties *)

(* Rows are entries of the history, and an offset never runs ahead of it    *)
(* when the user waits for the answers (it counts entries that came).       *)
TypeOK ==
  /\ entries \in 0..MaxEntries
  /\ \A list \in {view, drawer} : list.rows \in Seq(1..entries) /\ list.more \in BOOLEAN
  /\ Patient => view.offset <= entries /\ drawer.offset <= entries
  /\ \A l \in net : l.answer # NoPage => Len(l.answer) <= PageSize

(* Entries that "load more" has gone past, on its way from the newest row   *)
(* that was shown first                                                     *)
GonePast(rows) ==
  {e \in 1..entries : \E i \in DOMAIN rows : rows[i] < e /\ e < rows[1]}

(* "Show the credit details", "load more": the tab has no gap; no entry     *)
(* between the first that it shows and any older one is missing, while      *)
(* entries are added and loads fail, as long as the user waits for each     *)
(* answer (viewOffset).  Of entries newer than the first row, which come    *)
(* again or for the first time with an offset that they have moved, nothing *)
(* is said.                                                                 *)
NoEntrySkippedInTab == GonePast(view.rows) \subseteq ToSet(view.rows)

(* The same of the drawer, whose rows a failure replaces by a message while *)
(* its offset stays.                                                        *)
NoEntrySkippedInDrawer == GonePast(drawer.rows) \subseteq ToSet(drawer.rows)
=============================================================================
