---------------------------- MODULE AdminGallery ----------------------------
(***************************************************************************)
(* The pages of the gallery in the administrators' console                 *)
(* (public/admin.js): each gesture moves the offset at once and asks for a *)
(* page, and each answer replaces the whole of state.gallery, in the order *)
(* the answers arrive in.  Images are numbered, the newest first.          *)
(***************************************************************************)
EXTENDS Integers, FiniteSets

CONSTANTS
  Sizes,      \* sizes of a page
  MaxImages,  \* bound of the model on the images there are
  MaxClicks,  \* bound of the model on what the administrator does
  MaxErrors   \* bound of the model on calls that fail

(* What is assumed of the constants, by the module that gives their values *)
AdminGalleryAssumption ==
  /\ Sizes \subseteq Nat \ {0} /\ \E s \in Sizes : \A t \in Sizes : t <= s
  /\ MaxImages \in Nat /\ MaxClicks \in Nat /\ MaxErrors \in Nat

VARIABLES
  total,    \* server: how many images there are
  gallery,  \* state.gallery
  visible,  \* the view of the gallery is the active one
  net,      \* the calls under way
  failed,   \* the call that ended last has failed
  clicks, errors

vars == <<total, gallery, visible, net, failed, clicks, errors>>

-----------------------------------------------------------------------------

AtMost(a, b) == IF a <= b THEN a ELSE b
AtLeast(a, b) == IF a >= b THEN a ELSE b

MaxOffset(limit) == IF total = 0 THEN 0 ELSE ((total - 1) \div limit) * limit

Page(offset, limit) == (offset + 1)..AtMost(offset + limit, total)

(* AdminService.gallery *)
Answer(limit, offset) ==
  LET at == AtMost(offset, MaxOffset(limit))
  IN [images |-> Page(at, limit), limit |-> limit, offset |-> at, total |-> total,
      page |-> IF total = 0 THEN 0 ELSE at \div limit + 1,
      pageCount |-> IF total = 0 THEN 0 ELSE (total + limit - 1) \div limit]

NoAnswer == [images |-> {}, limit |-> 1, offset |-> 0, total |-> 0, page |-> 0, pageCount |-> 0]

(* state.gallery before the first answer, and after the session has ended *)
Empty == [NoAnswer EXCEPT !.limit = CHOOSE s \in Sizes : \A t \in Sizes : t <= s]

Init ==
  /\ total \in 0..MaxImages
  /\ gallery = Empty
  /\ visible \in BOOLEAN
  /\ net = {} /\ failed = FALSE
  /\ clicks = 0 /\ errors = 0

(* loadGallery, up to its await *)
LoadGallery(g) ==
  /\ gallery' = g
  /\ net' = net \cup {[id |-> clicks, limit |-> g.limit, offset |-> AtLeast(g.offset, 0),
                       stage |-> "sent", answer |-> NoAnswer]}

-----------------------------------------------------------------------------
(* The service *)

Serve(r) ==
  /\ r.stage = "sent"
  /\ net' = (net \ {r}) \cup {[r EXCEPT !.stage = "answered", !.answer = Answer(r.limit, r.offset)]}
  /\ UNCHANGED <<total, gallery, visible, failed, clicks, errors>>

Fail(r) ==
  /\ errors < MaxErrors /\ errors' = errors + 1
  /\ net' = net \ {r}
  /\ failed' = TRUE
  /\ UNCHANGED <<total, gallery, visible, clicks>>

NewImage ==
  /\ total < MaxImages /\ total' = total + 1
  /\ UNCHANGED <<gallery, visible, net, failed, clicks, errors>>

(* Another administrator deletes a user, and deleteUserRows the user's images. *)
ImagesGo ==
  /\ \E n \in 0..MaxImages : n < total /\ total' = n
  /\ UNCHANGED <<gallery, visible, net, failed, clicks, errors>>

-----------------------------------------------------------------------------
(* payload.offset || offset: an answer that falls back to the first page     *)
(* leaves the offset that was asked for.                                     *)
Taken(r) == [r.answer EXCEPT !.offset = IF @ = 0 THEN r.offset ELSE @]

(* loadGallery after its await *)
Deliver(r) ==
  /\ r.stage = "answered"
  /\ net' = net \ {r}
  /\ gallery' = Taken(r)
  /\ failed' = FALSE
  /\ UNCHANGED <<total, visible, clicks, errors>>

-----------------------------------------------------------------------------
(* The administrator *)

Click == clicks < MaxClicks /\ clicks' = clicks + 1 /\ UNCHANGED <<failed, errors>>
Look == Click /\ UNCHANGED total

PrevPage ==
  /\ Look /\ visible /\ gallery.offset > 0
  /\ LoadGallery([gallery EXCEPT !.offset = AtLeast(0, @ - gallery.limit)])
  /\ UNCHANGED visible

(* The page of the last answer decides, not the offset that has moved since. *)
NextPage ==
  /\ Look /\ visible /\ gallery.page < gallery.pageCount
  /\ LoadGallery([gallery EXCEPT !.offset = @ + gallery.limit])
  /\ UNCHANGED visible

PageSize(limit) ==
  /\ Look /\ visible /\ limit # gallery.limit
  /\ LoadGallery([gallery EXCEPT !.limit = limit, !.offset = 0])
  /\ UNCHANGED visible

ReloadGallery ==
  /\ Look /\ visible
  /\ LoadGallery(gallery)
  /\ UNCHANGED visible

(* switchView asks only while no image is listed. *)
SwitchView ==
  /\ Look
  /\ visible' = ~visible
  /\ IF visible' /\ gallery.images = {} THEN LoadGallery(gallery) ELSE UNCHANGED <<gallery, net>>

(* clearAdminData, then ensureAdmin with the view that was active *)
SignInAgain ==
  /\ Look
  /\ IF visible THEN LoadGallery(Empty) ELSE gallery' = Empty /\ net' = net
  /\ UNCHANGED visible

(* The images of a user that this administrator deletes go from the database, *)
(* and from the page, whose numbers stay.                                     *)
DeleteUser ==
  /\ Click /\ gallery.images # {}
  /\ \E shown \in SUBSET gallery.images, n \in 0..MaxImages :
       /\ n <= total - Cardinality(shown) /\ total' = n
       /\ gallery' = [gallery EXCEPT !.images = @ \ shown]
  /\ UNCHANGED <<visible, net>>

Next ==
  \/ NewImage \/ ImagesGo
  \/ \E r \in net : Serve(r) \/ Deliver(r) \/ Fail(r)
  \/ PrevPage \/ NextPage \/ ReloadGallery \/ SwitchView \/ SignInAgain \/ DeleteUser
  \/ \E limit \in Sizes : PageSize(limit)

Spec == Init /\ [][Next]_vars

-----------------------------------------------------------------------------
(* Properties *)

(* The state of the gallery and the calls that are under way. *)
TypeOK ==
  /\ total \in 0..MaxImages
  /\ gallery.images \subseteq 1..MaxImages /\ gallery.limit \in Sizes
  /\ gallery.offset \in Nat /\ gallery.page <= gallery.pageCount
  /\ \A r \in net : r.limit \in Sizes /\ r.offset \in Nat
  /\ clicks \in 0..MaxClicks /\ errors \in 0..MaxErrors

(* Where the page of the pager begins.  With one page that is 0, whatever the *)
(* offset: an answer's 0 does not replace the offset of a request beyond it.   *)
FirstOfPage == IF gallery.pageCount > 1 THEN gallery.offset ELSE 0

(* Once every call has ended, the page shows images of the page that its      *)
(* pager names and, if there are more, of the range it shows, whatever the     *)
(* clicks, the order of the answers and the images that come and go; unless    *)
(* the last call has failed, which leaves the range ahead of the images.       *)
PagerIsTrue ==
  net = {} /\ ~failed =>
    /\ gallery.images \subseteq (FirstOfPage + 1)..(FirstOfPage + gallery.limit)
    /\ gallery.images # {} => gallery.page = FirstOfPage \div gallery.limit + 1
    /\ FirstOfPage = 0 \/ FirstOfPage < gallery.total
=============================================================================
