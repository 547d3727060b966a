------------------------------- MODULE Popup -------------------------------
(***************************************************************************)
(* Popups that admins write and visitors see (popup/service.py,            *)
(* popup/adapters/postgresql.py, popup/router.py).  The list of the active *)
(* ones is cached; it names each image by its hash, and a browser keeps    *)
(* what such a URL answered for good.                                      *)
(***************************************************************************)
EXTENDS CachedRequests

CONSTANTS
  Popups,   \* ids; one is never given out twice
  Images,   \* pictures, each its own hash
  NoImage

ASSUME PopupAssumption == NoImage \notin Images

VARIABLES
  popup,    \* popups: id -> [image, active] or Nothing
  spent,    \* ids given out
  asked,    \* the URLs the visitor's page is to load: [id, hash]
  keptImages  \* what the browser keeps: [id, hash, image]

pvars == <<popup, spent, asked, keptImages>>

ACTIVE == "popups:active"

ActivePopups == {[id |-> p, image |-> popup[p].image] :
                   p \in {x \in Popups : popup[x] # Nothing /\ popup[x].active}}

PopupInit ==
  /\ popup = [p \in Popups |-> Nothing]
  /\ spent = {} /\ asked = {} /\ keptImages = {}

----------------------------------------------------------------------------
(* Visitors *)

ListActive(q) == Miss(q, ACTIVE, ActivePopups) /\ UNCHANGED pvars

\* Lists that are answered: the cached one, or one just read.
Answers == {store[k].value : k \in {x \in {ACTIVE} : Cached(x)}}
           \cup {job[q].value : q \in {r \in Requests : job[r].pc = "fill" /\ job[r].key = ACTIVE}}

\* The page loads the images the list names, a hash in every URL.
OpenPage ==
  /\ \E list \in Answers :
       asked' = {[id |-> x.id, hash |-> x.image] : x \in {y \in list : y.image # NoImage}}
  /\ UNCHANGED <<popup, spent, keptImages, job, writes, store>>

\* popup_image: whatever image the popup has now; the hash is not read.  The
\* answer is immutable to the browser; a 404 is not kept.
Load(url) ==
  /\ url \in asked /\ ~\E x \in keptImages : x.id = url.id /\ x.hash = url.hash
  /\ popup[url.id] # Nothing /\ popup[url.id].image # NoImage
  /\ keptImages' = keptImages \cup {[id |-> url.id, hash |-> url.hash, image |-> popup[url.id].image]}
  /\ UNCHANGED <<popup, spent, asked, job, writes, store>>

----------------------------------------------------------------------------
(* Admins *)

\* Only a change that visitors see drops the list, judged before the write.
SavePopupWrong(q, p, row) ==
  /\ job[q] = Waiting /\ CountWrite
  /\ popup' = [popup EXCEPT ![p] = row]
  /\ Committed(q, IF popup[p] # Nothing /\ popup[p].active THEN {ACTIVE} ELSE {},
               IF ActivePopups' # ActivePopups THEN {ACTIVE} ELSE {})
  /\ UNCHANGED <<asked, keptImages, store>>

\* A write that has committed drops the list, whether or not it was about it.
SavePopup(q, p, row) ==
  /\ job[q] = Waiting /\ CountWrite
  /\ popup' = [popup EXCEPT ![p] = row]
  /\ Committed(q, {ACTIVE}, IF ActivePopups' # ActivePopups THEN {ACTIVE} ELSE {})
  /\ UNCHANGED <<asked, keptImages, store>>

CreatePopup(q, image, active) ==
  \E p \in Popups \ spent :
    /\ spent' = spent \cup {p}
    /\ SavePopup(q, p, [image |-> image, active |-> active])

\* No image in the form keeps the stored one; remove drops it.
UpdatePopup(q, p, image, remove, active) ==
  /\ popup[p] # Nothing
  /\ SavePopup(q, p, [image |-> IF image # NoImage \/ remove THEN image ELSE popup[p].image, active |-> active])
  /\ UNCHANGED spent

\* A popup that is gone is a 404, and nothing is dropped.
DeletePopup(q, p) ==
  /\ popup[p] # Nothing
  /\ SavePopup(q, p, Nothing)
  /\ UNCHANGED spent

PopupNext ==
  \/ OpenPage \/ \E url \in asked : Load(url)
  \/ \E q \in Requests :
       \/ ListActive(q)
       \/ \E image \in Images \cup {NoImage}, active \in BOOLEAN :
            \/ CreatePopup(q, image, active)
            \/ \E p \in Popups, remove \in BOOLEAN :
                 (remove => image = NoImage) /\ UpdatePopup(q, p, image, remove, active)
       \/ \E p \in Popups : DeletePopup(q, p)

PopupSpec ==
  /\ NoRequests /\ PopupInit
  /\ [][PopupNext \/ (CacheStep /\ UNCHANGED pvars)]_<<store, job, writes, pvars>>

----------------------------------------------------------------------------
(* Properties *)

\* popup/router.py: an image is "Safe to keep forever: the URL carries the image's
\* hash, so a new image is a new URL".  What a browser keeps under a hash is the
\* image with that hash.
ImageIsItsHash == \A x \in keptImages : x.image = x.hash
=============================================================================
