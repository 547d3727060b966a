---------------------------- MODULE SiteServices ----------------------------
(***************************************************************************)
(* The services that share the cache of one process (container.py): the    *)
(* board, popups, streaming channels, saves and the event.  They have      *)
(* nothing else in common, and no key, so each behaviour exercises one.    *)
(***************************************************************************)
EXTENDS Community, Popup, Streaming, Saves

\* Every service has a prefix of its own for its keys.
ASSUME KeysAssumption ==
  /\ BoardKeys \cup Channels \cup Players \cup {ACTIVE, CHANNELS, RANKS, HOLDERS, BOARD, PLAYER} \subseteq Keys
  /\ (Posts \cup Channels \cup Players) \cap {LIST, ACTIVE, CHANNELS, RANKS, HOLDERS, BOARD, PLAYER} = {}
  /\ Posts \cap Channels = {} /\ Posts \cap Players = {} /\ Channels \cap Players = {}
  /\ Nothing \notin Players

VARIABLE service   \* the service in use

sitevars == <<mvars, pvars, svars, fvars, service>>

SiteInit ==
  /\ service \in {"community", "popup", "streaming", "saves", "event"}
  /\ MInit /\ PopupInit /\ StreamingInit /\ SavesInit
  /\ service # "community" => \A p \in Posts : posts[p] = NoPost

SiteNext ==
  /\ UNCHANGED service
  /\ \/ service = "community" /\ MNext /\ UNCHANGED <<pvars, svars, fvars>>
     \/ service = "popup" /\ PopupNext /\ UNCHANGED <<boardrows, svars, fvars>>
     \/ service = "streaming" /\ StreamingNext /\ UNCHANGED <<boardrows, pvars, fvars>>
     \/ service = "saves" /\ SavesNext /\ UNCHANGED <<boardrows, pvars, svars>>
     \/ service = "event" /\ EventNext /\ UNCHANGED <<boardrows, pvars, svars>>
     \/ service # "community" /\ CacheStep /\ UNCHANGED <<boardrows, pvars, svars, fvars>>

SiteSpec == SiteInit /\ [][SiteNext]_sitevars

----------------------------------------------------------------------------
(* Properties *)

SiteTypeOK ==
  /\ MTypeOK
  /\ \A x \in keptImages : x.image \in Images
  /\ \A u \in Streamers : channel[u] \in Channels \cup {NoChannel}
  /\ \A u \in Players : edited[u] <= save[u]

\* Each service deletes what its writes make wrong.  Beside the board's entries, a
\* cached list of popups or of channels is the stored one, and a cached profile is not
\* older than the last edit that was answered ("a written one shows at once"), unless
\* the delete is still to come or was lost, or the entry was filled from a read the
\* write overtook.  The two views of the current ranks, and the event's board and its
\* players, were made from one answer unless a set was lost.
ServedIsCurrent ==
  /\ FreshUnlessRaced
  /\ Trusted(ACTIVE) => store[ACTIVE].value = ActivePopups
  /\ Trusted(CHANNELS) => store[CHANNELS].value = Registered
  /\ \A u \in Players : Trusted(u) => store[u].value >= edited[u]
  /\ Trusted(RANKS) /\ Trusted(HOLDERS) => store[RANKS].value = store[HOLDERS].value
  /\ Trusted(BOARD) /\ Trusted(PLAYER) => store[BOARD].value = store[PLAYER].value
=============================================================================
