----------------------------- MODULE Streaming -----------------------------
(***************************************************************************)
(* Streaming channels and who is on air (streaming/service.py,             *)
(* streaming/adapters).  Only the players asked about are checked with the *)
(* platform.  Registrations and what the platform said are cached apart.   *)
(***************************************************************************)
EXTENDS CachedRequests, FiniteSets

CONSTANTS
  Streamers,  \* accounts; their names are unique regardless of case
  Channels,   \* channel ids
  NoChannel

ASSUME StreamingAssumption == NoChannel \notin Channels

VARIABLES
  channel,    \* stream_channels: the account's channel, or NoChannel
  onAir       \* the platform's channels that broadcast now

svars == <<channel, onAir>>

CHANNELS == "streaming:channels"

Registered == {[user |-> u, channel |-> channel[u]] : u \in {v \in Streamers : channel[v] # NoChannel}}

StreamingInit == channel = [u \in Streamers |-> NoChannel] /\ onAir = {}

\* A broadcast begins or ends.
Broadcast(c) ==
  /\ onAir' = (onAir \ {c}) \cup ({c} \ onAir)
  /\ UNCHANGED <<channel, job, writes, store>>

----------------------------------------------------------------------------
(* live_for *)

\* _registered_channels on a miss
ListChannels(q) == Miss(q, CHANNELS, Registered) /\ UNCHANGED svars

\* Checks of the players asked about among the registrations; they go on together.
Ask(q, registrations, npids) ==
  LET wanted == {r \in registrations : r.user \in npids}
  IN wanted # {} /\ To(q, [pc |-> "live", todo |-> wanted, found |-> {}])

\* live_for, with the registrations in the cache, or with those just read, whatever
\* becomes of the entry they are stored in.
LiveFor(q, npids) ==
  /\ \/ job[q] = Waiting /\ Cached(CHANNELS) /\ Ask(q, store[CHANNELS].value, npids)
        /\ UNCHANGED store
     \/ job[q].pc = "fill" /\ job[q].key = CHANNELS /\ Ask(q, job[q].value, npids)
        /\ Put(CHANNELS, job[q].value, job[q].late)
  /\ UNCHANGED <<svars, writes>>

\* _live: from the cache, where offline is an entry too, or from the platform; a
\* platform that cannot answer counts as offline, for as long as the entry lives.
\* The platform's answer and its storing are one step: nothing deletes these
\* entries, so a gap between the two only makes an entry older.
CheckLive(q, r) ==
  /\ job[q].pc = "live" /\ r \in job[q].todo
  /\ \E live \in BOOLEAN :
       /\ \/ Cached(r.channel) /\ live = store[r.channel].value /\ UNCHANGED store
          \/ Missed(r.channel) /\ live \in {r.channel \in onAir, FALSE} /\ Put(r.channel, live, FALSE)
       /\ To(q, [pc |-> "live", todo |-> job[q].todo \ {r},
                found |-> IF live THEN job[q].found \cup {r} ELSE job[q].found])
  /\ UNCHANGED <<svars, writes>>

Answer(q) ==
  /\ job[q].pc = "live" /\ job[q].todo = {}
  /\ To(q, Waiting)
  /\ UNCHANGED <<svars, writes, store>>

----------------------------------------------------------------------------
(* Registration *)

Link(q, u, c) ==
  /\ job[q] = Waiting /\ CountWrite
  /\ channel' = [channel EXCEPT ![u] = c]
  /\ Committed(q, {CHANNELS}, IF Registered' # Registered THEN {CHANNELS} ELSE {})
  /\ UNCHANGED <<onAir, store>>

\* Without uq_stream_channels_channel.
UpsertWrong(q, u, c) == Link(q, u, c)

\* register_channel, once the platform knows the channel: one account's at most
\* (uq_stream_channels_channel), or the request is refused.
Upsert(q, u, c) ==
  /\ \A v \in Streamers \ {u} : channel[v] # c
  /\ Link(q, u, c)

\* unregister_channel drops the list even when there was no row; remove_channel
\* answers 404 then.
Unlink(q, u, admin) ==
  /\ admin => channel[u] # NoChannel
  /\ Link(q, u, NoChannel)

StreamingNext ==
  \/ \E c \in Channels : Broadcast(c)
  \/ \E q \in Requests :
       \/ ListChannels(q) \/ Answer(q)
       \/ \E npids \in SUBSET Streamers : LiveFor(q, npids)
       \/ job[q].pc = "live" /\ \E r \in job[q].todo : CheckLive(q, r)
       \/ \E u \in Streamers : \/ \E c \in Channels : Upsert(q, u, c)
                           \/ \E admin \in BOOLEAN : Unlink(q, u, admin)

----------------------------------------------------------------------------
(* Properties *)

\* StreamChannelRow: "One channel belongs to one account, so a LIVE mark never sits
\* beside two players".  In one answer, put together from a cached list and from
\* checks made at different times while channels change hands, no channel is beside
\* two players, and no player has two.
OneLiveMark ==
  \A q \in Requests : job[q].pc = "live" =>
    \A x, y \in job[q].found : x.user = y.user <=> x.channel = y.channel
=============================================================================
