----------------------------- MODULE MCProgress -----------------------------
(***************************************************************************)
(* What must happen eventually, in five components that share nothing: a   *)
(* behaviour exercises one of them.  No symmetry.                          *)
(***************************************************************************)
EXTENDS Chat, RpcnConnection, Community, SaveCapture, Reservation

CONSTANTS u1, u2, d1, d2, s1, t1, t2, p1, a, b, ann, bob, cid, dan, c1, r1, host, guest, h1, l1

VARIABLE part   \* the component at work

ProgressInit ==
  /\ ChatInit /\ RInit /\ MInit /\ CaptureInit /\ Init
  /\ part \in {"chat", "rpcn", "community", "capture", "reservation"}
  /\ part # "community" => \A p \in Posts : posts[p] = NoPost

Only(p) ==
  /\ part = p /\ UNCHANGED part
  /\ p # "chat" => UNCHANGED chatvars
  /\ p # "rpcn" => UNCHANGED rvars
  /\ p # "community" => UNCHANGED mvars
  /\ p # "capture" => UNCHANGED capvars
  /\ p # "reservation" => UNCHANGED vars

\* Players differ in nothing: of those who upload for the first time the first in
\* this order is enough.
Uploaders == <<ann, bob, cid, dan>>
InOrder ==
  \A i \in 2 .. Len(Uploaders) :
    upload[Uploaders[i]] # NoSave \/ saves[Uploaders[i]] # NoSave =>
      upload[Uploaders[i - 1]] # NoSave \/ saves[Uploaders[i - 1]] # NoSave

ProgressNext ==
  \/ Only("chat") /\ ChatNext
  \/ Only("rpcn") /\ RNext
  \/ Only("community") /\ MNext
  \/ Only("capture") /\ CaptureNext /\ InOrder'
  \/ Only("reservation") /\ Next

\* Each component's own fairness.  All but the capture, which begins by itself, have
\* nothing to do until somebody asks them.
ProgressFairness ==
  /\ ChatFairness /\ RFairness /\ MFairness /\ Fairness
  /\ \A u \in Savers : WF_capvars(CommitUpload(u))
  /\ \A c \in Captures : WF_capvars(part = "capture" /\ CaptureStep(c))

ProgressSpec ==
  ProgressInit /\ [][ProgressNext]_<<chatvars, rvars, mvars, capvars, vars, part>> /\ ProgressFairness

MCKeys == {p1, LIST}
MCOffers == {[type |-> "any", ranked |-> TRUE, capacity |-> 1]}
=============================================================================
