-------------------------- MODULE SaveCaptureProofs --------------------------
(***************************************************************************)
(* Proofs about SaveCapture for any number of players, matches, uploads    *)
(* and failures, and any overlap and limit, with the one capture loop that *)
(* a deployment runs; about the pages and the tallies of MatchRecords for  *)
(* any lines and page size; and about the boards of Rankings for any saves *)
(* and exclusions.                                                         *)
(***************************************************************************)
EXTENDS SaveCapture, MatchRecords, Rankings, FiniteSetTheorems, TLAPS

----------------------------------------------------------------------------
(* The invariant *)

OneLoop == \A c, d \in Captures : c = d

Answer == [npid : Savers, id : Nat, wins : Nat, losses : Nat]

Types ==
  /\ lastId \in Nat
  /\ tally \in [Savers -> Record] /\ base \in [Savers -> Record]
  /\ upload \in [Savers -> Save] /\ saves \in [Savers -> Save]
  /\ kept \in [Savers -> State]
  /\ capture \in [Captures -> {NotCapturing} \cup Capture]

\* Ids are given out once; one that is shown, kept or read was given out.
Shown ==
  \A u, v \in Savers : saves[u].id # 0 /\ saves[u].id = saves[v].id => u = v
Underway ==
  \A u, v \in Savers : upload[u].id # 0 => /\ upload[u].id = upload[v].id => u = v
                                           /\ upload[u].id # saves[v].id
GivenOut(i) == i <= lastId
Ids ==
  /\ \A u \in Savers : GivenOut(upload[u].id) /\ GivenOut(saves[u].id) /\ GivenOut(kept[u].id)
  /\ Shown /\ Underway

\* What a capture has read; what it compares with is still the state kept.
Read(batch) == \A k \in DOMAIN batch : batch[k].id # 0 /\ GivenOut(batch[k].id)
Reading(c) ==
  capture[c] \in Capture =>
    /\ Read(capture[c].batch)
    /\ capture[c].pc = "compare" => /\ capture[c].batch # <<>>
                                    /\ capture[c].before = kept[Head(capture[c].batch).npid]

\* Events are of saves compared, and a player's first save has none.
Compared ==
  /\ IsFiniteSet(events)
  /\ \A e \in events : e.id # 0 /\ e.id \in Nat /\ e.npid \in Savers /\ e.id <= kept[e.npid].id
  /\ \A u \in Savers : kept[u].id = 0 => kept[u] = NoState

\* The inductive invariant.
CapInv == Types /\ Ids /\ (\A c \in Captures : Reading(c)) /\ Compared /\ TallyExplained

----------------------------------------------------------------------------
(* Players in the order of their saves *)

Upto(S, f, u) == {v \in S : f[v] <= f[u]}

LEMMA Ranks ==
  ASSUME NEW S, IsFiniteSet(S), NEW f \in [S -> Nat], \A x, y \in S : f[x] = f[y] => x = y
  PROVE  \A k \in 1 .. Cardinality(S) : \E u \in S : Cardinality(Upto(S, f, u)) = k
<1> DEFINE n == Cardinality(S)
           place == [u \in S |-> Cardinality(Upto(S, f, u))]
<1>1. n \in Nat
  BY FS_CardinalityType
<1>2. \A u \in S : IsFiniteSet(Upto(S, f, u)) /\ Cardinality(Upto(S, f, u)) \in 1 .. n
  <2> TAKE u \in S
  <2>1. IsFiniteSet(Upto(S, f, u)) /\ Cardinality(Upto(S, f, u)) <= n /\ Cardinality(Upto(S, f, u)) \in Nat
    BY FS_Subset, FS_CardinalityType DEF Upto
  <2>2. u \in Upto(S, f, u)
    BY DEF Upto
  <2>3. Cardinality(Upto(S, f, u)) # 0
    BY <2>1, <2>2, FS_EmptySet
  <2> QED
    BY <1>1, <2>1, <2>3
<1>3. ASSUME NEW x \in S, NEW y \in S, f[x] < f[y] PROVE place[x] # place[y]
  <2>1. Upto(S, f, x) \in SUBSET Upto(S, f, y)
    BY <1>3 DEF Upto
  <2>2. y \in Upto(S, f, y) /\ y \notin Upto(S, f, x)
    BY <1>3 DEF Upto
  <2>3. Cardinality(Upto(S, f, x)) # Cardinality(Upto(S, f, y))
    BY <1>2, <2>1, <2>2, FS_Subset
  <2> QED
    BY <2>3
<1>4. place \in Injection(S, 1 .. n)
  <2>1. place \in [S -> 1 .. n]
    BY <1>2
  <2>2. \A x, y \in S : x = y \/ f[x] < f[y] \/ f[y] < f[x]
    OBVIOUS
  <2> HIDE DEF place, n
  <2>3. \A x, y \in S : place[x] = place[y] => x = y
    BY <1>3, <2>2
  <2> QED
    BY <2>1, <2>3 DEF Injection, IsInjective
<1>5. IsFiniteSet(1 .. n) /\ Cardinality(1 .. n) = n
  BY <1>1, FS_Interval
<1>6. place \in Surjection(S, 1 .. n)
  <2> HIDE DEF place
  <2> QED
    BY <1>4, <1>5, FS_Injection DEF n
<1> QED
  BY <1>6 DEF Surjection

\* The greatest of some numbers: going up to a bound has an end.
LEMMA Greatest ==
  ASSUME NEW b \in Nat, NEW S \in SUBSET (0 .. b), S # {}
  PROVE  \E m \in S : \A k \in S : k <= m
<1> DEFINE Above == {i .. b : i \in S}
           R == StrictSubsetOrdering(Nat)
           F == FiniteSubsetsOf(Nat)
<1>1. Above \subseteq F /\ Above # {}
  <2>1. \A i \in S : i .. b \in F
    <3> TAKE i \in S
    <3>1. i \in Nat
      OBVIOUS
    <3>2. IsFiniteSet(i .. b) /\ i .. b \subseteq Nat
      BY <3>1, FS_Interval
    <3> QED
      BY <3>2 DEF FiniteSubsetsOf
  <2> QED
    BY <2>1
<1>2. PICK x \in Above : \A y \in Above : <<y, x>> \notin R
  <2>1. IsWellFoundedOn(R, F)
    BY FS_StrictSubsetOrderingWellFounded
  <2> HIDE DEF Above, R, F
  <2> QED
    BY <1>1, <2>1, WFMin
<1>3. PICK m \in S : x = m .. b
  OBVIOUS
<1>4. ASSUME NEW k \in S, m < k PROVE FALSE
  <2>0. k \in 0 .. b /\ m \in 0 .. b
    OBVIOUS
  <2>1. k .. b \subseteq m .. b /\ m \in m .. b /\ m \notin k .. b /\ m .. b \subseteq Nat
    BY <1>4, <2>0
  <2>2. <<k .. b, x>> \in R
    BY <1>3, <2>1 DEF StrictSubsetOrdering
  <2> QED
    BY <1>2, <2>2
<1> QED
  BY <1>4

----------------------------------------------------------------------------
(* Players and the save server *)

LEMMA CapInvInit == CaptureInit => CapInv
<1> SUFFICES ASSUME CaptureInit PROVE CapInv
  OBVIOUS
<1>1. Types
  BY DEF CaptureInit, Types, Record, NoSave, Save, NoState, State
<1>2. Ids
  BY DEF CaptureInit, Ids, Shown, Underway, GivenOut, NoSave, NoState
<1>3. \A c \in Captures : Reading(c)
  BY DEF CaptureInit, Reading, NotCapturing, Capture
<1>4. Compared
  BY FS_EmptySet DEF CaptureInit, Compared
<1>5. TallyExplained
  BY FS_EmptySet DEF CaptureInit, TallyExplained, NoState
<1> QED
  BY <1>1, <1>2, <1>3, <1>4, <1>5 DEF CapInv

LEMMA ServerStep ==
  ASSUME CapInv, UNCHANGED rest, Types', Ids', lastId <= lastId'
  PROVE  CapInv'
<1>1. \A i \in Nat : GivenOut(i) => GivenOut(i)'
  BY DEF CapInv, Types, GivenOut
<1>2. ASSUME NEW c \in Captures PROVE Reading(c)'
  <2> SUFFICES ASSUME capture[c] \in Capture PROVE Read(capture[c].batch)'
    BY DEF CapInv, Reading, rest
  <2>1. Read(capture[c].batch) /\ capture[c].batch \in Seq(Answer)
    BY DEF CapInv, Reading, Capture, Answer
  <2> DEFINE q == capture[c].batch
  <2>2. q' = q
    BY DEF rest
  <2> HIDE DEF q
  <2>3. \A k \in DOMAIN q : q[k] \in Answer
    BY <2>1 DEF q
  <2>4. \A k \in DOMAIN q : q[k].id \in Nat
    BY <2>3 DEF Answer
  <2>5. Read(q)'
    BY <1>1, <2>1, <2>2, <2>4 DEF Read, q
  <2> QED
    BY <2>5 DEF q
<1>3. Compared' /\ TallyExplained'
  BY DEF CapInv, Compared, TallyExplained, rest
<1> QED
  BY <1>2, <1>3 DEF CapInv

LEMMA PlayStep ==
  ASSUME CapInv, NEW u \in Savers, Play(u)
  PROVE  CapInv'
<1>1. UNCHANGED <<lastId, upload, saves, rest>>
  BY DEF Play
<1>2. tally' \in [Savers -> Record]
  <2>1. tally[u] \in Record
    BY DEF CapInv, Types
  <2>2. PICK r \in Record : tally' = [tally EXCEPT ![u] = r]
    <3>1. CASE tally' = [tally EXCEPT ![u].wins = @ + 1]
      <4>1. [tally[u] EXCEPT !.wins = @ + 1] \in Record
        BY <2>1 DEF Record
      <4> QED
        BY <3>1, <4>1
    <3>2. CASE tally' = [tally EXCEPT ![u].losses = @ + 1]
      <4>1. [tally[u] EXCEPT !.losses = @ + 1] \in Record
        BY <2>1 DEF Record
      <4> QED
        BY <3>2, <4>1
    <3> QED
      BY <3>1, <3>2 DEF Play
  <2> QED
    BY <2>2 DEF CapInv, Types
<1>3. Types'
  BY <1>1, <1>2 DEF CapInv, Types, rest
<1>4. Ids' /\ lastId <= lastId'
  BY <1>1 DEF CapInv, Types, Ids, Shown, Underway, GivenOut, rest
<1> QED
  BY <1>1, <1>3, <1>4, ServerStep

LEMMA BeginUploadStep ==
  ASSUME CapInv, NEW u \in Savers, BeginUpload(u)
  PROVE  CapInv'
<1> DEFINE new == [id |-> lastId + 1, wins |-> tally[u].wins, losses |-> tally[u].losses]
<1>1. /\ lastId' = lastId + 1 /\ upload' = [upload EXCEPT ![u] = new] /\ UNCHANGED <<tally, saves, rest>>
      /\ lastId \in Nat
  BY DEF BeginUpload, CapInv, Types
<1>2. new \in Save /\ new.id = lastId + 1
  <2>1. tally[u].wins \in Nat /\ tally[u].losses \in Nat
    BY DEF CapInv, Types, Record
  <2> QED
    BY <1>1, <2>1 DEF Save
<1> HIDE DEF new
<1>3. Types'
  BY <1>1, <1>2 DEF CapInv, Types, rest
<1>4. upload'[u] = new /\ \A v \in Savers : v # u => upload'[v] = upload[v]
  BY <1>1 DEF CapInv, Types
<1>5. \A v \in Savers : /\ saves[v].id \in Nat /\ saves[v].id <= lastId /\ kept[v].id \in Nat
                        /\ kept[v].id <= lastId /\ upload[v].id \in Nat /\ upload[v].id <= lastId
  BY DEF CapInv, Types, Ids, GivenOut, Save, State
<1>6. Ids'
  <2>1. \A v \in Savers : GivenOut(upload[v].id)' /\ GivenOut(saves[v].id)' /\ GivenOut(kept[v].id)'
    BY <1>1, <1>2, <1>4, <1>5 DEF GivenOut, rest
  <2>2. Shown'
    BY <1>1 DEF CapInv, Ids, Shown
  <2>3. Underway'
    BY <1>1, <1>2, <1>4, <1>5 DEF CapInv, Ids, Underway
  <2> QED
    BY <2>1, <2>2, <2>3 DEF Ids
<1> QED
  BY <1>1, <1>3, <1>6, ServerStep

LEMMA CommitUploadStep ==
  ASSUME CapInv, NEW u \in Savers, CommitUpload(u)
  PROVE  CapInv'
<1>1. /\ saves' = [saves EXCEPT ![u] = upload[u]] /\ upload' = [upload EXCEPT ![u] = NoSave]
      /\ UNCHANGED <<tally, lastId, rest>>
  BY DEF CommitUpload
<1>2. NoSave \in Save /\ NoSave.id = 0 /\ upload[u] \in Save
  BY DEF NoSave, Save, CapInv, Types
<1>3. Types'
  BY <1>1, <1>2 DEF CapInv, Types, rest
<1>4. /\ saves'[u] = upload[u] /\ upload'[u] = NoSave
      /\ \A v \in Savers : v # u => saves'[v] = saves[v] /\ upload'[v] = upload[v]
  BY <1>1 DEF CapInv, Types
<1>5. Ids'
  <2>1. \A v \in Savers : GivenOut(upload[v].id)' /\ GivenOut(saves[v].id)' /\ GivenOut(kept[v].id)'
    BY <1>1, <1>2, <1>4 DEF CapInv, Types, Ids, GivenOut, rest
  <2>2. Shown'
    BY <1>2, <1>4 DEF CapInv, Ids, Shown, Underway
  <2>3. Underway'
    BY <1>2, <1>4 DEF CapInv, Ids, Underway
  <2> QED
    BY <2>1, <2>2, <2>3 DEF Ids
<1> QED
  BY <1>1, <1>3, <1>5, ServerStep DEF CapInv, Types

LEMMA RestoreStep ==
  ASSUME CapInv, NEW u \in Savers, Restore(u)
  PROVE  CapInv'
<1>1. UNCHANGED <<lastId, upload, rest>> /\ saves[u] \in Save
  BY DEF Restore, CapInv, Types
<1>2. PICK w \in 0 .. saves[u].wins, n \in 0 .. saves[u].losses :
        /\ saves' = [saves EXCEPT ![u].wins = w, ![u].losses = n]
        /\ tally' = [tally EXCEPT ![u] = [wins |-> w, losses |-> n]]
  BY DEF Restore
<1> DEFINE r == [wins |-> w, losses |-> n]
           s == [saves[u] EXCEPT !.wins = w, !.losses = n]
<1>3. r \in Record /\ s \in Save /\ s.id = saves[u].id
  <2>1. w \in Nat /\ n \in Nat
    BY <1>1 DEF Save
  <2> QED
    BY <1>1, <2>1 DEF Record, Save
<1>4. saves' = [saves EXCEPT ![u] = s] /\ tally' = [tally EXCEPT ![u] = r]
  BY <1>1, <1>2 DEF CapInv, Types
<1> HIDE DEF r, s
<1>5. Types'
  BY <1>1, <1>3, <1>4 DEF CapInv, Types, rest
<1>6. \A v \in Savers : saves'[v].id = saves[v].id
  BY <1>3, <1>4 DEF CapInv, Types
<1>7. Ids'
  <2>1. \A v \in Savers : GivenOut(upload[v].id)' /\ GivenOut(saves[v].id)' /\ GivenOut(kept[v].id)'
    BY <1>1, <1>6 DEF CapInv, Ids, GivenOut, rest
  <2>2. Shown' /\ Underway'
    BY <1>1, <1>6 DEF CapInv, Ids, Shown, Underway
  <2> QED
    BY <2>1, <2>2 DEF Ids
<1> QED
  BY <1>1, <1>5, <1>7, ServerStep DEF CapInv, Types

----------------------------------------------------------------------------
(* A capture *)

LEMMA Busy ==
  ASSUME CapInv, NEW c \in Captures, capture[c].pc # "idle"
  PROVE  /\ capture[c] \in Capture /\ Read(capture[c].batch)
         /\ capture[c].after \in Nat /\ capture[c].batch \in Seq(Answer) /\ capture[c].before \in State
<1>1. capture[c] \in Capture
  BY DEF CapInv, Types, NotCapturing
<1>2. Read(capture[c].batch)
  BY <1>1 DEF CapInv, Reading
<1> QED
  BY <1>1, <1>2 DEF Capture, Answer

LEMMA OneCaptureStep ==
  ASSUME CapInv, NEW c \in Captures, NEW new \in {NotCapturing} \cup Capture,
         UNCHANGED <<server, kept, events, base>>, capture' = [capture EXCEPT ![c] = new],
         new \in Capture => /\ Read(new.batch)
                            /\ new.pc = "compare" => /\ new.batch # <<>>
                                                     /\ new.before = kept[Head(new.batch).npid]
  PROVE  CapInv'
<1>1. Types'
  BY DEF CapInv, Types, server
<1>2. Ids'
  BY DEF CapInv, Ids, Shown, Underway, GivenOut, server
<1>3. capture'[c] = new /\ \A d \in Captures : d # c => capture'[d] = capture[d]
  BY DEF CapInv, Types
<1>4. \A d \in Captures : Reading(d)'
  BY <1>3 DEF CapInv, Reading, Read, GivenOut, server
<1>5. Compared' /\ TallyExplained'
  BY DEF CapInv, Compared, TallyExplained
<1> QED
  BY <1>1, <1>2, <1>4, <1>5 DEF CapInv

LEMMA ReadLatestStep ==
  ASSUME CapInv, NEW c \in Captures, ReadLatest(c)
  PROVE  CapInv'
<1> DEFINE a == IF Latest > CAPTURE_OVERLAP THEN Latest - CAPTURE_OVERLAP ELSE 0
           new == [pc |-> "ask", after |-> a, batch |-> <<>>, before |-> NoState]
           ids == {kept[u].id : u \in Savers}
<1>1. capture' = [capture EXCEPT ![c] = new] /\ UNCHANGED <<server, kept, rowLock, events, failures, base>>
  BY DEF ReadLatest
<1>2. a \in Nat
  <2>1. lastId \in Nat /\ ids \in SUBSET (0 .. lastId) /\ ids # {}
    BY CaptureAssumption DEF CapInv, Types, Ids, GivenOut, State
  <2>2. Latest = CHOOSE i \in ids : \A j \in ids : j <= i
    BY DEF Latest
  <2>3. \E i \in ids : \A j \in ids : j <= i
    <3> HIDE DEF ids
    <3> QED
      BY <2>1, Greatest
  <2>4. Latest \in ids
    <3> HIDE DEF ids
    <3> QED
      BY <2>2, <2>3, Zenon
  <2>5. Latest \in Nat
    BY <2>1, <2>4
  <2> QED
    BY <2>5, CaptureAssumption
<1>3. new \in Capture /\ new.pc = "ask" /\ Read(new.batch)
  <2>1. NoState \in State /\ Read(<<>>)
    BY DEF NoState, State, Read
  <2> HIDE DEF a
  <2> QED
    BY <1>2, <2>1 DEF Capture
<1> HIDE DEF new
<1> QED
  BY <1>1, <1>3, OneCaptureStep

LEMMA ReadChangedStep ==
  ASSUME CapInv, NEW c \in Captures, ReadChanged(c)
  PROVE  CapInv'
<1> DEFINE a == capture[c].after
           S == {u \in Savers : saves[u].id > a}
           n == Cardinality(S)
           many == IF n < CAPTURE_LIMIT THEN n ELSE CAPTURE_LIMIT
           at(k) == CHOOSE u \in S : Cardinality({v \in S : saves[v].id <= saves[u].id}) = k
           answer(k) == [npid |-> at(k), id |-> saves[at(k)].id,
                         wins |-> saves[at(k)].wins, losses |-> saves[at(k)].losses]
           batch == [k \in 1 .. many |-> answer(k)]
           new == [pc |-> "next", after |-> a, before |-> NoState, batch |-> batch]
<1>1. /\ capture[c].pc = "ask" /\ capture' = [capture EXCEPT ![c] = new]
      /\ UNCHANGED <<server, kept, rowLock, events, failures, base>>
  <2>1. capture' = [capture EXCEPT ![c] = new]
    BY Zenon DEF ReadChanged
  <2> HIDE DEF new
  <2> QED
    BY <2>1 DEF ReadChanged
<1>2. capture[c] \in Capture /\ a \in Nat
  BY <1>1, Busy
<1>3. /\ \A u \in Savers : saves[u] \in Save /\ saves[u].id \in Nat /\ saves[u].id <= lastId
      /\ lastId \in Nat
  BY DEF CapInv, Types, Ids, GivenOut, Save
<1>4. \A u, v \in S : saves[u].id = saves[v].id => u = v
  BY <1>2, <1>3 DEF CapInv, Ids, Shown
<1> DEFINE f == [u \in S |-> saves[u].id]
<1>5. f \in [S -> Nat] /\ f \in [S -> 0 .. lastId] /\ (\A x, y \in S : f[x] = f[y] => x = y)
  BY <1>3, <1>4
<1>6. IsFiniteSet(S)
  <2>1. IsFiniteSet(0 .. lastId)
    BY <1>3, FS_Interval
  <2>2. f \in Injection(S, 0 .. lastId)
    <3> HIDE DEF f, S
    <3> QED
      BY <1>5 DEF Injection, IsInjective
  <2> HIDE DEF f, S
  <2> QED
    BY <2>1, <2>2, FS_Injection
<1>7. n \in Nat /\ many \in Nat /\ many <= n
  <2>1. n \in Nat
    BY <1>6, FS_CardinalityType
  <2> HIDE DEF n
  <2> QED
    BY <2>1, CaptureAssumption
<1>8. ASSUME NEW k \in 1 .. many PROVE at(k) \in S
  <2>1. \E u \in S : Cardinality(Upto(S, f, u)) = k
    <3>1. k \in 1 .. n
      BY <1>7
    <3>2. \A j \in 1 .. Cardinality(S) : \E u \in S : Cardinality(Upto(S, f, u)) = j
      <4> HIDE DEF f, S
      <4> QED
        BY <1>5, <1>6, Ranks
    <3> HIDE DEF f, S
    <3> QED
      BY <3>1, <3>2 DEF n
  <2>2. ASSUME NEW u \in S PROVE Upto(S, f, u) = {v \in S : saves[v].id <= saves[u].id}
    BY DEF f, Upto
  <2>3. \E u \in S : Cardinality({v \in S : saves[v].id <= saves[u].id}) = k
    BY <2>1, <2>2
  <2> HIDE DEF S
  <2> QED
    BY <2>3
<1>9. ASSUME NEW k \in 1 .. many PROVE answer(k) \in Answer /\ answer(k).id # 0 /\ GivenOut(answer(k).id)
  <2> DEFINE u == at(k)
  <2>1. u \in Savers /\ saves[u].id > a
    BY <1>8
  <2> HIDE DEF u
  <2>2. [npid |-> u, id |-> saves[u].id, wins |-> saves[u].wins, losses |-> saves[u].losses] \in Answer
    BY <1>3, <2>1 DEF Answer, Save
  <2>3. saves[u].id # 0 /\ GivenOut(saves[u].id)
    BY <1>2, <1>3, <2>1 DEF GivenOut
  <2> QED
    BY <2>2, <2>3 DEF u
<1>10. batch \in Seq(Answer) /\ Read(batch)
  <2> HIDE DEF answer, many
  <2> QED
    BY <1>7, <1>9 DEF Read
<1> HIDE DEF batch
<1>11. new \in Capture /\ new.pc = "next" /\ new.batch = batch
  <2>1. NoState \in State
    BY DEF NoState, State
  <2> HIDE DEF a
  <2> QED
    BY <1>2, <1>10, <2>1 DEF Capture, Answer
<1> HIDE DEF new
<1> QED
  BY <1>1, <1>10, <1>11, OneCaptureStep

LEMMA LockStateStep ==
  ASSUME CapInv, NEW c \in Captures, LockState(c)
  PROVE  CapInv'
<1> DEFINE u == Head(capture[c].batch).npid
           new == [pc |-> "compare", after |-> capture[c].after, batch |-> capture[c].batch, before |-> kept[u]]
<1>1. /\ capture[c].pc = "next" /\ capture[c].batch # <<>> /\ capture' = [capture EXCEPT ![c] = new]
      /\ UNCHANGED <<server, kept, events, failures, base>>
  <2>1. capture' = [capture EXCEPT ![c] = new]
    BY Zenon DEF LockState
  <2> HIDE DEF new
  <2> QED
    BY <2>1 DEF LockState
<1>2. capture[c] \in Capture /\ Read(capture[c].batch)
  BY <1>1, Busy
<1>3. kept[u] \in State
  <2> DEFINE q == capture[c].batch
  <2>1. q \in Seq(Answer) /\ q # <<>>
    BY <1>1, Busy
  <2>2. Head(q) \in Answer
    <3> HIDE DEF q
    <3> QED
      BY <2>1
  <2>3. u \in Savers
    BY <2>2 DEF Answer
  <2> QED
    BY <2>3 DEF CapInv, Types
<1>4. new \in Capture /\ new.batch = capture[c].batch /\ new.before = kept[Head(new.batch).npid]
  <2> HIDE DEF u
  <2>1. new \in Capture /\ new.batch = capture[c].batch /\ new.before = kept[u]
    BY <1>1, <1>2, <1>3, Busy DEF Capture, Answer
  <2> QED
    BY <2>1 DEF u
<1> HIDE DEF new, u
<1> QED
  BY <1>1, <1>2, <1>4, OneCaptureStep

\* The answer at hand, and where the capture is once it is dealt with.
NextOf(c) == [pc |-> "next", after |-> capture[c].after, batch |-> Tail(capture[c].batch), before |-> NoState]

LEMMA AtHand ==
  ASSUME CapInv, NEW c \in Captures, capture[c].pc = "compare"
  PROVE  /\ Head(capture[c].batch) \in Answer /\ Head(capture[c].batch).id # 0
         /\ GivenOut(Head(capture[c].batch).id)
         /\ capture[c].before = kept[Head(capture[c].batch).npid]
         /\ NextOf(c) \in Capture /\ NextOf(c).pc = "next" /\ Read(NextOf(c).batch)
<1> DEFINE q == capture[c].batch
           r == Tail(q)
<1>1. capture[c] \in Capture /\ q \in Seq(Answer) /\ Read(q) /\ capture[c].after \in Nat
  BY Busy
<1>2. q # <<>> /\ capture[c].before = kept[Head(q).npid]
  BY <1>1 DEF CapInv, Reading
<1>3. /\ Head(q) \in Answer /\ r \in Seq(Answer) /\ Head(q) = q[1] /\ 1 \in DOMAIN q
      /\ \A k \in DOMAIN r : k + 1 \in DOMAIN q /\ r[k] = q[k + 1]
  <2> HIDE DEF q
  <2> QED
    BY <1>1, <1>2
<1>4. Head(q).id # 0 /\ GivenOut(Head(q).id) /\ Read(r)
  <2> HIDE DEF q, r
  <2> QED
    BY <1>1, <1>3 DEF Read
<1>5. NextOf(c) \in Capture /\ NextOf(c).pc = "next" /\ NextOf(c).batch = r
  <2> HIDE DEF r
  <2>1. NoState \in State
    BY DEF NoState, State
  <2>2. [pc |-> "next", after |-> capture[c].after, batch |-> r, before |-> NoState] \in Capture
    BY <1>1, <1>3, <2>1 DEF Capture, Answer
  <2> QED
    BY <2>2 DEF NextOf, r
<1> QED
  BY <1>2, <1>3, <1>4, <1>5

LEMMA NextSaveFacts ==
  ASSUME NEW c \in Captures, NextSave(c)
  PROVE  capture' = [capture EXCEPT ![c] = NextOf(c)]
BY Zenon DEF NextSave, NextOf

LEMMA QuietCaptureStep ==
  ASSUME CapInv, NEW c \in Captures, Skip(c) \/ FailCompare(c) \/ FailCapture(c) \/ EndCapture(c)
  PROVE  CapInv'
<1>1. CASE Skip(c) \/ FailCompare(c)
  <2>1. /\ capture[c].pc = "compare" /\ NextSave(c) /\ UNCHANGED <<server, kept, events, base>>
    BY <1>1 DEF Skip, FailCompare
  <2>2. capture' = [capture EXCEPT ![c] = NextOf(c)]
    BY <2>1, NextSaveFacts
  <2>3. NextOf(c) \in Capture /\ NextOf(c).pc = "next" /\ Read(NextOf(c).batch)
    BY <2>1, AtHand
  <2> QED
    BY <2>1, <2>2, <2>3, OneCaptureStep
<1>2. CASE FailCapture(c) \/ EndCapture(c)
  <2>1. capture' = [capture EXCEPT ![c] = NotCapturing] /\ UNCHANGED <<server, kept, events, base>>
    BY <1>2 DEF FailCapture, EndCapture
  <2>2. NotCapturing \notin Capture
    BY DEF NotCapturing, Capture
  <2> QED
    BY <2>1, <2>2, OneCaptureStep
<1> QED
  BY <1>1, <1>2

\* An answer newer than what is kept of its player replaces it, perhaps with an event.
LEMMA KeepStep ==
  ASSUME CapInv, OneLoop, NEW c \in Captures, capture[c].pc = "compare", NextSave(c), UNCHANGED server,
         NEW s \in Answer, s = Head(capture[c].batch), kept[s.npid].id < s.id,
         NEW new \in State, new.id = s.id, kept' = [kept EXCEPT ![s.npid] = new],
         base' \in [Savers -> Record],
         \/ events' = events
         \/ \E won : events' = events \cup {[npid |-> s.npid, id |-> s.id, won |-> won]},
         TallyExplained'
  PROVE  CapInv'
<1>1. /\ capture' = [capture EXCEPT ![c] = NextOf(c)] /\ NextOf(c) \in Capture
      /\ NextOf(c).pc = "next" /\ Read(NextOf(c).batch)
  BY NextSaveFacts, AtHand
<1>2. s.npid \in Savers /\ s.id \in Nat /\ s.id # 0 /\ GivenOut(s.id)
  BY AtHand DEF Answer
<1>3. kept'[s.npid] = new /\ \A u \in Savers : u # s.npid => kept'[u] = kept[u]
  BY <1>2 DEF CapInv, Types
<1>4. Types'
  BY <1>1, <1>2 DEF CapInv, Types, server
<1>5. Ids'
  <2>1. \A u \in Savers : GivenOut(upload[u].id)' /\ GivenOut(saves[u].id)' /\ GivenOut(kept[u].id)'
    BY <1>2, <1>3 DEF CapInv, Ids, GivenOut, server
  <2> QED
    BY <2>1 DEF CapInv, Ids, Shown, Underway, server
<1>6. ASSUME NEW d \in Captures PROVE Reading(d)'
  <2>1. d = c /\ capture'[d] = NextOf(c)
    BY <1>1 DEF OneLoop, CapInv, Types
  <2> QED
    BY <1>1, <2>1 DEF Reading, Read, GivenOut, server
<1>7. Compared'
  <2>1. IsFiniteSet(events')
    <3>1. IsFiniteSet(events)
      BY DEF CapInv, Compared
    <3>2. \A e : IsFiniteSet(events \cup {e})
      BY <3>1, FS_AddElement
    <3> QED
      BY <3>1, <3>2
  <2>2. \A u \in Savers : kept[u].id \in Nat /\ kept'[u].id \in Nat /\ kept[u].id <= kept'[u].id
    BY <1>2, <1>3, <1>4 DEF CapInv, Types, State
  <2>3. \A e \in events : e.id # 0 /\ e.id \in Nat /\ e.npid \in Savers /\ e.id <= kept'[e.npid].id
    BY <2>2 DEF CapInv, Compared
  <2>4. ASSUME NEW won, NEW e, e = [npid |-> s.npid, id |-> s.id, won |-> won]
        PROVE  e.id # 0 /\ e.id \in Nat /\ e.npid \in Savers /\ e.id <= kept'[e.npid].id
    BY <1>2, <1>3, <2>4
  <2>5. \A u \in Savers : kept'[u].id = 0 => kept'[u] = NoState
    BY <1>2, <1>3 DEF CapInv, Compared
  <2>6. \A e \in events' : e.id # 0 /\ e.id \in Nat /\ e.npid \in Savers /\ e.id <= kept'[e.npid].id
    BY <2>3, <2>4
  <2> QED
    BY <2>1, <2>5, <2>6 DEF Compared
<1> QED
  BY <1>4, <1>5, <1>6, <1>7 DEF CapInv

\* The matches of one player, by result, and what TallyExplained says of that player.
Wins(u) == {e \in events : e.npid = u /\ e.won}
Losses(u) == {e \in events : e.npid = u /\ ~e.won}
Explained(u) ==
  kept[u].merged = 0 => /\ kept[u].wins = base[u].wins + Cardinality(Wins(u))
                        /\ kept[u].losses = base[u].losses + Cardinality(Losses(u))

LEMMA Explanations ==
  /\ TallyExplained <=> \A u \in Savers : Explained(u)
  /\ TallyExplained' <=> \A u \in Savers : Explained(u)'
BY DEF TallyExplained, Explained, Wins, Losses

LEMMA BaselineStep ==
  ASSUME CapInv, OneLoop, NEW c \in Captures, Baseline(c)
  PROVE  CapInv'
<1> PICK s : s = Head(capture[c].batch)
  OBVIOUS
<1> PICK u : u = s.npid
  OBVIOUS
<1> DEFINE first == [wins |-> s.wins, losses |-> s.losses]
           new == [id |-> s.id, wins |-> s.wins, losses |-> s.losses, merged |-> kept[u].merged + 0]
<1>1. /\ capture[c].pc = "compare" /\ capture[c].before = NoState /\ NextSave(c)
      /\ UNCHANGED <<server, events, failures>>
  BY DEF Baseline
<1>2. /\ kept' = [kept EXCEPT ![u] = new]
      /\ base' = IF kept[u] = NoState THEN [base EXCEPT ![u] = first] ELSE base
  BY DEF Baseline, KeepState
<1>3. s \in Answer /\ s.id # 0 /\ kept[u] = NoState /\ s = Head(capture[c].batch)
  BY <1>1, AtHand
<1>4. /\ u \in Savers /\ s.id \in Nat /\ s.wins \in Nat /\ s.losses \in Nat /\ u = s.npid
  BY <1>3 DEF Answer
<1>5. kept[u].id = 0 /\ kept[u].merged = 0
  BY <1>3 DEF NoState
<1>6. new = [id |-> s.id, wins |-> s.wins, losses |-> s.losses, merged |-> 0] /\ new \in State /\ first \in Record
  BY <1>4, <1>5 DEF State, Record
<1>7. new.id = s.id /\ new.wins = s.wins /\ new.losses = s.losses /\ first.wins = s.wins /\ first.losses = s.losses
  BY <1>6
<1> HIDE DEF new, first
<1>8. base' = [base EXCEPT ![u] = first]
  BY <1>2, <1>3
<1>9. base' \in [Savers -> Record] /\ base'[u] = first /\ kept'[u] = new
  BY <1>2, <1>4, <1>6, <1>8 DEF CapInv, Types
<1>10. TallyExplained'
  <2>1. ASSUME NEW v \in Savers, v # u PROVE Explained(v)'
    <3>1. kept'[v] = kept[v] /\ base'[v] = base[v] /\ Wins(v)' = Wins(v) /\ Losses(v)' = Losses(v)
      BY <1>1, <1>2, <1>8, <2>1 DEF CapInv, Types, Wins, Losses
    <3> QED
      BY <3>1, Explanations DEF CapInv, Explained
  <2>2. Explained(u)'
    <3>1. \A e \in events : e.npid # u
      <4> SUFFICES ASSUME NEW e \in events, e.npid = u PROVE FALSE
        OBVIOUS
      <4>1. e.id # 0 /\ e.id \in Nat /\ e.id <= kept[u].id
        BY DEF CapInv, Compared
      <4> QED
        BY <1>5, <4>1
    <3>2. Wins(u)' = {} /\ Losses(u)' = {}
      BY <1>1, <3>1 DEF Wins, Losses
    <3>3. Cardinality(Wins(u)') = 0 /\ Cardinality(Losses(u)') = 0
      BY <3>2, FS_EmptySet
    <3> QED
      BY <1>4, <1>7, <1>9, <3>3 DEF Explained
  <2> QED
    BY <2>1, <2>2, Explanations
<1>11. kept[u].id < s.id
  BY <1>3, <1>4, <1>5
<1> QED
  BY <1>1, <1>2, <1>3, <1>4, <1>6, <1>7, <1>9, <1>10, <1>11, KeepStep

LEMMA CompareStep ==
  ASSUME CapInv, OneLoop, NEW c \in Captures, Compare(c)
  PROVE  CapInv'
<1> PICK s : s = Head(capture[c].batch)
  OBVIOUS
<1> PICK u : u = s.npid
  OBVIOUS
<1> PICK before : before = kept[u]
  OBVIOUS
<1> PICK e : e = [npid |-> u, id |-> s.id, won |-> Won(before, s)]
  OBVIOUS
<1> DEFINE merged == kept[u].merged + IF SeveralPlayed(before, s) THEN 1 ELSE 0
           new == [id |-> s.id, wins |-> s.wins, losses |-> s.losses, merged |-> merged]
<1>1. /\ capture[c].pc = "compare" /\ s.id > capture[c].before.id /\ NextSave(c)
      /\ UNCHANGED <<server, failures, base>> /\ capture[c].before = before /\ s = Head(capture[c].batch)
  BY AtHand DEF Compare
<1>2. /\ kept' = [kept EXCEPT ![u] = new]
      /\ events' = events \cup {x \in {e} : (Won(before, s) \/ Lost(before, s)) /\ ~Queued(s)}
  BY <1>1 DEF Compare, KeepState
<1>3. s \in Answer /\ s.id # 0
  BY <1>1, AtHand
<1>4. u \in Savers /\ s.id \in Nat /\ s.wins \in Nat /\ s.losses \in Nat /\ u = s.npid
  BY <1>3 DEF Answer
<1>5. before \in State /\ kept[u].id < s.id
  BY <1>1, <1>4 DEF CapInv, Types, State
<1>6. merged \in Nat /\ before = kept[u] /\ (merged = 0 => before.merged = 0 /\ ~SeveralPlayed(before, s))
  BY <1>5 DEF State
<1> HIDE DEF merged
<1>7. new \in State /\ new.id = s.id /\ new.wins = s.wins /\ new.losses = s.losses /\ new.merged = merged
  BY <1>4, <1>6 DEF State
<1> HIDE DEF new
<1>8. kept'[u] = new
  BY <1>2, <1>4 DEF CapInv, Types
<1>9. \A x \in events : x.npid = u => x.id # s.id
  <2> SUFFICES ASSUME NEW x \in events, x.npid = u PROVE x.id # s.id
    OBVIOUS
  <2>1. x.id \in Nat /\ x.id <= kept[u].id
    BY DEF CapInv, Compared
  <2> QED
    BY <1>4, <1>5, <2>1 DEF State
<1>10. ~Queued(s)
  BY <1>4, <1>9 DEF Queued
<1>11. events' = IF Won(before, s) \/ Lost(before, s) THEN events \cup {e} ELSE events
  BY <1>2, <1>10
<1>12. e.npid = u /\ e.id = s.id /\ e.won = Won(before, s) /\ e \notin events
  BY <1>9
<1>13. TallyExplained'
  <2>1. ASSUME NEW v \in Savers, v # u PROVE Explained(v)'
    <3>1. kept'[v] = kept[v] /\ base'[v] = base[v]
      BY <1>1, <1>2, <2>1 DEF CapInv, Types
    <3>2. Wins(v)' = Wins(v) /\ Losses(v)' = Losses(v)
      BY <1>11, <1>12, <2>1 DEF Wins, Losses
    <3> QED
      BY <3>1, <3>2, Explanations DEF CapInv, Explained
  <2>2. Explained(u)'
    <3> SUFFICES ASSUME merged = 0
                 PROVE  /\ s.wins = base[u].wins + Cardinality(Wins(u)')
                        /\ s.losses = base[u].losses + Cardinality(Losses(u)')
      BY <1>1, <1>7, <1>8 DEF Explained
    <3>1. /\ before.wins = base[u].wins + Cardinality(Wins(u))
          /\ before.losses = base[u].losses + Cardinality(Losses(u))
      BY <1>4, <1>6, Explanations DEF CapInv, Explained
    <3>2. IsFiniteSet(Wins(u)) /\ IsFiniteSet(Losses(u))
      BY Zenon, FS_Subset DEF CapInv, Compared, Wins, Losses
    <3>3. /\ Cardinality(Wins(u)) \in Nat /\ Cardinality(Losses(u)) \in Nat
          /\ before.wins \in Nat /\ before.losses \in Nat /\ base[u].wins \in Nat /\ base[u].losses \in Nat
      BY <1>4, <1>5, <3>2, FS_CardinalityType DEF CapInv, Types, State, Record
    <3>4. \A S, x : IsFiniteSet(S) /\ x \notin S => Cardinality(S \cup {x}) = Cardinality(S) + 1
      BY FS_AddElement
    <3>5. CASE Won(before, s)
      <4>1. s.wins = before.wins + 1 /\ s.losses = before.losses
        BY <3>5 DEF Won
      <4>2. Wins(u)' = Wins(u) \cup {e} /\ e \notin Wins(u) /\ Losses(u)' = Losses(u)
        BY <1>11, <1>12, <3>5, Zenon DEF Wins, Losses
      <4>3. Cardinality(Wins(u)') = Cardinality(Wins(u)) + 1
        BY <3>2, <3>4, <4>2, Zenon
      <4>4. Cardinality(Losses(u)') = Cardinality(Losses(u))
        BY <4>2, Zenon
      <4>5. before.losses = base[u].losses + Cardinality(Losses(u)')
        BY <3>1, <4>4, Zenon
      <4>6. before.wins + 1 = base[u].wins + (Cardinality(Wins(u)) + 1)
        BY <3>1, <3>3
      <4>7. before.wins + 1 = base[u].wins + Cardinality(Wins(u)')
        BY <4>3, <4>6, Zenon
      <4> QED
        BY <4>1, <4>5, <4>7, Zenon
    <3>6. CASE Lost(before, s)
      <4>1. s.wins = before.wins /\ s.losses = before.losses + 1 /\ ~Won(before, s)
        BY <3>3, <3>6 DEF Won, Lost
      <4>2. Losses(u)' = Losses(u) \cup {e} /\ e \notin Losses(u) /\ Wins(u)' = Wins(u)
        BY <1>11, <1>12, <3>6, <4>1, Zenon DEF Wins, Losses
      <4>3. Cardinality(Losses(u)') = Cardinality(Losses(u)) + 1
        BY <3>2, <3>4, <4>2, Zenon
      <4>4. Cardinality(Wins(u)') = Cardinality(Wins(u))
        BY <4>2, Zenon
      <4>5. before.wins = base[u].wins + Cardinality(Wins(u)')
        BY <3>1, <4>4, Zenon
      <4>6. before.losses + 1 = base[u].losses + (Cardinality(Losses(u)) + 1)
        BY <3>1, <3>3
      <4>7. before.losses + 1 = base[u].losses + Cardinality(Losses(u)')
        BY <4>3, <4>6, Zenon
      <4> QED
        BY <4>1, <4>5, <4>7, Zenon
    <3>7. CASE ~Won(before, s) /\ ~Lost(before, s)
      <4>1. s.wins = before.wins /\ s.losses = before.losses
        BY <1>6, <3>7 DEF SeveralPlayed, Same
      <4>2. Wins(u)' = Wins(u) /\ Losses(u)' = Losses(u)
        BY <1>11, <3>7 DEF Wins, Losses
      <4> QED
        BY <3>1, <4>1, <4>2
    <3> QED
      BY <3>5, <3>6, <3>7
  <2> QED
    BY <2>1, <2>2, Explanations
<1>14. events' = events \/ \E won : events' = events \cup {[npid |-> s.npid, id |-> s.id, won |-> won]}
  BY <1>4, <1>11
<1>15. base' \in [Savers -> Record]
  BY <1>1 DEF CapInv, Types
<1> QED
  BY <1>1, <1>2, <1>3, <1>4, <1>5, <1>7, <1>13, <1>14, <1>15, KeepStep

----------------------------------------------------------------------------
(* Theorems *)

LEMMA CapInvStep == CapInv /\ OneLoop /\ [CaptureNext]_capvars => CapInv'
<1> SUFFICES ASSUME CapInv, OneLoop, [CaptureNext]_capvars PROVE CapInv'
  OBVIOUS
<1>1. CASE \E u \in Savers : Play(u) \/ BeginUpload(u) \/ CommitUpload(u) \/ Restore(u)
  BY <1>1, PlayStep, BeginUploadStep, CommitUploadStep, RestoreStep
<1>2. CASE \E c \in Captures : CaptureStep(c) \/ FailCompare(c) \/ FailCapture(c)
  BY <1>2, ReadLatestStep, ReadChangedStep, LockStateStep, BaselineStep, CompareStep, QuietCaptureStep
     DEF CaptureStep
<1>3. CASE UNCHANGED capvars
  <2>1. UNCHANGED rest /\ UNCHANGED server
    BY <1>3 DEF capvars, rest
  <2>2. Types' /\ Ids' /\ lastId <= lastId'
    BY <2>1 DEF server, rest, CapInv, Types, Ids, Shown, Underway, GivenOut
  <2> QED
    BY <2>1, <2>2, ServerStep
<1> QED
  BY <1>1, <1>2, <1>3 DEF CaptureNext

\* With one capture loop, the inductive invariant holds in every behaviour
\* (records/service.py capture, records/workers.py SaveCapture).
THEOREM CaptureInvariant ==
  ASSUME OneLoop
  PROVE  CaptureSpec => []CapInv
<1>1. CaptureInit => CapInv
  BY CapInvInit
<1>2. CapInv /\ [CaptureNext]_capvars => CapInv'
  BY CapInvStep
<1> QED
  BY <1>1, <1>2, PTL DEF CaptureSpec

\* "Comparing a save and queueing its match commit together": with one capture loop,
\* the first tally kept of a player and the events since then add up to the tally
\* kept now, as long as no change was too large to split, whatever uploads overtake
\* each other, backups are restored, and comparisons or captures fail.
THEOREM TalliesAddUp ==
  ASSUME OneLoop
  PROVE  CaptureSpec => []TallyExplained
<1>1. CapInv => TallyExplained
  BY DEF CapInv
<1> QED
  BY <1>1, CaptureInvariant, PTL

----------------------------------------------------------------------------
(* Paging through the recorded matches *)

Reader ==
  [who : Names \cup {NoOne}, before : Nat, shown : Seq(Nat), there : SUBSET Nat, done : BOOLEAN]

RecTypeOK ==
  /\ match \in Seq(Match) /\ Len(match) <= MaxMatches
  /\ born \subseteq DOMAIN match
  /\ reader \in Reader

\* Of the lines that were there, those not shown come before the next page, and what
\* was shown after it.
Remaining ==
  /\ ~reader.done => \A k \in DOMAIN reader.shown : reader.before <= reader.shown[k]
  /\ reader.there \subseteq LinesOf(reader.who)
  /\ \A i \in reader.there : i \in ToSet(reader.shown) \/ (~reader.done /\ i < reader.before)

RecInv == RecTypeOK /\ Remaining /\ PagesComplete

LEMMA RecInitInv == RecInit => RecInv
<1> SUFFICES ASSUME RecInit PROVE RecInv
  OBVIOUS
<1>1. match = <<>> /\ born = {} /\ reader.who = NoOne /\ reader.before = 0 /\ reader.shown = <<>>
      /\ reader.there = {} /\ reader \in Reader
  BY DEF RecInit, NoReader, Reader
<1>2. Len(match) = 0 /\ Len(reader.shown) = 0 /\ match \in Seq(Match)
  BY <1>1
<1>3. QED
  BY <1>1, <1>2, RecordsAssumption DEF RecInv, RecTypeOK, Remaining, PagesComplete

\* Lines are only added, and their players do not change.
LEMMA LinesStay ==
  ASSUME RecInv, RecTypeOK', UNCHANGED reader, born \subseteq born',
         \A i \in born : match'[i].p1 = match[i].p1 /\ match'[i].p2 = match[i].p2
  PROVE  RecInv'
BY DEF RecInv, Remaining, PagesComplete, LinesOf

LEMMA AddStep ==
  ASSUME RecInv, Add
  PROVE  RecInv'
<1>1. PICK m \in Lines : match' = Append(match, m)
  BY DEF Add
<1>2. m \in Match /\ match \in Seq(Match) /\ Len(match) < MaxMatches /\ UNCHANGED <<born, reader>>
  BY RecordsAssumption DEF RecInv, RecTypeOK, Add
<1>3. match' \in Seq(Match) /\ Len(match') = Len(match) + 1 /\ \A i \in DOMAIN match : match'[i] = match[i]
  BY <1>1, <1>2
<1>4. DOMAIN match' = 1 .. Len(match) + 1 /\ DOMAIN match = 1 .. Len(match) /\ Len(match) \in Nat
  BY <1>2, <1>3
<1>5. RecTypeOK'
  BY <1>2, <1>3, <1>4, RecordsAssumption DEF RecInv, RecTypeOK
<1>6. QED
  BY <1>2, <1>3, <1>5, LinesStay DEF RecInv, RecTypeOK

LEMMA FillStep ==
  ASSUME RecInv, NEW i \in DOMAIN match, Commit(i) \/ FillSide(i)
  PROVE  RecInv'
<1>1. CASE Commit(i)
  <2>1. RecTypeOK'
    BY <1>1 DEF Commit, RecInv, RecTypeOK
  <2>2. QED
    BY <1>1, <2>1, LinesStay DEF Commit
<1>2. CASE FillSide(i)
  <2>1. match \in Seq(Match) /\ match[i] \in Match /\ UNCHANGED <<born, reader>>
    BY <1>2 DEF RecInv, RecTypeOK, FillSide
  <2>2. PICK m : m = [match[i] EXCEPT !.seen = Sides]
    OBVIOUS
  <2>3. m \in Match /\ m.p1 = match[i].p1 /\ m.p2 = match[i].p2
    BY <2>1, <2>2 DEF Match
  <2>4. match' = [match EXCEPT ![i] = m]
    BY <1>2, <2>2 DEF FillSide
  <2>5. match' \in Seq(Match) /\ DOMAIN match' = DOMAIN match /\ Len(match') = Len(match)
    BY <2>1, <2>3, <2>4
  <2>6. \A j \in DOMAIN match : match'[j].p1 = match[j].p1 /\ match'[j].p2 = match[j].p2
    BY <2>1, <2>3, <2>4
  <2>7. RecTypeOK'
    BY <2>1, <2>5 DEF RecInv, RecTypeOK
  <2>8. QED
    BY <2>1, <2>6, <2>7, LinesStay DEF RecInv, RecTypeOK
<1>3. QED
  BY <1>1, <1>2

LEMMA LinesAreIds ==
  ASSUME RecTypeOK, NEW who
  PROVE  LinesOf(who) \subseteq 1 .. MaxMatches
<1>1. DOMAIN match = 1 .. Len(match) /\ Len(match) \in Nat
  BY DEF RecTypeOK
<1>2. QED
  BY <1>1, RecordsAssumption DEF RecTypeOK, LinesOf

LEMMA BeginStep ==
  ASSUME RecInv, NEW who \in Names \cup {NoOne}, BeginReading(who)
  PROVE  RecInv'
<1>1. PICK r : r = [who |-> who, before |-> MaxMatches + 1, shown |-> <<>>, there |-> LinesOf(who),
                    done |-> FALSE]
  OBVIOUS
<1>2. reader' = r /\ UNCHANGED <<match, born>>
  BY <1>1 DEF BeginReading
<1>3. LinesOf(who) \subseteq 1 .. MaxMatches /\ MaxMatches \in Nat
  BY LinesAreIds, RecordsAssumption DEF RecInv
<1>4. <<>> \in Seq(Nat) /\ Len(<<>>) = 0 /\ DOMAIN <<>> = {}
  OBVIOUS
<1>5. /\ r.who = who /\ r.before = MaxMatches + 1 /\ r.shown = <<>> /\ r.there = LinesOf(who)
      /\ r.done = FALSE
  BY <1>1
<1>6. r \in Reader
  BY <1>1, <1>3, <1>4 DEF Reader
<1>7. RecTypeOK'
  BY <1>2, <1>6 DEF RecInv, RecTypeOK
<1>8. Remaining'
  <2>1. LinesOf(who)' = LinesOf(who)
    BY <1>2 DEF LinesOf
  <2>2. QED
    BY <1>2, <1>3, <1>4, <1>5, <2>1 DEF Remaining, LinesOf
<1>9. PagesComplete'
  BY <1>2, <1>4, <1>5 DEF PagesComplete
<1>10. QED
  BY <1>7, <1>8, <1>9 DEF RecInv

LEMMA ReadStep ==
  ASSUME RecInv, ReadPage
  PROVE  RecInv'
<1> DEFINE ids == {i \in LinesOf(reader.who) : i < reader.before}
<1>1. ids \subseteq Nat /\ reader \in Reader /\ reader.shown \in Seq(Nat) /\ reader.before \in Nat
      /\ ~reader.done /\ Limit \in Nat \ {0}
  BY LinesAreIds, RecordsAssumption DEF RecInv, RecTypeOK, ReadPage, Reader
<1>2. PICK found \in Newest(ids) :
        reader' = [who |-> reader.who, there |-> reader.there,
                   shown |-> reader.shown \o (IF Len(found) > Limit THEN SubSeq(found, 1, Limit) ELSE found),
                   before |-> IF Len(found) > Limit THEN NextBefore(found) ELSE reader.before,
                   done |-> ~(Len(found) > Limit)]
  BY DEF ReadPage
<1>3. PICK n \in 0 .. Limit + 1 : found \in [1 .. n -> ids]
  BY <1>2 DEF Newest
<1>4. /\ \A j, k \in 1 .. n : j < k => found[j] > found[k]
      /\ \A i \in ids : (\A k \in 1 .. n : found[k] # i) => n > Limit /\ \A k \in 1 .. n : i < found[k]
      /\ Len(found) = n /\ found \in Seq(ids) /\ n \in Nat
      /\ \A k \in 1 .. n : found[k] \in ids /\ found[k] \in Nat /\ found[k] < reader.before
  <2>1. Len(found) = n /\ DOMAIN found = 1 .. n /\ found \in Seq(ids)
    BY <1>1, <1>3
  <2>2. \A k \in 1 .. n : found[k] \in ids /\ found[k] \in Nat /\ found[k] < reader.before
    BY <1>1, <1>3
  <2>3. /\ \A j, k \in DOMAIN found : j < k => found[j] > found[k]
        /\ \A i \in ids \ ToSet(found) : Len(found) > Limit /\ \A k \in DOMAIN found : i < found[k]
    BY <1>2 DEF Newest
  <2>4. ToSet(found) = {found[k] : k \in 1 .. n}
    BY <2>1 DEF ToSet
  <2>5. \A j, k \in 1 .. n : j < k => found[j] > found[k]
    BY <2>1, <2>3
  <2>6. \A i \in ids : (\A k \in 1 .. n : found[k] # i) => n > Limit /\ \A k \in 1 .. n : i < found[k]
    BY <2>1, <2>3, <2>4
  <2> HIDE DEF ids
  <2>7. QED
    BY <1>1, <2>1, <2>2, <2>5, <2>6
<1> HIDE DEF ids
<1>5. PICK add : add = IF n > Limit THEN SubSeq(found, 1, Limit) ELSE found
  OBVIOUS
<1>6. PICK m \in Nat : m = IF n > Limit THEN Limit ELSE n
  BY <1>1, <1>4
<1>7. add \in Seq(Nat) /\ Len(add) = m /\ \A k \in 1 .. m : add[k] = found[k] /\ m <= n
  <2>1. found \in Seq(Nat)
    BY <1>1, <1>4
  <2>2. QED
    BY <1>1, <1>4, <1>5, <1>6, <2>1
<1>8. PICK s : s = reader.shown \o add
  OBVIOUS
<1>9. PICK L \in Nat : L = Len(reader.shown)
  BY <1>1
<1>10. /\ s \in Seq(Nat) /\ Len(s) = L + m
       /\ \A k \in 1 .. L : s[k] = reader.shown[k]
       /\ \A k \in 1 .. m : s[L + k] = found[k]
  <2>1. \A a, b \in Seq(Nat) : /\ a \o b \in Seq(Nat) /\ Len(a \o b) = Len(a) + Len(b)
                               /\ \A k \in 1 .. Len(a) : (a \o b)[k] = a[k]
                               /\ \A k \in 1 .. Len(b) : (a \o b)[Len(a) + k] = b[k]
    OBVIOUS
  <2>2. QED
    BY <1>1, <1>7, <1>8, <1>9, <2>1
<1>11. /\ reader'.who = reader.who /\ reader'.there = reader.there /\ reader'.shown = s
       /\ reader'.before = IF n > Limit THEN found[Limit] ELSE reader.before
       /\ reader'.done <=> n <= Limit
       /\ reader' \in Reader /\ UNCHANGED <<match, born>>
  <2>1. PICK b \in BOOLEAN : b <=> ~(n > Limit)
    OBVIOUS
  <2>2. (~(Len(found) > Limit)) = b
    <3>1. Len(found) = n
      BY <1>4
    <3>2. (~(Len(found) > Limit)) <=> b
      BY <2>1, <3>1
    <3>3. QED
      BY <3>2, Zenon
  <2>3. PICK c : c = IF n > Limit THEN found[Limit] ELSE reader.before
    OBVIOUS
  <2>4. c \in Nat
    BY <1>1, <1>4, <2>3
  <2>5. reader' = [who |-> reader.who, there |-> reader.there,
                   shown |-> s, before |-> c, done |-> ~(Len(found) > Limit)]
    BY <1>2, <1>4, <1>5, <1>8, <2>3 DEF NextBefore
  <2>6. reader' = [who |-> reader.who, there |-> reader.there, shown |-> s, before |-> c, done |-> b]
    BY <2>2, <2>5, Zenon
  <2>7. reader' \in Reader
    BY <1>1, <1>10, <2>4, <2>6 DEF Reader
  <2>8. /\ reader'.who = reader.who /\ reader'.there = reader.there /\ reader'.shown = s
        /\ reader'.before = c /\ reader'.done = b
    BY <2>6
  <2>9. UNCHANGED <<match, born>>
    BY DEF ReadPage
  <2>10. b <=> n <= Limit
    BY <1>1, <1>4, <2>1
  <2>11. reader'.done <=> n <= Limit
    BY <2>8, <2>10, Zenon
  <2>12. QED
    BY <2>3, <2>7, <2>8, <2>9, <2>11
<1>12. RecTypeOK'
  BY <1>11 DEF RecInv, RecTypeOK
<1>13. \A k \in 1 .. L + m : k \in 1 .. L \/ \E j \in 1 .. m : k = L + j
  <2> SUFFICES ASSUME NEW k \in 1 .. L + m, k \notin 1 .. L PROVE \E j \in 1 .. m : k = L + j
    OBVIOUS
  <2>1. k - L \in 1 .. m /\ k = L + (k - L)
    BY <1>9
  <2>2. QED
    BY <2>1
<1>14. DOMAIN reader.shown = 1 .. L /\ \A k \in 1 .. L : s[k] \in Nat /\ reader.before <= s[k]
  <2>1. DOMAIN reader.shown = 1 .. L
    BY <1>1, <1>9
  <2>2. \A k \in 1 .. L : reader.shown[k] \in Nat
    BY <1>1, <2>1
  <2>3. QED
    BY <1>1, <1>10, <2>1, <2>2 DEF RecInv, Remaining
<1>15. DOMAIN s = 1 .. L + m
  BY <1>10
<1>16. ASSUME n > Limit
       PROVE  \A k \in 1 .. L + m : reader'.before <= s[k]
  <2>1. m = Limit /\ reader'.before = found[Limit] /\ Limit \in 1 .. n
    BY <1>1, <1>4, <1>6, <1>11, <1>16
  <2>2. \A j \in 1 .. m : found[Limit] <= found[j]
    <3>1. \A j \in 1 .. m : j = Limit \/ (j < Limit /\ j \in 1 .. n)
      BY <1>1, <1>4, <2>1
    <3>2. QED
      BY <1>4, <2>1, <3>1
  <2>3. found[Limit] <= reader.before
    BY <1>1, <1>4, <2>1
  <2>4. \A k \in 1 .. L : found[Limit] <= s[k]
    BY <1>1, <1>4, <1>14, <2>1, <2>3
  <2>5. QED
    BY <1>10, <1>13, <2>1, <2>2, <2>4, ZenonT(30)
<1>17. \A i \in reader.there : i \in ToSet(s) \/ (n > Limit /\ i < reader'.before)
  <2> SUFFICES ASSUME NEW i \in reader.there, i \notin ToSet(s)
               PROVE  n > Limit /\ i < reader'.before
    OBVIOUS
  <2>1. \A k \in 1 .. L + m : s[k] # i
    BY <1>15 DEF ToSet
  <2>2. \A k \in 1 .. L : k \in 1 .. L + m
    BY <1>9
  <2>3. i \notin ToSet(reader.shown)
    BY <1>10, <1>14, <2>1, <2>2 DEF ToSet
  <2>4. i \in ids /\ i \in Nat
    BY <1>1, <2>3 DEF RecInv, Remaining, ids
  <2>5. \A j \in 1 .. m : found[j] # i
    <3>1. \A j \in 1 .. m : L + j \in 1 .. L + m
      BY <1>9
    <3>2. QED
      BY <1>10, <2>1, <3>1
  <2>6. n > Limit
    <3>1. CASE m = n
      BY <1>4, <2>4, <2>5, <3>1
    <3>2. QED
      BY <1>1, <1>6, <3>1
  <2>7. m = Limit /\ reader'.before = found[Limit] /\ n = Limit + 1 /\ Limit \in 1 .. n
    BY <1>1, <1>3, <1>6, <1>11, <2>6
  <2>8. CASE i = found[n]
    BY <1>1, <1>4, <2>7, <2>8
  <2>9. CASE i # found[n]
    <3>1. \A k \in 1 .. n : k = n \/ k \in 1 .. m
      BY <1>1, <2>7
    <3>2. \A k \in 1 .. n : found[k] # i
      BY <2>5, <2>9, <3>1
    <3>3. QED
      BY <1>4, <2>4, <2>6, <2>7, <3>2
  <2>10. QED
    BY <2>6, <2>8, <2>9
<1>18. Remaining'
  <2>1. LinesOf(reader.who)' = LinesOf(reader.who)
    BY <1>11 DEF LinesOf
  <2>2. reader'.there \subseteq LinesOf(reader.who)'
    BY <1>11, <2>1 DEF RecInv, Remaining
  <2>3. QED
    BY <1>4, <1>11, <1>15, <1>16, <1>17, <2>2, <1>1 DEF Remaining
<1>19. PagesComplete'
  <2>1. \A k \in 2 .. L + m : s[k] < s[k - 1]
    <3> SUFFICES ASSUME NEW k \in 2 .. L + m PROVE s[k] < s[k - 1]
      OBVIOUS
    <3>1. CASE k \in 1 .. L
      <4>1. k \in 2 .. L /\ k - 1 \in 1 .. L
        BY <3>1
      <4>2. reader.shown[k] < reader.shown[k - 1]
        BY <1>9, <4>1 DEF RecInv, PagesComplete
      <4>3. QED
        BY <1>10, <3>1, <4>1, <4>2
    <3>2. CASE k = L + 1
      <4>1. 1 \in 1 .. m /\ 1 \in 1 .. n /\ L \in 1 .. L /\ k - 1 = L
        BY <1>7, <1>9, <3>2
      <4>2. s[k] = found[1] /\ found[1] < reader.before /\ found[1] \in Nat
        BY <1>4, <1>10, <3>2, <4>1
      <4>3. QED
        BY <1>1, <1>14, <4>1, <4>2, SMTT(30)
    <3>3. ASSUME k \notin 1 .. L, k # L + 1 PROVE s[k] < s[k - 1]
      <4>1. PICK j \in 1 .. m : k = L + j
        BY <1>13, <3>3
      <4>2. j \in 1 .. n /\ j - 1 \in 1 .. n /\ j - 1 \in 1 .. m /\ k - 1 = L + (j - 1)
        BY <1>7, <3>3, <4>1
      <4>3. s[k] = found[j] /\ s[k - 1] = found[j - 1]
        BY <1>10, <4>1, <4>2
      <4>4. found[j - 1] > found[j]
        BY <1>4, <4>2
      <4>5. QED
        BY <1>4, <4>2, <4>3, <4>4
    <3>4. QED
      BY <3>1, <3>2, <3>3
  <2>2. reader'.done => reader'.there \subseteq ToSet(s)
    BY <1>1, <1>4, <1>11, <1>17
  <2>3. QED
    BY <1>10, <1>11, <2>1, <2>2 DEF PagesComplete
<1>20. QED
  BY <1>12, <1>18, <1>19 DEF RecInv

\* For any lines, names and page size: whoever reads to the end has seen every line
\* that was there when they began and none twice, whatever is recorded, filled or
\* committed late meanwhile, because the next page starts before the last line shown.
THEOREM PagesAreComplete == RecSpec => []PagesComplete
<1>1. ASSUME RecInv, [RecNext]_recvars PROVE RecInv'
  <2>1. CASE UNCHANGED recvars
    BY <1>1, <2>1 DEF recvars, RecInv, RecTypeOK, Remaining, PagesComplete, LinesOf
  <2>2. QED
    BY <1>1, <2>1, AddStep, FillStep, BeginStep, ReadStep DEF RecNext
<1>2. RecInv => PagesComplete
  BY DEF RecInv
<1>3. QED
  BY RecInitInv, <1>1, <1>2, PTL DEF RecSpec

----------------------------------------------------------------------------
(* Sorted lists *)

Sortable(S, key) == IsFiniteSet(S) /\ S \subseteq Int /\ \A u \in S : key[u] \in Int

LEMMA OneOrder ==
  ASSUME NEW S, NEW key, Sortable(S, key)
  PROVE  /\ \A u, v \in S : u = v \/ Precedes(key, u, v) \/ Precedes(key, v, u)
         /\ \A u \in S : ~Precedes(key, u, u)
         /\ \A u, v, w \in S : Precedes(key, u, v) /\ Precedes(key, v, w) => Precedes(key, u, w)
BY DEF Sortable, Precedes

\* Who is ahead of whom, counted.
LEMMA AheadCount ==
  ASSUME NEW S, NEW key, Sortable(S, key)
  PROVE  /\ \A u \in S : /\ IsFiniteSet(Ahead(S, key, u))
                         /\ Cardinality(Ahead(S, key, u)) \in 0 .. Cardinality(S) - 1
         /\ \A u, v \in S : Precedes(key, u, v)
              <=> Cardinality(Ahead(S, key, u)) < Cardinality(Ahead(S, key, v))
<1>1. Cardinality(S) \in Nat
  BY FS_CardinalityType DEF Sortable
<1>2. ASSUME NEW u \in S
      PROVE  IsFiniteSet(Ahead(S, key, u)) /\ Cardinality(Ahead(S, key, u)) \in 0 .. Cardinality(S) - 1
  <2>1. Ahead(S, key, u) \in SUBSET S /\ Ahead(S, key, u) # S
    BY OneOrder DEF Ahead
  <2>2. /\ IsFiniteSet(Ahead(S, key, u)) /\ Cardinality(Ahead(S, key, u)) <= Cardinality(S)
        /\ Cardinality(Ahead(S, key, u)) # Cardinality(S)
    BY <2>1, FS_Subset DEF Sortable
  <2>3. Cardinality(Ahead(S, key, u)) \in Nat
    BY <2>2, FS_CardinalityType
  <2> QED
    BY <1>1, <2>2, <2>3
<1>3. ASSUME NEW u \in S, NEW v \in S, Precedes(key, u, v)
      PROVE  Cardinality(Ahead(S, key, u)) < Cardinality(Ahead(S, key, v))
  <2>1. Ahead(S, key, u) \in SUBSET Ahead(S, key, v)
    BY <1>3, OneOrder DEF Ahead
  <2>2. u \in Ahead(S, key, v) /\ u \notin Ahead(S, key, u)
    BY <1>3, OneOrder DEF Ahead
  <2>3. /\ Cardinality(Ahead(S, key, u)) <= Cardinality(Ahead(S, key, v))
        /\ Cardinality(Ahead(S, key, u)) # Cardinality(Ahead(S, key, v))
    BY <1>2, <2>1, <2>2, FS_Subset
  <2> QED
    BY <1>1, <1>2, <2>3
<1>4. ASSUME NEW u \in S, NEW v \in S,
             Cardinality(Ahead(S, key, u)) < Cardinality(Ahead(S, key, v)), ~Precedes(key, u, v)
      PROVE  FALSE
  <2>1. u = v \/ Precedes(key, v, u)
    BY <1>4, OneOrder
  <2>2. Cardinality(Ahead(S, key, v)) <= Cardinality(Ahead(S, key, u))
    BY <1>1, <1>2, <1>3, <2>1
  <2> QED
    BY <1>1, <1>2, <1>4, <2>2
<1> QED
  BY <1>2, <1>3, <1>4

\* Everyone is listed once, with as many ahead as there are earlier places in the list.
LEMMA SortedRight ==
  ASSUME NEW S, NEW key, Sortable(S, key)
  PROVE  LET order == Sorted(S, key)
             n == Cardinality(S)
         IN /\ n \in Nat /\ order \in [1 .. n -> S]
            /\ \A k \in 1 .. n : Cardinality(Ahead(S, key, order[k])) = k - 1
            /\ \A i, j \in 1 .. n : i < j <=> Precedes(key, order[i], order[j])
            /\ \A i, j \in 1 .. n : order[i] = order[j] => i = j
            /\ \A u \in S : \E k \in 1 .. n : order[k] = u
<1> DEFINE order == Sorted(S, key)
           n == Cardinality(S)
           ahead(u) == Cardinality(Ahead(S, key, u))
           rank == [u \in S |-> ahead(u)]
<1>1. n \in Nat /\ IsFiniteSet(0 .. n - 1) /\ Cardinality(0 .. n - 1) = n
  <2>1. n \in Nat
    BY FS_CardinalityType DEF Sortable
  <2> QED
    <3>1. 0 \in Int /\ n - 1 \in Int /\ n - 1 - 0 + 1 = n
      BY <2>1
    <3>2. IsFiniteSet(0 .. n - 1) /\ Cardinality(0 .. n - 1) = IF 0 > n - 1 THEN 0 ELSE n - 1 - 0 + 1
      BY <3>1, FS_Interval
    <3> HIDE DEF n
    <3> QED
      BY <2>1, <3>1, <3>2
<1>2. rank \in Surjection(S, 0 .. n - 1)
  <2>1. rank \in [S -> 0 .. n - 1]
    BY AheadCount
  <2>2. \A u, v \in S : rank[u] = rank[v] => u = v
    <3>1. \A u, v \in S : rank[u] = rank[v] => ~Precedes(key, u, v) /\ ~Precedes(key, v, u)
      BY AheadCount
    <3> QED
      BY <3>1, OneOrder
  <2>3. rank \in Injection(S, 0 .. n - 1)
    BY <2>1, <2>2 DEF Injection, IsInjective
  <2> HIDE DEF rank
  <2> QED
    BY <1>1, <2>3, FS_Injection DEF Sortable
<1>3. \A k \in 1 .. n : \E u \in S : ahead(u) = k - 1
  <2> SUFFICES ASSUME NEW k \in 1 .. n PROVE \E u \in S : ahead(u) = k - 1
    OBVIOUS
  <2>1. k - 1 \in 0 .. n - 1
    BY <1>1
  <2>2. \E u \in S : rank[u] = k - 1
    BY <1>2, <2>1 DEF Surjection
  <2> QED
    BY <2>2
<1>4. \A k \in 1 .. n : order[k] \in S /\ ahead(order[k]) = k - 1
  <2> TAKE k \in 1 .. n
  <2>1. order[k] = CHOOSE u \in S : ahead(u) = k - 1
    BY DEF Sorted
  <2> QED
    BY <1>3, <2>1
<1>5. order \in [1 .. n -> S]
  BY <1>4 DEF Sorted
<1> HIDE DEF order, n
<1>6. \A i, j \in 1 .. n : i < j <=> Precedes(key, order[i], order[j])
  <2> TAKE i, j \in 1 .. n
  <2>1. i < j <=> ahead(order[i]) < ahead(order[j])
    BY <1>1, <1>4
  <2> QED
    BY <1>4, <2>1, AheadCount
<1>7. \A i, j \in 1 .. n : order[i] = order[j] => i = j
  <2> TAKE i, j \in 1 .. n
  <2>1. order[i] = order[j] => i - 1 = j - 1
    BY <1>4
  <2> QED
    BY <1>1, <2>1
<1>8. \A u \in S : \E k \in 1 .. n : order[k] = u
  <2> TAKE u \in S
  <2>1. ahead(u) + 1 \in 1 .. n
    BY <1>1, AheadCount DEF n
  <2>2. order[ahead(u) + 1] = u
    <3> DEFINE k == ahead(u) + 1
    <3>0. ahead(u) \in Int /\ k \in 1 .. n /\ k - 1 = ahead(u)
      BY <2>1, AheadCount
    <3>1. order[k] \in S /\ ahead(order[k]) = ahead(u)
      BY <1>4, <3>0
    <3>2. ~Precedes(key, order[k], u) /\ ~Precedes(key, u, order[k])
      BY <3>1, AheadCount
    <3> QED
      BY <3>1, <3>2, OneOrder
  <2> QED
    BY <2>1, <2>2
<1> QED
  BY <1>1, <1>4, <1>5, <1>6, <1>7, <1>8 DEF order, n

LEMMA SortedAt ==
  ASSUME NEW S, NEW key, Sortable(S, key), NEW k \in 1 .. Cardinality(S)
  PROVE  Sorted(S, key)[k] \in S /\ Cardinality(Ahead(S, key, Sorted(S, key)[k])) = k - 1
BY SortedRight

----------------------------------------------------------------------------
(* Places *)

Better(S, key, u) == {v \in S : key[v] > key[u]}

\* Of those listed up to k, the equals of k are the ones behind everyone who is better.
LEMMA GroupStart ==
  ASSUME NEW S, NEW key, Sortable(S, key), NEW k \in 1 .. Cardinality(S)
  PROVE  LET order == Sorted(S, key)
             first == 1 + Cardinality(Better(S, key, order[k]))
         IN /\ first \in 1 .. k
            /\ \A i \in 1 .. k : key[order[i]] = key[order[k]] <=> first <= i
<1> DEFINE order == Sorted(S, key)
           n == Cardinality(S)
           u == order[k]
           better == Better(S, key, u)
           ahead(i) == Ahead(S, key, order[i])
<1>1. n \in Nat /\ (\A i \in 1 .. n : order[i] \in S /\ Cardinality(ahead(i)) = i - 1)
  BY SortedRight
<1>2. \A i, j \in 1 .. n : i < j <=> Precedes(key, order[i], order[j])
  BY SortedRight
<1>3. (\A v \in S : key[v] \in Int) /\ (\A v \in S : IsFiniteSet(Ahead(S, key, v)))
  BY AheadCount DEF Sortable
<1>4. IsFiniteSet(better) /\ Cardinality(better) \in Nat
  BY FS_Subset, FS_CardinalityType DEF Better, Sortable
<1> HIDE DEF order, n
<1>5. ASSUME NEW i \in 1 .. k, key[order[i]] = key[u] PROVE Cardinality(better) <= i - 1
  <2>1. better \in SUBSET ahead(i)
    BY <1>5 DEF Better, Ahead, Precedes
  <2>2. Cardinality(better) <= Cardinality(ahead(i))
    BY <1>1, <1>3, <2>1, FS_Subset DEF n
  <2> QED
    BY <1>1, <2>2 DEF n
<1>6. ASSUME NEW i \in 1 .. k, key[order[i]] # key[u] PROVE i - 1 < Cardinality(better)
  <2>0. i \in 1 .. n /\ k \in 1 .. n /\ i # k
    BY <1>1, <1>6 DEF n
  <2>1. key[order[i]] > key[u]
    BY <1>1, <1>2, <1>3, <1>6, <2>0 DEF Precedes
  <2>2. order[i] \in better
    BY <1>1, <2>0, <2>1 DEF Better
  <2>3. ahead(i) \in SUBSET better
    <3> SUFFICES ASSUME NEW v \in ahead(i) PROVE v \in better
      OBVIOUS
    <3>1. v \in S /\ Precedes(key, v, order[i])
      BY DEF Ahead
    <3>2. key[v] \in Int /\ key[order[i]] \in Int /\ key[u] \in Int
      BY <1>1, <1>3, <2>0, <3>1
    <3>3. key[v] >= key[order[i]]
      BY <3>1, <3>2 DEF Precedes
    <3> QED
      BY <2>1, <3>1, <3>2, <3>3 DEF Better
  <2>4. order[i] \notin ahead(i)
    BY <1>1, <2>0, OneOrder DEF Ahead
  <2>5. Cardinality(ahead(i)) <= Cardinality(better) /\ Cardinality(ahead(i)) # Cardinality(better)
    BY <1>4, <2>2, <2>3, <2>4, FS_Subset
  <2> QED
    BY <1>1, <1>4, <2>0, <2>5
<1>7. k \in 1 .. k /\ k \in Nat
  BY <1>1 DEF n
<1>8. Cardinality(better) <= k - 1
  BY <1>5, <1>7
<1> HIDE DEF better, u
<1>9. 1 + Cardinality(better) \in 1 .. k
  BY <1>4, <1>7, <1>8
<1>10. ASSUME NEW i \in 1 .. k PROVE key[order[i]] = key[u] <=> 1 + Cardinality(better) <= i
  BY <1>4, <1>5, <1>6, <1>7
<1> QED
  BY <1>9, <1>10 DEF better, u, order

LEMMA PlacesRight ==
  ASSUME NEW S, NEW key, Sortable(S, key)
  PROVE  LET order == Sorted(S, key)
         IN Places(S, key) = [k \in 1 .. Cardinality(S) |->
              [npid |-> order[k], place |-> 1 + Cardinality(Better(S, key, order[k]))]]
<1> DEFINE order == Sorted(S, key)
           n == Cardinality(S)
<1>1. DOMAIN order = 1 .. n
  BY SortedRight
<1>2. ASSUME NEW k \in 1 .. n
      PROVE  GroupPlace(order, key, k) = 1 + Cardinality(Better(S, key, order[k]))
  <2> DEFINE start == 1 + Cardinality(Better(S, key, order[k]))
             Starts(f) == /\ \A i \in f .. k : key[order[i]] = key[order[k]]
                          /\ f > 1 => key[order[f - 1]] # key[order[k]]
  <2>1. k \in Nat /\ start \in 1 .. k /\ \A i \in 1 .. k : key[order[i]] = key[order[k]] <=> start <= i
    <3>1. n \in Nat
      BY SortedRight
    <3> QED
      BY <3>1, GroupStart
  <2> HIDE DEF start, order
  <2>2. Starts(start)
    <3>1. \A i \in start .. k : i \in 1 .. k /\ start <= i
      BY <2>1
    <3>2. start > 1 => start - 1 \in 1 .. k /\ ~(start <= start - 1)
      BY <2>1
    <3> QED
      BY <2>1, <3>1, <3>2
  <2>3. ASSUME NEW f \in 1 .. k, Starts(f) PROVE f = start
    <3>1. key[order[f]] = key[order[k]]
      BY <2>1, <2>3
    <3>2. start <= f
      BY <2>1, <3>1
    <3>3. start < f => f > 1 /\ f - 1 \in 1 .. k /\ start <= f - 1
      BY <2>1
    <3>4. ~(start < f)
      BY <2>1, <2>3, <3>3
    <3> QED
      BY <2>1, <3>2, <3>4
  <2>4. GroupPlace(order, key, k) = CHOOSE f \in 1 .. k : Starts(f)
    BY DEF GroupPlace
  <2> HIDE DEF Starts
  <2>5. GroupPlace(order, key, k) = start
    BY <2>1, <2>2, <2>3, <2>4
  <2> QED
    BY <2>5 DEF start, order
<1> QED
  BY <1>1, <1>2 DEF Places

\* The entries of a board: everyone once, one place behind those who are better.
Entry(S, key, u) == [npid |-> u, place |-> 1 + Cardinality(Better(S, key, u))]

LEMMA Entries ==
  ASSUME NEW S, NEW key, Sortable(S, key)
  PROVE  /\ Len(Places(S, key)) = Cardinality(S)
         /\ ToSet(Places(S, key)) = {Entry(S, key, u) : u \in S}
<1> DEFINE order == Sorted(S, key)
           n == Cardinality(S)
           board == Places(S, key)
<1>1. board = [k \in 1 .. n |-> Entry(S, key, order[k])]
  BY PlacesRight DEF Entry
<1>2. n \in Nat /\ (\A k \in 1 .. n : order[k] \in S) /\ (\A u \in S : \E k \in 1 .. n : order[k] = u)
  BY SortedRight
<1> HIDE DEF order, n, board
<1>3. Len(board) = n
  BY <1>1, <1>2
<1>4. ToSet(board) = {Entry(S, key, order[k]) : k \in 1 .. n}
  BY <1>1 DEF ToSet
<1>5. {Entry(S, key, order[k]) : k \in 1 .. n} = {Entry(S, key, u) : u \in S}
  BY <1>2
<1> QED
  BY <1>3, <1>4, <1>5 DEF n, board

LEMMA EveryoneBetter ==
  ASSUME NEW S, NEW key, Sortable(S, key)
  PROVE  /\ \A u \in S : IsFiniteSet(Better(S, key, u)) /\ Cardinality(Better(S, key, u)) \in Nat
         /\ \A u, v \in S : key[u] > key[v] => Cardinality(Better(S, key, u)) < Cardinality(Better(S, key, v))
         /\ \A u, v \in S : key[u] = key[v] => Cardinality(Better(S, key, u)) = Cardinality(Better(S, key, v))
<1>1. ASSUME NEW u \in S
      PROVE  IsFiniteSet(Better(S, key, u)) /\ Cardinality(Better(S, key, u)) \in Nat
  BY FS_Subset, FS_CardinalityType DEF Better, Sortable
<1>2. ASSUME NEW u \in S, NEW v \in S, key[u] > key[v]
      PROVE  Cardinality(Better(S, key, u)) < Cardinality(Better(S, key, v))
  <2>0. \A x \in S : key[x] \in Int
    BY DEF Sortable
  <2>1. Better(S, key, u) \in SUBSET Better(S, key, v)
    BY <1>2, <2>0 DEF Better
  <2>2. u \in Better(S, key, v) /\ u \notin Better(S, key, u)
    BY <1>2 DEF Better, Sortable
  <2>3. /\ Cardinality(Better(S, key, u)) <= Cardinality(Better(S, key, v))
        /\ Cardinality(Better(S, key, u)) # Cardinality(Better(S, key, v))
    BY <1>1, <2>1, <2>2, FS_Subset
  <2> QED
    BY <1>1, <2>3
<1>3. ASSUME NEW u \in S, NEW v \in S, key[u] = key[v]
      PROVE  Better(S, key, u) = Better(S, key, v)
  BY <1>3 DEF Better
<1> QED
  BY <1>1, <1>2, <1>3

LEMMA PlacedRight ==
  ASSUME NEW S, NEW key, Sortable(S, key)
  PROVE  RightBoard(Places(S, key), S, key)
<1>1. \A u \in S : Entry(S, key, u).npid = u /\ Entry(S, key, u).place = 1 + Cardinality(Better(S, key, u))
  BY DEF Entry
<1>2. ToSet(Places(S, key)) = {Entry(S, key, u) : u \in S} /\ Len(Places(S, key)) = Cardinality(S)
  BY Entries
<1>3. {e.npid : e \in ToSet(Places(S, key))} = S
  BY <1>1, <1>2
<1>4. \A e \in ToSet(Places(S, key)) : e.place = 1 + Cardinality(Better(S, key, e.npid))
  BY <1>1, <1>2
<1> QED
  BY <1>2, <1>3, <1>4 DEF RightBoard, Better

----------------------------------------------------------------------------
(* Taking players out *)

LEMMA Renamed ==
  ASSUME NEW A, IsFiniteSet(A), NEW f, \A a, b \in A : f[a] = f[b] => a = b
  PROVE  IsFiniteSet({f[a] : a \in A}) /\ Cardinality({f[a] : a \in A}) = Cardinality(A)
<1> DEFINE B == {f[a] : a \in A}
           g == [a \in A |-> f[a]]
<1>1. g \in Bijection(A, B)
  BY DEF Bijection, Injection, Surjection, IsInjective
<1> QED
  BY <1>1, FS_Bijection DEF ExistsBijection

LEMMA TakenOut ==
  ASSUME NEW S, NEW key, Sortable(S, key), NEW out, NEW left, \A u \in S \ out : left[u] = key[u]
  PROVE  /\ Sortable(S \ out, left)
         /\ WithoutExcluded(Places(S, key), out) = Places(S \ out, left)
<1> DEFINE T == S \ out
           n == Cardinality(S)
           order == Sorted(S, key)
           board == Places(S, key)
           staying == {k \in DOMAIN board : board[k].npid \notin out}
           none == [k \in staying |-> 0]
           index == Sorted(staying, none)
           listed == Sorted(T, left)
           above(e) == Cardinality({d \in ToSet(board) : d.npid \in out /\ d.place < e.place})
<1>1. Sortable(T, left)
  BY FS_Subset DEF Sortable
<1>2. board = [k \in 1 .. n |-> Entry(S, key, order[k])]
  BY PlacesRight DEF Entry
<1>3. /\ n \in Nat
      /\ \A k \in 1 .. n : order[k] \in S
      /\ \A i, j \in 1 .. n : i < j <=> Precedes(key, order[i], order[j])
      /\ \A i, j \in 1 .. n : order[i] = order[j] => i = j
      /\ \A u \in S : \E k \in 1 .. n : order[k] = u
  BY SortedRight
<1>4. staying = {k \in 1 .. n : order[k] \notin out}
  BY <1>2 DEF Entry
<1>5. WithoutExcluded(board, out)
        = [i \in DOMAIN index |-> [board[index[i]] EXCEPT !.place = @ - above(board[index[i]])]]
  BY DEF WithoutExcluded
<1> HIDE DEF order, board, n, T
<1>6. IsFiniteSet(staying) /\ Sortable(staying, none)
  <2>1. IsFiniteSet(1 .. n)
    BY <1>3, FS_Interval
  <2>2. staying \subseteq 1 .. n
    BY <1>4
  <2>3. \A k \in staying : none[k] \in Int
    OBVIOUS
  <2> HIDE DEF staying, none
  <2>4. IsFiniteSet(staying)
    BY <2>1, <2>2, FS_Subset
  <2> QED
    BY <1>3, <2>2, <2>3, <2>4 DEF Sortable
<1>7. \A k \in staying : k \in 1 .. n /\ order[k] \in T
  BY <1>3, <1>4 DEF T
<1>8. Cardinality(staying) = Cardinality(T)
  <2>1. T = {order[k] : k \in staying}
    BY <1>3, <1>4 DEF T
  <2>2. \A i, j \in staying : order[i] = order[j] => i = j
    BY <1>3, <1>7
  <2> HIDE DEF staying
  <2> QED
    BY <1>6, <2>1, <2>2, Renamed
<1>9. ASSUME NEW k \in staying
      PROVE  Cardinality(Ahead(staying, none, k)) = Cardinality(Ahead(T, left, order[k]))
  <2> DEFINE A == Ahead(staying, none, k)
  <2>1. A = {j \in staying : j < k}
    BY <1>6 DEF Ahead, Precedes, Sortable
  <2>2. \A u, v \in T : Precedes(left, u, v) <=> Precedes(key, u, v)
    BY DEF Precedes, T
  <2>3. Ahead(T, left, order[k]) = {order[j] : j \in A}
    <3>1. ASSUME NEW u \in Ahead(T, left, order[k]) PROVE u \in {order[j] : j \in A}
      <4>1. u \in T /\ u \in S /\ u \notin out /\ Precedes(key, u, order[k])
        BY <1>7, <2>2 DEF Ahead, T
      <4>2. PICK j \in 1 .. n : order[j] = u
        BY <1>3, <4>1
      <4>3. j \in staying /\ j < k
        BY <1>3, <1>4, <1>7, <4>1, <4>2
      <4> QED
        BY <2>1, <4>2, <4>3
    <3>2. ASSUME NEW j \in A PROVE order[j] \in Ahead(T, left, order[k])
      <4>1. j \in staying /\ j < k
        BY <2>1
      <4>2. Precedes(key, order[j], order[k])
        BY <1>3, <1>7, <4>1
      <4> QED
        BY <1>7, <2>2, <4>1, <4>2 DEF Ahead
    <3> QED
      BY <3>1, <3>2
  <2>4. IsFiniteSet(A) /\ \A i, j \in A : order[i] = order[j] => i = j
    BY <1>3, <1>6, <1>7, <2>1, FS_Subset
  <2> HIDE DEF A
  <2>5. Cardinality({order[j] : j \in A}) = Cardinality(A)
    BY <2>4, Renamed
  <2> QED
    BY <2>3, <2>5 DEF A

<1>10. ASSUME NEW i \in 1 .. Cardinality(T)
       PROVE  index[i] \in staying /\ order[index[i]] = listed[i] /\ listed[i] \in T
  <2>1. index[i] \in staying /\ Cardinality(Ahead(staying, none, index[i])) = i - 1
    <3> HIDE DEF staying, none
    <3>1. Sortable(staying, none)
      BY <1>6
    <3>2. i \in 1 .. Cardinality(staying)
      BY <1>8
    <3> QED
      BY <3>1, <3>2, SortedAt
  <2>2. listed[i] \in T /\ Cardinality(Ahead(T, left, listed[i])) = i - 1
    BY <1>1, SortedRight
  <2>3. order[index[i]] \in T /\ Cardinality(Ahead(T, left, order[index[i]])) = i - 1
    <3> HIDE DEF index, staying, none
    <3> QED
      BY <1>7, <1>9, <2>1
  <2> HIDE DEF index, listed, staying
  <2>4. ~Precedes(left, listed[i], order[index[i]]) /\ ~Precedes(left, order[index[i]], listed[i])
    BY <1>1, <2>2, <2>3, AheadCount
  <2> QED
    BY <1>1, <2>1, <2>2, <2>3, <2>4, OneOrder
<1>11. ASSUME NEW u \in T
       PROVE  [Entry(S, key, u) EXCEPT !.place = @ - above(Entry(S, key, u))] = Entry(T, left, u)
  <2> DEFINE gone == {v \in S \cap out : key[v] > key[u]}
             Gone == {d \in ToSet(board) : d.npid \in out /\ d.place < Entry(S, key, u).place}
  <2>1. Gone = {Entry(S, key, v) : v \in gone}
    <3>1. u \in S /\ \A v \in S : Entry(S, key, v).place < Entry(S, key, u).place <=> key[v] > key[u]
      <4>1. \A v \in S : key[v] \in Int /\ Cardinality(Better(S, key, v)) \in Nat
        BY EveryoneBetter DEF Sortable
      <4>2. \A v \in S : Entry(S, key, v).place = 1 + Cardinality(Better(S, key, v))
        BY DEF Entry
      <4>3. ASSUME NEW v \in S
            PROVE  Cardinality(Better(S, key, v)) < Cardinality(Better(S, key, u)) <=> key[v] > key[u]
        <5>1. u \in S /\ (key[v] > key[u] \/ key[v] = key[u] \/ key[u] > key[v])
          BY <4>1 DEF T
        <5> QED
          BY <4>1, <5>1, EveryoneBetter
      <4> QED
        BY <4>1, <4>2, <4>3 DEF T
    <3>2. ToSet(board) = {Entry(S, key, v) : v \in S}
      BY Entries DEF board
    <3>3. \A v \in S : Entry(S, key, v).npid = v
      BY DEF Entry
    <3> QED
      BY <3>1, <3>2, <3>3
  <2>2. IsFiniteSet(gone) /\ Cardinality(gone) \in Nat
    BY FS_Subset, FS_CardinalityType DEF Sortable
  <2>3. Cardinality(Gone) = Cardinality(gone)
    <3> DEFINE f == [v \in gone |-> Entry(S, key, v)]
    <3>1. \A v, w \in gone : f[v] = f[w] => v = w
      BY DEF Entry
    <3>2. Gone = {f[v] : v \in gone}
      BY <2>1
    <3> HIDE DEF f, gone, Gone
    <3> QED
      BY <2>2, <3>1, <3>2, Renamed
  <2>4. Cardinality(Better(S, key, u)) = Cardinality(Better(T, left, u)) + Cardinality(gone)
    <3>1. Better(S, key, u) = Better(T, left, u) \cup gone /\ Better(T, left, u) \cap gone = {}
      BY DEF Better, T
    <3>2. IsFiniteSet(Better(T, left, u)) /\ Cardinality(Better(T, left, u)) \in Nat
      BY <1>1, EveryoneBetter
    <3> DEFINE better == Better(T, left, u)
    <3> HIDE DEF gone, better
    <3>3. Cardinality(better \cup gone) = Cardinality(better) + Cardinality(gone) - Cardinality(better \cap gone)
      BY <2>2, <3>2, FS_Union DEF better
    <3>4. Cardinality(better \cap gone) = 0
      BY <3>1, FS_EmptySet DEF better
    <3> QED
      BY <2>2, <3>1, <3>2, <3>3, <3>4 DEF better
  <2>5. above(Entry(S, key, u)) = Cardinality(Gone)
    OBVIOUS
  <2>6. Entry(S, key, u).place - above(Entry(S, key, u)) = Entry(T, left, u).place
    <3>1. Cardinality(Better(T, left, u)) \in Nat
      BY <1>1, EveryoneBetter
    <3> HIDE DEF gone, Gone, above
    <3> QED
      BY <2>2, <2>3, <2>4, <2>5, <3>1 DEF Entry
  <2> HIDE DEF above
  <2> QED
    BY <2>6 DEF Entry
<1>12. Places(T, left) = [k \in 1 .. Cardinality(T) |-> Entry(T, left, listed[k])]
  BY <1>1, PlacesRight DEF Entry
<1>13. DOMAIN index = 1 .. Cardinality(T)
  BY <1>8 DEF Sorted
<1>14. ASSUME NEW i \in 1 .. Cardinality(T)
       PROVE  [board[index[i]] EXCEPT !.place = @ - above(board[index[i]])] = Entry(T, left, listed[i])
  <2>1. board[index[i]] = Entry(S, key, listed[i])
    <3> HIDE DEF index, staying, listed
    <3> QED
      BY <1>2, <1>7, <1>10
  <2> HIDE DEF above, index, listed
  <2> QED
    BY <1>10, <1>11, <2>1
<1>15. WithoutExcluded(board, out) = Places(T, left)
  <2> HIDE DEF above, index, listed
  <2> QED
    BY <1>5, <1>12, <1>13, <1>14
<1> QED
  BY <1>1, <1>15 DEF board, T

----------------------------------------------------------------------------
(* What a save counts for is a number *)

LEMMA Highest ==
  ASSUME NEW C \in SUBSET Characters, C # {}, NEW f, \A c \in C : f[c] \in Int
  PROVE  Max({f[c] : c \in C}) \in {f[c] : c \in C}
<1>1. \E c \in C : \A d \in C : f[c] >= f[d]
  <2> DEFINE Among(i) == {c \in C : c <= i}
             HasTop(i) == Among(i) = {} \/ \E c \in Among(i) : \A d \in Among(i) : f[c] >= f[d]
  <2>1. ASSUME NEW i \in Nat, HasTop(i) PROVE HasTop(i + 1)
    <3>1. \A c \in C : c \in Int /\ f[c] \in Int
      BY DEF Characters
    <3>2. \A d \in Among(i + 1) : d \in Among(i) \/ d = i + 1
      BY <3>1
    <3>3. CASE i + 1 \notin C
      <4>1. Among(i + 1) = Among(i)
        BY <3>1, <3>2, <3>3
      <4> QED
        BY <2>1, <4>1
    <3>4. CASE i + 1 \in C /\ Among(i) = {}
      <4>1. Among(i + 1) = {i + 1}
        BY <3>1, <3>2, <3>4
      <4> QED
        BY <3>1, <3>4, <4>1
    <3>5. CASE i + 1 \in C /\ Among(i) # {}
      <4>1. PICK c \in Among(i) : \A d \in Among(i) : f[c] >= f[d]
        BY <2>1, <3>5
      <4>2. c \in Among(i + 1) /\ i + 1 \in Among(i + 1) /\ f[c] \in Int /\ f[i + 1] \in Int
        BY <3>1, <3>5
      <4>3. CASE f[c] >= f[i + 1]
        <5>1. \A d \in Among(i + 1) : f[c] >= f[d]
          BY <3>2, <4>1, <4>3
        <5> QED
          BY <4>2, <5>1
      <4>4. CASE f[i + 1] > f[c]
        <5>1. \A d \in Among(i + 1) : f[i + 1] >= f[d]
          BY <3>1, <3>2, <4>1, <4>2, <4>4
        <5> QED
          BY <4>2, <5>1
      <4> QED
        BY <4>2, <4>3, <4>4
    <3> QED
      BY <3>3, <3>4, <3>5
  <2>2. Among(0) = {} /\ Among(4) = C
    <3>1. \A c \in C : c \in 1 .. 4
      BY DEF Characters
    <3> QED
      BY <3>1
  <2>3. HasTop(0)
    BY <2>2
  <2> HIDE DEF HasTop
  <2>4. HasTop(0 + 1) /\ HasTop(1)
    BY <2>1, <2>3
  <2>5. HasTop(1 + 1) /\ HasTop(2)
    BY <2>1, <2>4
  <2>6. HasTop(2 + 1) /\ HasTop(3)
    BY <2>1, <2>5
  <2>7. HasTop(3 + 1) /\ HasTop(4)
    BY <2>1, <2>6
  <2> QED
    BY <2>2, <2>7 DEF HasTop
<1>2. \E x \in {f[c] : c \in C} : \A y \in {f[c] : c \in C} : x >= y
  BY <1>1
<1> QED
  BY <1>2 DEF Max

LEMMA HigherOfTwo == \A a, b \in Nat : Max({a, b}) \in {a, b} /\ Max({a, b}) \in Nat
<1> TAKE a, b \in Nat
<1>1. \E x \in {a, b} : \A y \in {a, b} : x >= y
  OBVIOUS
<1> QED
  BY <1>1 DEF Max

ASaved == [account : Nat, before : [Characters -> CharSave], now : [Characters -> CharSave], recent : BOOLEAN]

LEMMA StartsAreNumbers ==
  ASSUME NEW s \in ASaved
  PROVE  \A c \in Characters : Other(c) \in Characters /\ Start(s, c) \in Nat /\ Gain(s, c) \in Int
<1>1. TopRank(s) \in Nat
  <2> DEFINE f == [c \in Characters |-> s.before[c].rank]
  <2>1. \A c \in Characters : s.before[c].rank \in Nat /\ f[c] = s.before[c].rank
    BY DEF ASaved, CharSave
  <2>2. TopRank(s) = Max({f[c] : c \in Characters})
    BY DEF TopRank
  <2>3. Characters # {} /\ \A c \in Characters : f[c] \in Int
    BY <2>1 DEF Characters
  <2> HIDE DEF f
  <2>4. TopRank(s) \in {f[c] : c \in Characters}
    BY <2>2, <2>3, Highest
  <2> QED
    BY <2>1, <2>4
<1>2. SubFloor(s) \in Nat
  BY DEF SubFloor, Berserker, Master, ThirdDan, SecondDan, FirstDan
<1>3. ASSUME NEW c \in Characters
      PROVE  Other(c) \in Characters /\ Start(s, c) \in Nat /\ Gain(s, c) \in Int
  <2>1. Other(c) \in Characters
    BY DEF Other, Characters
  <2>2. s.before[c].rank \in Nat /\ s.before[Other(c)].rank \in Nat /\ s.now[c].rank \in Nat
    BY <2>1 DEF ASaved, CharSave
  <2> DEFINE rank == Max({s.before[c].rank, s.before[Other(c)].rank})
  <2>3. rank \in Nat
    BY <2>2, HigherOfTwo
  <2> HIDE DEF rank
  <2>4. Max({rank, SubFloor(s)}) \in Nat
    BY <1>2, <2>3, HigherOfTwo
  <2>5. Start(s, c) = IF rank = TopRank(s) THEN rank ELSE Max({rank, SubFloor(s)})
    BY DEF Start, rank
  <2> QED
    BY <2>1, <2>2, <2>3, <2>4, <2>5 DEF Gain
<1> QED
  BY <1>3

LEMMA ClimbIsANumber ==
  ASSUME NEW s \in ASaved, Reached(s) # {}
  PROVE  Best(s) \in Int
<1> DEFINE f == [c \in Characters |-> Gain(s, c)]
<1>1. \A c \in Reached(s) : c \in Characters /\ f[c] = Gain(s, c) /\ f[c] \in Int
  BY StartsAreNumbers DEF Reached
<1>2. Best(s) = Max({f[c] : c \in Reached(s)})
  BY <1>1 DEF Best
<1> HIDE DEF f
<1>3. Best(s) \in {f[c] : c \in Reached(s)}
  BY <1>1, <1>2, Highest
<1> QED
  BY <1>1, <1>3

LEMMA RanksAreNumbers ==
  ASSUME NEW s \in ASaved, NEW k \in Nat
  PROVE  RankOf(s, k) \in Int
<1> DEFINE key == [c \in Characters |-> s.now[c].rank]
<1>1. \A c \in Characters : s.now[c].rank \in Nat
  BY DEF ASaved, CharSave
<1>2. Sortable(Ranked(s), key)
  <2>1. IsFiniteSet(1 .. 4)
    <3>1. \A a, b \in Int : IsFiniteSet(a .. b)
      BY FS_Interval
    <3>2. 1 \in Int /\ 4 \in Int
      OBVIOUS
    <3> QED
      BY <3>1, <3>2, Zenon
  <2>2. Ranked(s) \subseteq 1 .. 4 /\ \A c \in Ranked(s) : key[c] \in Int
    BY <1>1 DEF Ranked, Characters
  <2>3. IsFiniteSet(Ranked(s)) /\ Ranked(s) \subseteq Int
    BY <2>1, <2>2, FS_Subset
  <2> QED
    BY <2>2, <2>3 DEF Sortable
<1>3. DOMAIN ByRank(s) = 1 .. Cardinality(Ranked(s))
  BY DEF ByRank, Sorted
<1>4. k \in DOMAIN ByRank(s) => ByRank(s)[k] \in Ranked(s)
  <2> HIDE DEF key
  <2> QED
    BY <1>2, <1>3, SortedAt DEF ByRank, key
<1> QED
  BY <1>1, <1>4 DEF RankOf, Ranked

----------------------------------------------------------------------------
(* The boards, in any state *)

RankInv ==
  /\ IsFiniteSet(DOMAIN entered) /\ DOMAIN entered \subseteq Nat
  /\ \A u \in DOMAIN entered : entered[u] \in ASaved

LEMMA RankInvInit == RankInit => RankInv
<1> SUFFICES ASSUME RankInit PROVE RankInv
  OBVIOUS
<1>1. DOMAIN entered = {}
  BY DEF RankInit
<1> QED
  BY <1>1, FS_EmptySet DEF RankInv

LEMMA RankInvStep == RankInv /\ [RankNext]_rankvars => RankInv'
<1> SUFFICES ASSUME RankInv, [RankNext]_rankvars PROVE RankInv'
  OBVIOUS
<1>1. ASSUME NEW u \in Entrants, NEW s \in Saves,
             entered' = [v \in DOMAIN entered \cup {u} |-> IF v = u THEN s ELSE entered[v]]
      PROVE  RankInv'
  <2>1. u \in Nat /\ s \in ASaved
    BY RanksAssumption DEF ASaved
  <2>2. DOMAIN entered' = DOMAIN entered \cup {u}
    BY <1>1
  <2>3. \A v \in DOMAIN entered' : entered'[v] = s \/ (v \in DOMAIN entered /\ entered'[v] = entered[v])
    BY <1>1, <2>2
  <2>4. IsFiniteSet(DOMAIN entered')
    BY <2>2, FS_AddElement DEF RankInv
  <2> QED
    BY <2>1, <2>2, <2>3, <2>4 DEF RankInv
<1>2. CASE entered' = entered
  BY <1>2 DEF RankInv
<1> QED
  BY <1>1, <1>2 DEF RankNext, rankvars

LEMMA AchieversRight ==
  ASSUME RankInv
  PROVE  LET achieved == {u \in DOMAIN entered \ excluded : Reached(entered[u]) # {}}
         IN RightBoard(Achievers(entered), achieved, [u \in achieved |-> Best(entered[u])])
<1> DEFINE achieved == {u \in DOMAIN entered \ excluded : Reached(entered[u]) # {}}
           key == [u \in achieved |-> Best(entered[u])]
<1>1. Sortable(achieved, key)
  <2>1. \A u \in achieved : u \in DOMAIN entered /\ u \in Int /\ key[u] \in Int
    BY ClimbIsANumber DEF RankInv
  <2>2. IsFiniteSet(achieved)
    BY FS_Subset DEF RankInv
  <2> HIDE DEF achieved, key
  <2> QED
    BY <2>1, <2>2 DEF Sortable
<1>2. Achievers(entered) = Places(achieved, key)
  BY DEF Achievers
<1> HIDE DEF achieved, key
<1>3. RightBoard(Achievers(entered), achieved, key)
  BY <1>1, <1>2, PlacedRight
<1> QED
  BY <1>3 DEF achieved, key

LEMMA EarnedAlike ==
  ASSUME NEW s \in ASaved
  PROVE  Reached(Earned(s)) = Reached(s) /\ Best(Earned(s)) = Best(s)
<1> DEFINE e == Earned(s)
<1>1. e.before = s.before /\ e.account = s.account
  BY DEF Earned, ASaved
<1>2. \A c \in Characters : e.now[c] = IF HasPlayed(s, c) THEN s.now[c] ELSE s.before[c]
  BY DEF Earned, ASaved
<1> HIDE DEF e
<1>3. \A c \in Characters : /\ HasPlayed(e, c) <=> HasPlayed(s, c)
                            /\ HasPlayed(s, c) => e.now[c] = s.now[c]
  BY <1>1, <1>2 DEF HasPlayed
<1>4. TopRank(e) = TopRank(s) /\ BestRank(e) = BestRank(s)
  BY <1>1 DEF TopRank, BestRank
<1>5. MainSteps(e) = MainSteps(s) /\ SubFloor(e) = SubFloor(s)
  BY <1>4 DEF MainSteps, SubFloor
<1>6. \A c \in Characters : Start(e, c) = Start(s, c) /\ Steps(e, c) = Steps(s, c)
  BY <1>1, <1>4, <1>5 DEF Start, Steps
<1>7. Reached(e) = Reached(s)
  BY <1>3, <1>6 DEF Reached
<1>8. \A c \in Reached(s) : Gain(e, c) = Gain(s, c)
  BY <1>3, <1>6 DEF Gain, Reached
<1>9. {Gain(e, c) : c \in Reached(e)} = {Gain(s, c) : c \in Reached(s)}
  BY <1>7, <1>8
<1> QED
  BY <1>7, <1>9 DEF Best, e

LEMMA OnlyGamesCount ==
  ASSUME RankInv
  PROVE  Achievers([u \in DOMAIN entered |-> Earned(entered[u])]) = Achievers(entered)
<1> DEFINE undone == [u \in DOMAIN entered |-> Earned(entered[u])]
           who(save) == {u \in DOMAIN save \ excluded : Reached(save[u]) # {}}
<1>1. \A u \in DOMAIN entered : Reached(undone[u]) = Reached(entered[u]) /\ Best(undone[u]) = Best(entered[u])
  BY EarnedAlike DEF RankInv
<1>2. DOMAIN undone = DOMAIN entered
  OBVIOUS
<1> HIDE DEF undone
<1>3. who(undone) = who(entered)
  BY <1>1, <1>2
<1>4. [u \in who(undone) |-> Best(undone[u])] = [u \in who(entered) |-> Best(entered[u])]
  BY <1>1, <1>3
<1>5. Achievers(undone) = Achievers(entered)
  BY <1>3, <1>4 DEF Achievers
<1> QED
  BY <1>5 DEF undone

LEMMA PairsAlike ==
  ASSUME NEW s, NEW c \in Characters
  PROVE  Start(s, c) = Start(s, Other(c)) /\ Steps(s, c) = Steps(s, Other(c))
<1>1. Other(Other(c)) = c
  BY DEF Other, Characters
<1>2. {s.before[c].rank, s.before[Other(c)].rank} = {s.before[Other(c)].rank, s.before[Other(Other(c))].rank}
  BY <1>1
<1> QED
  BY <1>2 DEF Start, Steps

OnBoard(us) == {u \in us : Ranked(entered[u]) # {}}
Standings(us) == [u \in us |-> Standing(u)]

LEMMA StandingsSort ==
  ASSUME RankInv, NEW us \in SUBSET DOMAIN entered
  PROVE  /\ Sortable(OnBoard(us), Standings(us))
         /\ CurrentBoard(us) = Places(OnBoard(us), Standings(us))
<1>1. \A u \in us : u \in Int /\ Standing(u) \in Int
  <2> TAKE u \in us
  <2>1. entered[u] \in ASaved /\ u \in Int
    BY DEF RankInv
  <2>2. RankOf(entered[u], 1) \in Int /\ RankOf(entered[u], 2) \in Int
    BY <2>1, RanksAreNumbers
  <2> QED
    BY <2>1, <2>2 DEF Standing
<1>2. IsFiniteSet(OnBoard(us))
  <2>1. OnBoard(us) \subseteq DOMAIN entered
    BY DEF OnBoard
  <2> QED
    BY <2>1, FS_Subset DEF RankInv
<1> QED
  BY <1>1, <1>2 DEF Sortable, OnBoard, Standings, CurrentBoard

\* Those who stand better are in front, also with players taken out of the list.
LEMMA LessToTheFront ==
  ASSUME NEW S, NEW key, Sortable(S, key), NEW u \in S, NEW v \in S,
         Entry(S, key, u).place >= Entry(S, key, v).place
  PROVE  key[u] <= key[v]
<1>1. key[u] \in Int /\ key[v] \in Int
  BY DEF Sortable
<1>2. key[u] > key[v] => Cardinality(Better(S, key, u)) < Cardinality(Better(S, key, v))
  BY EveryoneBetter
<1>3. Cardinality(Better(S, key, u)) \in Nat /\ Cardinality(Better(S, key, v)) \in Nat
  BY EveryoneBetter
<1> QED
  BY <1>1, <1>2, <1>3 DEF Entry

LEMMA HoldersListed ==
  ASSUME RankInv, NEW rank \in HolderRanks
  PROVE  LET holders == Holders(rank)
         IN \A i, j \in DOMAIN holders : i < j =>
              /\ holders[i] \in SavedWithin /\ holders[j] \in SavedWithin
              /\ holders[i] \in OnBoard(DOMAIN entered) /\ holders[j] \in OnBoard(DOMAIN entered)
              /\ Standing(holders[i]) <= Standing(holders[j])
<1> DEFINE D == DOMAIN entered
           all == OnBoard(D)
           key == Standings(D)
           held == {u \in D : HeldAt(u, rank) # {}}
           place == HoldersByRank[rank]
           found == held \cap SavedWithin
           holders == Holders(rank)
<1>1. Sortable(all, key) /\ CurrentBoard(D) = Places(all, key)
  BY StandingsSort
<1>2. ToSet(CurrentBoard(D)) = {Entry(all, key, u) : u \in all}
  <2> HIDE DEF all, key
  <2> QED
    BY <1>1, Entries
<1>3. held \subseteq all
  BY DEF HeldAt, OnBoard
<1>4. DOMAIN place = held
  BY DEF HoldersByRank
<1>5. ASSUME NEW u \in held PROVE place[u] = Entry(all, key, u).place
  <2>1. place[u] = (CHOOSE e \in ToSet(CurrentBoard(D)) : e.npid = u).place
    BY DEF HoldersByRank
  <2> HIDE DEF all, key, place, held
  <2>2. u \in all /\ Entry(all, key, u) \in ToSet(CurrentBoard(D)) /\ Entry(all, key, u).npid = u
    BY <1>2, <1>3 DEF Entry
  <2>3. \A e \in ToSet(CurrentBoard(D)) : e.npid = u => e = Entry(all, key, u)
    BY <1>2 DEF Entry
  <2>4. (CHOOSE e \in ToSet(CurrentBoard(D)) : e.npid = u) = Entry(all, key, u)
    BY <2>2, <2>3
  <2> QED
    BY <2>1, <2>4
<1>6. found \subseteq all /\ found \subseteq held /\ found \subseteq SavedWithin
  BY <1>3
<1>7. Sortable(found, place)
  <2> HIDE DEF all, key, place, found, held
  <2>1. IsFiniteSet(found) /\ found \subseteq Int
    BY <1>1, <1>6, FS_Subset DEF Sortable
  <2>2. \A u \in found : place[u] \in Int
    BY <1>1, <1>5, <1>6, EveryoneBetter DEF Entry
  <2> QED
    BY <2>1, <2>2 DEF Sortable
<1>8. holders = Sorted(found, place)
  BY <1>4 DEF Holders
<1>9. \A u \in all : key[u] = Standing(u)
  BY DEF OnBoard, Standings
<1> HIDE DEF all, key, place, found, held, holders, D
<1>10. DOMAIN holders = 1 .. Cardinality(found)
  BY <1>8 DEF Sorted
<1>11. ASSUME NEW i \in DOMAIN holders, NEW j \in DOMAIN holders, i < j
       PROVE  /\ holders[i] \in SavedWithin /\ holders[j] \in SavedWithin
              /\ holders[i] \in all /\ holders[j] \in all
              /\ Standing(holders[i]) <= Standing(holders[j])
  <2>1. holders[i] \in found /\ holders[j] \in found /\ Precedes(place, holders[i], holders[j])
    BY <1>7, <1>8, <1>10, <1>11, SortedRight
  <2>2. Entry(all, key, holders[i]).place >= Entry(all, key, holders[j]).place
    <3>1. /\ place[holders[i]] \in Int /\ place[holders[j]] \in Int
          /\ place[holders[i]] >= place[holders[j]]
      <4>1. place[holders[i]] \in Int /\ place[holders[j]] \in Int
        BY <1>7, <2>1 DEF Sortable
      <4> QED
        BY <2>1, <4>1 DEF Precedes
    <3> QED
      BY <1>5, <1>6, <2>1, <3>1
  <2>3. key[holders[i]] <= key[holders[j]]
    BY <1>1, <1>6, <2>1, <2>2, LessToTheFront
  <2> QED
    BY <1>6, <1>9, <2>1, <2>3
<1> QED
  BY <1>11 DEF holders, all, D

LEMMA HoldersRight ==
  ASSUME RankInv, NEW rank \in HolderRanks
  PROVE  LET holders == Holders(rank)
         IN \A i, j \in DOMAIN holders : i < j => \A x, y \in ToSet(Leaderboard) :
              x.npid = holders[i] /\ y.npid = holders[j] => x.place >= y.place
<1> DEFINE holders == Holders(rank)
           shown == OnBoard(SavedWithin)
           key == Standings(SavedWithin)
<1>1. SavedWithin \in SUBSET DOMAIN entered
  BY DEF SavedWithin
<1>2. Sortable(shown, key) /\ Leaderboard = Places(shown, key)
  BY <1>1, StandingsSort DEF Leaderboard
<1>3. ToSet(Leaderboard) = {Entry(shown, key, u) : u \in shown}
  <2> HIDE DEF shown, key
  <2> QED
    BY <1>2, Entries
<1>4. SUFFICES ASSUME NEW i \in DOMAIN holders, NEW j \in DOMAIN holders, i < j,
                      NEW x \in ToSet(Leaderboard), NEW y \in ToSet(Leaderboard),
                      x.npid = holders[i], y.npid = holders[j]
               PROVE  x.place >= y.place
  OBVIOUS
<1>5. \A u \in shown : key[u] = Standing(u)
  BY DEF OnBoard, Standings
<1>6. Standing(holders[i]) <= Standing(holders[j])
  BY <1>4, HoldersListed
<1> HIDE DEF shown, key, holders
<1>7. PICK u \in shown : x = Entry(shown, key, u)
  BY <1>3
<1>8. PICK v \in shown : y = Entry(shown, key, v)
  BY <1>3
<1>9. u = holders[i] /\ v = holders[j]
  BY <1>4, <1>7, <1>8 DEF Entry
<1>10. key[v] = key[u] \/ key[v] > key[u]
  BY <1>2, <1>5, <1>6, <1>9 DEF Sortable
<1>11. Cardinality(Better(shown, key, v)) <= Cardinality(Better(shown, key, u))
  BY <1>2, <1>10, EveryoneBetter
<1> QED
  BY <1>2, <1>7, <1>8, <1>11, EveryoneBetter DEF Entry

LEMMA BoardsRightInv == RankInv => BoardsRight
<1> SUFFICES ASSUME RankInv PROVE BoardsRight
  OBVIOUS
<1>1. ASSUME NEW u \in DOMAIN entered, NEW c \in Characters
      PROVE  LET s == entered[u]
             IN Start(s, c) = Start(s, Other(c)) /\ Steps(s, c) = Steps(s, Other(c))
  BY PairsAlike
<1>2. WithoutExcluded(CurrentBoard(DOMAIN entered), excluded) = CurrentBoard(DOMAIN entered \ excluded)
  <2> DEFINE D == DOMAIN entered
             left == D \ excluded
  <2>1. Sortable(OnBoard(D), Standings(D)) /\ CurrentBoard(D) = Places(OnBoard(D), Standings(D))
    BY StandingsSort
  <2>2. CurrentBoard(left) = Places(OnBoard(left), Standings(left))
    BY StandingsSort
  <2>3. OnBoard(left) = OnBoard(D) \ excluded
    BY DEF OnBoard
  <2>4. \A u \in OnBoard(left) : Standings(left)[u] = Standings(D)[u]
    BY DEF OnBoard, Standings
  <2> HIDE DEF D, left
  <2>5. WithoutExcluded(Places(OnBoard(D), Standings(D)), excluded) = Places(OnBoard(left), Standings(left))
    BY <2>1, <2>3, <2>4, TakenOut
  <2> QED
    BY <2>1, <2>2, <2>5 DEF D, left
<1>3. RightBoard(Leaderboard, {u \in SavedWithin : Ranked(entered[u]) # {}}, [u \in SavedWithin |-> Standing(u)])
  <2>1. SavedWithin \in SUBSET DOMAIN entered
    BY DEF SavedWithin
  <2>2. RightBoard(Leaderboard, OnBoard(SavedWithin), Standings(SavedWithin))
    BY <2>1, StandingsSort, PlacedRight DEF Leaderboard
  <2> QED
    BY <2>2 DEF OnBoard, Standings
<1> QED
  BY <1>1, <1>2, <1>3, AchieversRight, OnlyGamesCount, HoldersRight DEF BoardsRight

\* The boards of saves keep their promises whatever the saves, the number of players
\* and who is left out: equals share a place and the next follows their number, players
\* taken out of a placed board leave the board placed without them, only games
\* move anybody in the event, and the holders of a rank are listed from the lowest
\* place of the leaderboard up.
THEOREM BoardsAreRight == RankSpec => []BoardsRight
<1>1. RankSpec => []RankInv
  BY RankInvInit, RankInvStep, PTL DEF RankSpec
<1> QED
  BY <1>1, BoardsRightInv, PTL

----------------------------------------------------------------------------
(* Sums of sizes *)

\* The sizes of sets that have nothing in common add up to the size of their union.
LEMMA SumOfSizes ==
  ASSUME NEW S, IsFiniteSet(S), NEW f \in [S -> Nat], NEW W,
         \A x \in S : IsFiniteSet(W[x]) /\ Cardinality(W[x]) = f[x],
         \A x, y \in S : x # y => W[x] \cap W[y] = {}
  PROVE  SumFunction(f) = Cardinality(UNION {W[x] : x \in S})
<1> DEFINE Whole(s) == UNION {W[x] : x \in s}
           size == [s \in SUBSET S |-> Cardinality(Whole(s))]
           one(s) == CHOOSE x \in s : TRUE
           IsSum(g) == g = [s \in SUBSET S |-> IF s = {} THEN 0 ELSE f[one(s)] + g[s \ {one(s)}]]
           sum == CHOOSE g : IsSum(g)
<1>1. SumFunction(f) = sum[S]
  <2>1. DOMAIN f = S
    OBVIOUS
  <2> QED
    BY <2>1 DEF SumFunction, SumFunctionOnSet, FoldFunctionOnSet, MapThenFoldSet
<1>2. \A s \in SUBSET S : IsFiniteSet(s) /\ IsFiniteSet(Whole(s)) /\ Cardinality(Whole(s)) \in Nat
  <2> TAKE s \in SUBSET S
  <2>1. IsFiniteSet(s)
    BY FS_Subset
  <2>2. IsFiniteSet({W[x] : x \in s})
    <3> DEFINE h == [x \in s |-> W[x]]
    <3>1. h \in Surjection(s, {W[x] : x \in s})
      BY DEF Surjection
    <3> QED
      BY <2>1, <3>1, FS_Surjection
  <2>3. IsFiniteSet(Whole(s))
    BY <2>2, FS_UNION
  <2> QED
    BY <2>1, <2>3, FS_CardinalityType
<1>3. \A s \in SUBSET S : \A x \in s : size[s] = f[x] + size[s \ {x}]
  <2> SUFFICES ASSUME NEW s \in SUBSET S, NEW x \in s PROVE size[s] = f[x] + size[s \ {x}]
    OBVIOUS
  <2> DEFINE others == Whole(s \ {x})
  <2>1. Whole(s) = W[x] \cup others /\ W[x] \cap others = {}
    OBVIOUS
  <2>2. IsFiniteSet(W[x]) /\ Cardinality(W[x]) = f[x] /\ f[x] \in Nat
    OBVIOUS
  <2>3. s \ {x} \in SUBSET S
    OBVIOUS
  <2>4. IsFiniteSet(others) /\ Cardinality(others) \in Nat
    BY <1>2, <2>3
  <2>5. size[s] = Cardinality(Whole(s)) /\ size[s \ {x}] = Cardinality(others)
    BY <2>3
  <2> HIDE DEF others, Whole, size
  <2>6. Cardinality(W[x] \cup others) = Cardinality(W[x]) + Cardinality(others) - Cardinality(W[x] \cap others)
    BY <2>2, <2>4, FS_Union
  <2>7. Cardinality(W[x] \cap others) = 0
    BY <2>1, FS_EmptySet
  <2> QED
    BY <2>1, <2>2, <2>4, <2>5, <2>6, <2>7
<1>4. size[{}] = 0
  <2>1. Whole({}) = {}
    OBVIOUS
  <2>2. size[{}] = Cardinality({})
    BY <2>1
  <2> QED
    BY <2>2, FS_EmptySet
<1>5. \A s \in SUBSET S : s # {} => one(s) \in s
  OBVIOUS
<1> HIDE DEF Whole
<1>6. IsSum(size)
  <2> DEFINE step == [s \in SUBSET S |-> IF s = {} THEN 0 ELSE f[one(s)] + size[s \ {one(s)}]]
  <2>1. \A s \in SUBSET S : size[s] = step[s]
    <3> TAKE s \in SUBSET S
    <3>1. CASE s = {}
      BY <1>4, <3>1
    <3>2. CASE s # {}
      <4>1. one(s) \in s
        BY <1>5, <3>2
      <4>2. size[s] = f[one(s)] + size[s \ {one(s)}]
        <5> HIDE DEF size, one
        <5> QED
          BY <1>3, <4>1
      <4> HIDE DEF size, one
      <4> QED
        BY <3>2, <4>2
    <3> QED
      BY <3>1, <3>2
  <2>2. DOMAIN size = SUBSET S /\ DOMAIN step = SUBSET S /\ size = [s \in SUBSET S |-> size[s]]
    OBVIOUS
  <2>3. step = [s \in SUBSET S |-> step[s]]
    OBVIOUS
  <2> HIDE DEF size, step
  <2>4. size = step
    BY <2>1, <2>2, <2>3
  <2> QED
    BY <2>4 DEF step
<1> HIDE DEF size
<1>7. IsSum(sum)
  <2> HIDE DEF IsSum
  <2> QED
    BY <1>6
<1>8. sum[{}] = 0 /\ \A s \in SUBSET S : s # {} => sum[s] = f[one(s)] + sum[s \ {one(s)}]
  <2> HIDE DEF sum, one
  <2> QED
    BY <1>7
<1> HIDE DEF sum, one
<1>9. \A s \in SUBSET S : sum[s] = size[s]
  <2> DEFINE Wrong == {s \in SUBSET S : sum[s] # size[s]}
             R == StrictSubsetOrdering(S)
             F == FiniteSubsetsOf(S)
  <2> SUFFICES ASSUME Wrong # {} PROVE FALSE
    OBVIOUS
  <2>1. Wrong \subseteq F
    BY <1>2 DEF FiniteSubsetsOf
  <2>2. PICK s \in Wrong : \A t \in Wrong : <<t, s>> \notin R
    <3>1. IsWellFoundedOn(R, F)
      BY FS_StrictSubsetOrderingWellFounded
    <3> HIDE DEF Wrong, R, F
    <3> QED
      BY <2>1, <3>1, WFMin
  <2>3. s # {}
    BY <1>4, <1>8
  <2> DEFINE t == s \ {one(s)}
  <2>4. t \in SUBSET S /\ one(s) \in s
    BY <1>5, <2>3
  <2>5. <<t, s>> \in R
    BY <2>4 DEF StrictSubsetOrdering
  <2>6. sum[t] = size[t]
    BY <2>2, <2>4, <2>5
  <2>7. sum[s] = size[s]
    BY <1>3, <1>8, <2>3, <2>4, <2>6
  <2> QED
    BY <2>7
<1> QED
  BY <1>1, <1>9 DEF size, Whole

----------------------------------------------------------------------------
(* The lines that count *)

Paired(m) == m \in Match /\ m.p1 # m.p2 /\ (m.p2 = NoOne => m.seen = {"p1"})
RecordsKept ==
  /\ match \in Seq(Match) /\ born \subseteq DOMAIN match
  /\ \A i \in DOMAIN match : Paired(match[i])

First(i) == Line(i, match[i].p1, match[i].p2, "p1")
Second(i) == Line(i, match[i].p2, match[i].p1, "p2")

LEMMA CountedIs ==
  ASSUME RecordsKept
  PROVE  /\ IsFiniteSet(Counted)
         /\ \A x \in Counted : \E i \in born :
              /\ match[i].recent /\ match[i].p1 \in Names /\ match[i].p2 \in Names
              /\ (x = First(i) /\ "p1" \in match[i].seen) \/ (x = Second(i) /\ "p2" \in match[i].seen)
<1>1. ASSUME NEW x \in Counted
      PROVE  \E i \in born :
               /\ match[i].recent /\ match[i].p1 \in Names /\ match[i].p2 \in Names
               /\ (x = First(i) /\ "p1" \in match[i].seen) \/ (x = Second(i) /\ "p2" \in match[i].seen)
  <2>1. PICK i \in born : x = First(i) \/ x = Second(i)
    BY DEF Counted, Played, First, Second
  <2>2. match[i] \in Match /\ Paired(match[i])
    BY DEF RecordsKept
  <2>3. x.id = i
    BY <2>1 DEF Line, First, Second
  <2>4. match[i].recent /\ x.seen /\ x.opponent # NoOne
    BY <2>3 DEF Counted
  <2>5. match[i].p1 \in Names /\ match[i].p2 \in Names \cup {NoOne}
    BY <2>2 DEF Match
  <2>6. CASE x = First(i)
    <3>1. x.seen = ("p1" \in match[i].seen) /\ x.opponent = match[i].p2
      BY <2>6 DEF First, Line
    <3>2. "p1" \in match[i].seen
      BY <2>4, <3>1, Zenon
    <3> QED
      BY <2>4, <2>5, <2>6, <3>1, <3>2
  <2>7. CASE x = Second(i)
    <3>1. x.seen = ("p2" \in match[i].seen)
      BY <2>7 DEF Second, Line
    <3>2. "p2" \in match[i].seen
      BY <2>4, <3>1, Zenon
    <3>3. match[i].p2 # NoOne
      BY <2>2, <3>2 DEF Paired
    <3> QED
      BY <2>4, <2>5, <2>7, <3>2, <3>3
  <2> QED
    BY <2>1, <2>6, <2>7
<1>2. IsFiniteSet(Counted)
  <2> DEFINE first == [i \in born |-> First(i)]
             second == [i \in born |-> Second(i)]
             A == {first[i] : i \in born}
             B == {second[i] : i \in born}
  <2>1. IsFiniteSet(born)
    <3>1. DOMAIN match = 1 .. Len(match) /\ Len(match) \in Nat
      BY DEF RecordsKept
    <3>2. \A n \in Nat : IsFiniteSet(1 .. n)
      BY FS_Interval
    <3> QED
      BY <3>1, <3>2, FS_Subset DEF RecordsKept
  <2>2. first \in Surjection(born, A) /\ second \in Surjection(born, B)
    BY DEF Surjection
  <2>3. Counted \subseteq A \cup B
    BY DEF Counted, Played, First, Second
  <2> HIDE DEF A, B, first, second
  <2>4. IsFiniteSet(A \cup B)
    BY <2>1, <2>2, FS_Surjection, FS_Union
  <2> QED
    BY <2>3, <2>4, FS_Subset
<1> QED
  BY <1>1, <1>2

Of(u) == {x \in Counted : x.npid = u}
Against(u, v) == {x \in Counted : x.npid = u /\ x.opponent = v}
Opponents(u) == {v \in Names : Against(u, v) # {}}
Meeting(u, v) == [opponent |-> v, tally |-> TallyOf(Against(u, v))]
WonOnes(lines) == {x \in lines : x.won}
LostOnes(lines) == {x \in lines : ~x.won}

LEMMA AgainstIs ==
  ASSUME NEW u
  PROVE  FrequentOpponents(u) = {Meeting(u, v) : v \in Opponents(u)}
BY DEF FrequentOpponents, Meeting, Opponents, Against

\* Every line that counts is against somebody.
LEMMA TalliesSum ==
  ASSUME RecordsKept, NEW u
  PROVE  LET against == FrequentOpponents(u)
         IN /\ SumFunction([x \in against |-> x.tally.wins]) = TallyOf(Of(u)).wins
            /\ SumFunction([x \in against |-> x.tally.losses]) = TallyOf(Of(u)).losses
            /\ TallyOf(Of(u)).matches = TallyOf(Of(u)).wins + TallyOf(Of(u)).losses
<1> DEFINE against == FrequentOpponents(u)
           winsOf == [x \in against |-> x.tally.wins]
           lossesOf == [x \in against |-> x.tally.losses]
           wonFrom == [x \in against |-> WonOnes(Against(u, x.opponent))]
           lostTo == [x \in against |-> LostOnes(Against(u, x.opponent))]
<1>1. against = {Meeting(u, v) : v \in Opponents(u)}
  BY AgainstIs
<1>2. IsFiniteSet(against)
  <2>1. IsFiniteSet(Opponents(u))
    BY RecordsAssumption, FS_Subset DEF Opponents
  <2> DEFINE h == [v \in Opponents(u) |-> Meeting(u, v)]
  <2>2. h \in Surjection(Opponents(u), against)
    BY <1>1 DEF Surjection
  <2> QED
    BY <2>1, <2>2, FS_Surjection
<1>3. \A v : /\ IsFiniteSet(WonOnes(Against(u, v))) /\ Cardinality(WonOnes(Against(u, v))) \in Nat
             /\ IsFiniteSet(LostOnes(Against(u, v))) /\ Cardinality(LostOnes(Against(u, v))) \in Nat
  <2> TAKE v
  <2>1. WonOnes(Against(u, v)) \subseteq Counted /\ LostOnes(Against(u, v)) \subseteq Counted
    BY DEF WonOnes, LostOnes, Against
  <2> QED
    BY <2>1, CountedIs, FS_Subset, FS_CardinalityType
<1>4. \A x \in against : /\ winsOf[x] = Cardinality(WonOnes(Against(u, x.opponent)))
                         /\ lossesOf[x] = Cardinality(LostOnes(Against(u, x.opponent)))
  <2> SUFFICES ASSUME NEW v \in Opponents(u)
               PROVE  LET x == Meeting(u, v)
                      IN /\ x.tally.wins = Cardinality(WonOnes(Against(u, x.opponent)))
                         /\ x.tally.losses = Cardinality(LostOnes(Against(u, x.opponent)))
    BY <1>1
  <2> QED
    BY DEF Meeting, TallyOf, WonOnes, LostOnes
<1>5. \A x, y \in against : x # y => x.opponent # y.opponent
  BY <1>1 DEF Meeting
<1>6. \A x \in Counted : x.opponent \in Names
  <2> TAKE x \in Counted
  <2>1. PICK i \in born : match[i].p1 \in Names /\ match[i].p2 \in Names /\ (x = First(i) \/ x = Second(i))
    BY CountedIs
  <2> QED
    BY <2>1 DEF First, Second, Line
<1>7. UNION {wonFrom[x] : x \in against} = WonOnes(Of(u)) /\ UNION {lostTo[x] : x \in against} = LostOnes(Of(u))
  <2>1. \A y \in Of(u) : \E x \in against : x.opponent = y.opponent
    <3> TAKE y \in Of(u)
    <3>1. y.opponent \in Opponents(u)
      BY <1>6 DEF Of, Opponents, Against
    <3>2. Meeting(u, y.opponent) \in against /\ Meeting(u, y.opponent).opponent = y.opponent
      BY <1>1, <3>1 DEF Meeting
    <3> QED
      BY <3>2
  <2>2. \A x \in against : Against(u, x.opponent) \subseteq Of(u)
    BY DEF Against, Of
  <2>3. \A y \in Of(u) : y \in Against(u, y.opponent)
    BY DEF Against, Of
  <2> HIDE DEF against
  <2> QED
    BY <2>1, <2>2, <2>3 DEF WonOnes, LostOnes
<1>8. TallyOf(Of(u)) = [matches |-> Cardinality(Of(u)), wins |-> Cardinality(WonOnes(Of(u))),
                        losses |-> Cardinality(LostOnes(Of(u)))]
  BY DEF TallyOf, WonOnes, LostOnes
<1>9. SumFunction(winsOf) = Cardinality(WonOnes(Of(u)))
  <2>1. winsOf \in [against -> Nat]
    BY <1>3, <1>4
  <2>2. \A x \in against : IsFiniteSet(wonFrom[x]) /\ Cardinality(wonFrom[x]) = winsOf[x]
    BY <1>3, <1>4
  <2>3. \A x, y \in against : x # y => wonFrom[x] \cap wonFrom[y] = {}
    BY <1>5 DEF WonOnes, Against
  <2> HIDE DEF against, winsOf, wonFrom
  <2>4. SumFunction(winsOf) = Cardinality(UNION {wonFrom[x] : x \in against})
    BY <1>2, <2>1, <2>2, <2>3, SumOfSizes
  <2> QED
    BY <1>7, <2>4
<1>10. SumFunction(lossesOf) = Cardinality(LostOnes(Of(u)))
  <2>1. lossesOf \in [against -> Nat]
    BY <1>3, <1>4
  <2>2. \A x \in against : IsFiniteSet(lostTo[x]) /\ Cardinality(lostTo[x]) = lossesOf[x]
    BY <1>3, <1>4
  <2>3. \A x, y \in against : x # y => lostTo[x] \cap lostTo[y] = {}
    BY <1>5 DEF LostOnes, Against
  <2> HIDE DEF against, lossesOf, lostTo
  <2>4. SumFunction(lossesOf) = Cardinality(UNION {lostTo[x] : x \in against})
    BY <1>2, <2>1, <2>2, <2>3, SumOfSizes
  <2> QED
    BY <1>7, <2>4
<1>11. Cardinality(Of(u)) = Cardinality(WonOnes(Of(u))) + Cardinality(LostOnes(Of(u)))
  <2>1. Of(u) = WonOnes(Of(u)) \cup LostOnes(Of(u)) /\ WonOnes(Of(u)) \cap LostOnes(Of(u)) = {}
    BY DEF WonOnes, LostOnes
  <2>2. WonOnes(Of(u)) \subseteq Counted /\ LostOnes(Of(u)) \subseteq Counted
    BY DEF WonOnes, LostOnes, Of
  <2>3. /\ IsFiniteSet(WonOnes(Of(u))) /\ Cardinality(WonOnes(Of(u))) \in Nat
        /\ IsFiniteSet(LostOnes(Of(u))) /\ Cardinality(LostOnes(Of(u))) \in Nat
    BY <2>2, CountedIs, FS_Subset, FS_CardinalityType
  <2> DEFINE W == WonOnes(Of(u))
             L == LostOnes(Of(u))
  <2> HIDE DEF W, L
  <2>4. Cardinality(W \cup L) = Cardinality(W) + Cardinality(L) - Cardinality(W \cap L)
    BY <2>3, FS_Union DEF W, L
  <2>5. Cardinality(W \cap L) = 0
    BY <2>1, FS_EmptySet DEF W, L
  <2> QED
    BY <2>1, <2>3, <2>4, <2>5 DEF W, L
<1> QED
  BY <1>8, <1>9, <1>10, <1>11

BothSeen == \A i \in born : match[i].p2 # NoOne => match[i].seen = Sides

\* With both saves seen, who played u is played by u, with the other result.
LEMMA OtherSide ==
  ASSUME RecordsKept, BothSeen, NEW u \in Names, NEW v \in Names, u # v, NEW x \in Against(u, v)
  PROVE  /\ \E y \in Against(v, u) : y.id = x.id /\ (y.won <=> ~x.won)
         /\ \A y \in Against(u, v) : y.id = x.id => y = x
<1>1. PICK i \in born : /\ match[i].recent /\ match[i].p1 \in Names /\ match[i].p2 \in Names
                        /\ x = First(i) \/ x = Second(i)
  BY CountedIs DEF Against
<1>2. x.npid = u /\ x.opponent = v /\ x.id = i
  BY <1>1 DEF Against, First, Second, Line
<1>3. match[i].p1 # NoOne /\ match[i].p2 # NoOne /\ match[i].seen = Sides
  BY <1>1, RecordsAssumption DEF BothSeen
<1>4. match[i] \in Match /\ match[i].winner \in Sides
  BY DEF RecordsKept, Paired, Match
<1>5. First(i) \in Counted /\ Second(i) \in Counted
  <2>1. First(i) \in Played /\ Second(i) \in Played
    BY DEF Played, First, Second
  <2>2. First(i).seen = ("p1" \in match[i].seen) /\ Second(i).seen = ("p2" \in match[i].seen)
    BY DEF First, Second, Line
  <2>3. "p1" \in match[i].seen /\ "p2" \in match[i].seen
    BY <1>3 DEF Sides
  <2>4. First(i).seen /\ Second(i).seen
    BY <2>2, <2>3, Zenon
  <2>5. /\ First(i).opponent = match[i].p2 /\ Second(i).opponent = match[i].p1
        /\ First(i).id = i /\ Second(i).id = i
    BY DEF First, Second, Line
  <2> QED
    BY <1>1, <1>3, <2>1, <2>4, <2>5 DEF Counted
<1>6. /\ First(i).won = (match[i].winner = "p1") /\ Second(i).won = (match[i].winner = "p2")
      /\ First(i).id = i /\ Second(i).id = i
      /\ First(i).npid = match[i].p1 /\ First(i).opponent = match[i].p2
      /\ Second(i).npid = match[i].p2 /\ Second(i).opponent = match[i].p1
  BY DEF First, Second, Line
<1>7. First(i).won <=> ~Second(i).won
  <2>1. (match[i].winner = "p1") <=> ~(match[i].winner = "p2")
    BY <1>4 DEF Sides
  <2>2. First(i).won <=> match[i].winner = "p1"
    BY <1>6, Zenon
  <2>3. Second(i).won <=> match[i].winner = "p2"
    BY <1>6, Zenon
  <2> QED
    BY <2>1, <2>2, <2>3, Zenon
<1>8. \E y \in Against(v, u) : y.id = x.id /\ (y.won <=> ~x.won)
  <2>1. CASE x = First(i)
    <3>1. Second(i) \in Against(v, u)
      BY <1>2, <1>5, <1>6, <2>1 DEF Against
    <3>2. Second(i).won <=> ~x.won
      BY <1>7, <2>1, Zenon
    <3> QED
      BY <1>2, <1>6, <3>1, <3>2
  <2>2. CASE x = Second(i)
    <3>1. First(i) \in Against(v, u)
      BY <1>2, <1>5, <1>6, <2>2 DEF Against
    <3>2. First(i).won <=> ~x.won
      BY <1>7, <2>2, Zenon
    <3> QED
      BY <1>2, <1>6, <3>1, <3>2
  <2> QED
    BY <1>1, <2>1, <2>2
<1>9. ASSUME NEW y \in Against(u, v), y.id = x.id PROVE y = x
  <2>1. PICK j \in born : y = First(j) \/ y = Second(j)
    BY CountedIs DEF Against
  <2>2. y.npid = u /\ y.opponent = v /\ y.id = j
    BY <2>1 DEF Against, First, Second, Line
  <2>3. j = i
    BY <1>2, <1>9, <2>2
  <2> QED
    BY <1>1, <1>2, <1>6, <2>1, <2>2, <2>3
<1> QED
  BY <1>8, <1>9

LEMMA OneWinsOneLoses ==
  ASSUME RecordsKept, BothSeen, NEW u \in Names, NEW v \in Names, u # v
  PROVE  /\ Cardinality(WonOnes(Against(u, v))) = Cardinality(LostOnes(Against(v, u)))
         /\ Against(u, v) = {} <=> Against(v, u) = {}
<1> DEFINE W == WonOnes(Against(u, v))
           L == LostOnes(Against(v, u))
           idW == [x \in W |-> x.id]
           idL == [x \in L |-> x.id]
<1>1. IsFiniteSet(W) /\ IsFiniteSet(L)
  <2>1. W \subseteq Counted /\ L \subseteq Counted
    BY DEF WonOnes, LostOnes, Against
  <2> QED
    BY <2>1, CountedIs, FS_Subset
<1>2. (\A x, y \in W : idW[x] = idW[y] => x = y) /\ (\A x, y \in L : idL[x] = idL[y] => x = y)
  <2>1. W \subseteq Against(u, v) /\ L \subseteq Against(v, u)
    BY DEF WonOnes, LostOnes
  <2>2. \A x, y \in Against(u, v) : x.id = y.id => x = y
    BY OtherSide
  <2>3. \A x, y \in Against(v, u) : x.id = y.id => x = y
    BY OtherSide
  <2> HIDE DEF W, L
  <2> QED
    BY <2>1, <2>2, <2>3
<1>3. {idW[x] : x \in W} = {idL[x] : x \in L}
  <2>1. ASSUME NEW x \in W PROVE \E y \in L : y.id = x.id
    <3>1. x \in Against(u, v) /\ x.won
      BY DEF WonOnes
    <3>2. PICK y \in Against(v, u) : y.id = x.id /\ (y.won <=> ~x.won)
      BY <3>1, OtherSide
    <3> QED
      BY <3>1, <3>2 DEF LostOnes
  <2>2. ASSUME NEW y \in L PROVE \E x \in W : x.id = y.id
    <3>1. y \in Against(v, u) /\ ~y.won
      BY DEF LostOnes
    <3>2. PICK x \in Against(u, v) : x.id = y.id /\ (x.won <=> ~y.won)
      BY <3>1, OtherSide
    <3> QED
      BY <3>1, <3>2 DEF WonOnes
  <2> HIDE DEF W, L
  <2>3. {x.id : x \in W} = {y.id : y \in L}
    BY <2>1, <2>2
  <2> QED
    BY <2>3
<1>4. Cardinality(W) = Cardinality(L)
  <2> HIDE DEF W, L, idW, idL
  <2>1. Cardinality({idW[x] : x \in W}) = Cardinality(W)
    BY <1>1, <1>2, Renamed
  <2>2. Cardinality({idL[x] : x \in L}) = Cardinality(L)
    BY <1>1, <1>2, Renamed
  <2> QED
    BY <1>3, <2>1, <2>2
<1>5. Against(u, v) = {} <=> Against(v, u) = {}
  <2>1. \A x \in Against(u, v) : Against(v, u) # {}
    BY OtherSide
  <2>2. \A x \in Against(v, u) : Against(u, v) # {}
    BY OtherSide
  <2> QED
    BY <2>1, <2>2
<1> QED
  BY <1>4, <1>5

LEMMA MeetingsAgree ==
  ASSUME RecordsKept, BothSeen, NEW u \in Names, NEW v \in Names, u # v
  PROVE  {x.tally.wins : x \in {y \in FrequentOpponents(u) : y.opponent = v}}
           = {x.tally.losses : x \in {y \in FrequentOpponents(v) : y.opponent = u}}
<1> DEFINE mine == {y \in FrequentOpponents(u) : y.opponent = v}
           theirs == {y \in FrequentOpponents(v) : y.opponent = u}
<1>1. mine = IF Against(u, v) = {} THEN {} ELSE {Meeting(u, v)}
  BY AgainstIs DEF Meeting, Opponents
<1>2. theirs = IF Against(v, u) = {} THEN {} ELSE {Meeting(v, u)}
  BY AgainstIs DEF Meeting, Opponents
<1>3. /\ Meeting(u, v).tally.wins = Cardinality(WonOnes(Against(u, v)))
      /\ Meeting(v, u).tally.losses = Cardinality(LostOnes(Against(v, u)))
  BY DEF Meeting, TallyOf, WonOnes, LostOnes
<1>4. Meeting(u, v).tally.wins = Meeting(v, u).tally.losses
  BY <1>3, OneWinsOneLoses
<1>5. Against(u, v) = {} <=> Against(v, u) = {}
  BY OneWinsOneLoses
<1> HIDE DEF mine, theirs
<1>6. {x.tally.wins : x \in mine} = {x.tally.losses : x \in theirs}
  BY <1>1, <1>2, <1>4, <1>5
<1> QED
  BY <1>6 DEF mine, theirs

LEMMA TopIs ==
  ASSUME RecordsKept, NEW k \in DOMAIN WeeklyTop(Cardinality(Names), {})
  PROVE  LET top == WeeklyTop(Cardinality(Names), {})
         IN top[k].tally = TallyOf(Of(top[k].npid))
BY DEF WeeklyTop, Of

LEMMA TalliesAgreeInv == RecordsKept => TalliesAgree
<1> SUFFICES ASSUME RecordsKept PROVE TalliesAgree
  OBVIOUS
<1> DEFINE top == WeeklyTop(Cardinality(Names), {})
<1>1. ASSUME NEW k \in DOMAIN top
      PROVE  LET against == FrequentOpponents(top[k].npid)
             IN /\ top[k].tally.wins = SumFunction([x \in against |-> x.tally.wins])
                /\ top[k].tally.losses = SumFunction([x \in against |-> x.tally.losses])
                /\ top[k].tally.matches = top[k].tally.wins + top[k].tally.losses
  <2>1. top[k].tally = TallyOf(Of(top[k].npid))
    BY <1>1, TopIs
  <2> HIDE DEF top
  <2> QED
    BY <2>1, TalliesSum
<1>2. (\A i \in born : match[i].p2 # NoOne => match[i].seen = Sides) => BothSeen
  BY DEF BothSeen
<1> QED
  BY <1>1, <1>2, MeetingsAgree DEF TalliesAgree

LEMMA RecordsKeptInit == RecInit => RecordsKept
<1> SUFFICES ASSUME RecInit PROVE RecordsKept
  OBVIOUS
<1>1. match = <<>> /\ born = {}
  BY DEF RecInit
<1> QED
  BY <1>1 DEF RecordsKept

LEMMA RecordsKeptStep == RecordsKept /\ [RecNext]_recvars => RecordsKept'
<1> SUFFICES ASSUME RecordsKept, [RecNext]_recvars PROVE RecordsKept'
  OBVIOUS
<1>1. DOMAIN match = 1 .. Len(match) /\ Len(match) \in Nat
  BY DEF RecordsKept
<1>2. CASE Add
  <2>1. PICK m \in Lines : match' = Append(match, m)
    BY <1>2 DEF Add
  <2>2. Paired(m) /\ m \in Match
    BY RecordsAssumption DEF Paired
  <2>3. /\ match' \in Seq(Match) /\ DOMAIN match' = 1 .. Len(match) + 1
        /\ \A i \in DOMAIN match' : match'[i] = m \/ (i \in DOMAIN match /\ match'[i] = match[i])
    BY <1>1, <2>1, <2>2 DEF RecordsKept
  <2>4. born' = born /\ DOMAIN match \subseteq DOMAIN match'
    BY <1>1, <1>2, <2>3 DEF Add
  <2> QED
    BY <2>2, <2>3, <2>4 DEF RecordsKept, Paired
<1>3. ASSUME NEW i \in DOMAIN match, Commit(i) PROVE RecordsKept'
  BY <1>3 DEF Commit, RecordsKept
<1>4. ASSUME NEW i \in DOMAIN match, FillSide(i) PROVE RecordsKept'
  <2>1. Paired(match[i])
    BY DEF RecordsKept
  <2> DEFINE m == [match[i] EXCEPT !.seen = Sides]
  <2>2. Paired(m) /\ m \in Match
    <3>1. m \in Match /\ m.p1 = match[i].p1 /\ m.p2 = match[i].p2
      BY <2>1 DEF Paired, Match, Sides
    <3> QED
      BY <1>4, <2>1, <3>1 DEF Paired, FillSide
  <2>3. match' = [match EXCEPT ![i] = m] /\ born' = born
    BY <1>4 DEF FillSide
  <2> HIDE DEF m
  <2>4. match' \in Seq(Match) /\ DOMAIN match' = DOMAIN match
    BY <2>2, <2>3 DEF RecordsKept
  <2>5. \A j \in DOMAIN match : match'[j] = m \/ match'[j] = match[j]
    BY <2>3
  <2> QED
    BY <2>2, <2>3, <2>4, <2>5 DEF RecordsKept, Paired
<1>5. CASE UNCHANGED <<match, born>>
  BY <1>5 DEF RecordsKept, Paired
<1> QED
  BY <1>2, <1>3, <1>4, <1>5 DEF RecNext, recvars, ReadPage, BeginReading

\* Who shows a match to both its players counts it for each, once and with opposite
\* results: the tallies of the week and of the opponents agree, however many matches
\* and players there are and in whatever order the lines and their second sides come.
THEOREM TalliesOfBothSides == RecSpec => []TalliesAgree
<1>1. RecSpec => []RecordsKept
  BY RecordsKeptInit, RecordsKeptStep, PTL DEF RecSpec
<1> QED
  BY <1>1, TalliesAgreeInv, PTL
=============================================================================
