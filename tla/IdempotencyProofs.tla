------------------------- MODULE IdempotencyProofs -------------------------
(***************************************************************************)
(* Proofs about Idempotency for any number of handlers, keys and requests. *)
(***************************************************************************)
EXTENDS Idempotency, TLAPS

\* A handler that is to run the write alone holds the key's index entry, and
\* the key is not committed; one that met a committed key still finds it.
Claims ==
  \A h \in Handlers :
    /\ txn[h].pc \in {"claimed", "written", "completed"} =>
         /\ holder[txn[h].key] = h
         /\ keyRow[txn[h].key] = {}
    /\ txn[h].pc \in {"written", "completed", "committed"} => txn[h].answer \in Nat
    /\ txn[h].pc = "committed" =>
         [id |-> txn[h].answer, key |-> txn[h].key, request |-> txn[h].request] \in rows

\* A committed key has one row, with an answer in it.
KeyRows ==
  \A k \in Keys : \A s1, s2 \in keyRow[k] : s1 = s2 /\ s1.response # Null

IInv == TypeOK /\ Claims /\ KeyRows /\ KeyMatchesWrite /\ AnswersAreReal

LEMMA FreedType ==
  ASSUME TypeOK, NEW done
  PROVE  Freed(done) \in [Keys -> Handlers \cup {NoHandler}]
BY DEF Freed, TypeOK

LEMMA InitInv == Init => IInv
BY DEF Init, IInv, TypeOK, Claims, KeyRows, KeyMatchesWrite, AnswersAreReal, NoTxn, Reply,
       CreatedRow, IdempotencyKeyRow, Txn, PCs

LEMMA NextTypeOK == TypeOK /\ Claims /\ [Next]_vars => TypeOK'
<1> SUFFICES ASSUME TypeOK, Claims, [Next]_vars PROVE TypeOK'
  OBVIOUS
<1> USE FreedType DEF TypeOK, Txn, NoTxn, PCs, Answers, Reply, At, GoTo, Leave, Tell
<1>1. ASSUME NEW h \in Handlers, NEW k \in Keys, NEW q \in Requests, Begin(h, k, q)
      PROVE  TypeOK'
  BY <1>1 DEF Begin
<1>2. ASSUME NEW h \in Handlers, ClaimInsert(h) PROVE TypeOK'
  BY <1>2 DEF ClaimInsert
<1>3. ASSUME NEW h \in Handlers, ClaimConflict(h) PROVE TypeOK'
  BY <1>3 DEF ClaimConflict
<1>4. ASSUME NEW h \in Handlers, ReadStored(h) PROVE TypeOK'
  BY <1>4 DEF ReadStored, IdempotencyKeyRow
<1>5. ASSUME NEW h \in Handlers, Write(h) PROVE TypeOK'
  <2>1. txn[h] \in Txn /\ seq \in Nat
    BY <1>5 DEF Write
  <2>2. [txn[h] EXCEPT !.pc = "written", !.answer = seq] \in Txn
    BY <2>1
  <2>3. txn' = [txn EXCEPT ![h] = [txn[h] EXCEPT !.pc = "written", !.answer = seq]]
    BY <1>5, Zenon DEF Write
  <2> QED
    BY <1>5, <2>2, <2>3 DEF Write
<1>6. ASSUME NEW h \in Handlers, Complete(h) PROVE TypeOK'
  BY <1>6 DEF Complete
<1>7. ASSUME NEW h \in Handlers, Commit(h) PROVE TypeOK'
  BY <1>7 DEF Commit, IdempotencyKeyRow, CreatedRow, Claims
<1>8. ASSUME NEW h \in Handlers, Respond(h) PROVE TypeOK'
  BY <1>8 DEF Respond
<1>9. ASSUME NEW h \in Handlers, Abort(h) PROVE TypeOK'
  BY <1>9 DEF Abort
<1>10. CASE Crash
  BY <1>10 DEF Crash
<1>11. CASE Tick
  BY <1>11 DEF Tick
<1>12. CASE UNCHANGED vars \/ Quiescent
  BY <1>12 DEF vars, Quiescent
<1> QED
  BY <1>1, <1>2, <1>3, <1>4, <1>5, <1>6, <1>7, <1>8, <1>9, <1>10, <1>11, <1>12 DEF Next, Step

\* Only the transaction that claimed the key commits it, and nothing was there.
LEMMA CommitStores ==
  ASSUME IInv, NEW h \in Handlers, Commit(h)
  PROVE  /\ txn[h] \in Txn /\ txn[h].answer \in Nat
         /\ keyRow[txn[h].key] = {}
         /\ keyRow' = [keyRow EXCEPT ![txn[h].key] = {[request |-> txn[h].request,
                                                       response |-> txn[h].answer]}]
         /\ rows' = rows \cup {[id |-> txn[h].answer, key |-> txn[h].key,
                                 request |-> txn[h].request]}
         /\ UNCHANGED replies
<1>1. txn[h].pc = "completed"
  BY Zenon DEF Commit, At
<1>2. txn[h] \in Txn
  BY <1>1 DEF IInv, TypeOK, NoTxn
<1>3. holder[txn[h].key] = h /\ keyRow[txn[h].key] = {} /\ txn[h].answer \in Nat
  BY <1>1, Zenon DEF IInv, Claims
<1>4. txn[h].key \in Keys
  BY <1>2 DEF Txn
<1>5. keyRow' = [keyRow EXCEPT ![txn[h].key] =
                   {} \cup {[request |-> txn[h].request, response |-> txn[h].answer]}]
  BY <1>3, Zenon DEF Commit
<1>6. rows' = rows \cup {[id |-> txn[h].answer, key |-> txn[h].key,
                          request |-> txn[h].request]} /\ UNCHANGED replies
  BY Zenon DEF Commit
<1> QED
  BY <1>2, <1>3, <1>5, <1>6

LEMMA CommitKeyRows ==
  ASSUME IInv, NEW h \in Handlers, Commit(h)
  PROVE  KeyRows'
BY CommitStores, IdempotencyAssumption DEF IInv, TypeOK, KeyRows, Txn

LEMMA CommitKeyMatchesWrite ==
  ASSUME IInv, NEW h \in Handlers, Commit(h)
  PROVE  KeyMatchesWrite'
BY CommitStores DEF IInv, TypeOK, KeyMatchesWrite, Txn, CreatedRow

LEMMA NextClaims == IInv /\ [Next]_vars => Claims'
<1> SUFFICES ASSUME IInv, [Next]_vars PROVE Claims'
  OBVIOUS
<1> USE DEF IInv, TypeOK, Txn, NoTxn, PCs, Answers, At, GoTo, Leave, Tell, Freed, Claims
<1>1. ASSUME NEW h \in Handlers, NEW k \in Keys, NEW q \in Requests, Begin(h, k, q)
      PROVE  Claims'
  BY <1>1 DEF Begin
<1>2. ASSUME NEW h \in Handlers, ClaimInsert(h) PROVE Claims'
  <2>1. SUFFICES ASSUME NEW g \in Handlers
        PROVE  /\ txn'[g].pc \in {"claimed", "written", "completed"} =>
                    holder'[txn'[g].key] = g /\ keyRow'[txn'[g].key] = {}
               /\ txn'[g].pc \in {"written", "completed", "committed"} => txn'[g].answer \in Nat
               /\ txn'[g].pc = "committed" =>
                    [id |-> txn'[g].answer, key |-> txn'[g].key, request |-> txn'[g].request] \in rows'
    BY Zenon DEF Claims
  <2>2. CASE g = h
    BY <1>2, <2>2 DEF ClaimInsert
  <2>3. CASE g # h
    BY <1>2, <2>3, IdempotencyAssumption DEF ClaimInsert
  <2> QED
    BY <2>2, <2>3
<1>3. ASSUME NEW h \in Handlers, ClaimConflict(h) PROVE Claims'
  BY <1>3 DEF ClaimConflict
<1>4. ASSUME NEW h \in Handlers, ReadStored(h) PROVE Claims'
  <2>1. txn' = [txn EXCEPT ![h] = NoTxn] /\ UNCHANGED <<holder, keyRow, rows>>
    BY <1>4 DEF ReadStored, KeyRows
  <2> QED
    BY <2>1
<1>5. ASSUME NEW h \in Handlers, Write(h) PROVE Claims'
  BY <1>5 DEF Write
<1>6. ASSUME NEW h \in Handlers, Complete(h) PROVE Claims'
  BY <1>6 DEF Complete
<1>7. ASSUME NEW h \in Handlers, Commit(h) PROVE Claims'
  BY <1>7 DEF Commit
<1>8. ASSUME NEW h \in Handlers, Respond(h) PROVE Claims'
  BY <1>8 DEF Respond
<1>9. ASSUME NEW h \in Handlers, Abort(h) PROVE Claims'
  BY <1>9 DEF Abort
<1>10. CASE Crash
  BY <1>10 DEF Crash
<1>11. CASE Tick
  BY <1>11 DEF Tick
<1>12. CASE UNCHANGED vars \/ Quiescent
  BY <1>12 DEF vars, Quiescent
<1> QED
  BY <1>1, <1>2, <1>3, <1>4, <1>5, <1>6, <1>7, <1>8, <1>9, <1>10, <1>11, <1>12 DEF Next, Step

LEMMA NextKeyRows == IInv /\ [Next]_vars => KeyRows'
<1> SUFFICES ASSUME IInv, [Next]_vars PROVE KeyRows'
  OBVIOUS
<1> USE DEF IInv, TypeOK, Txn, NoTxn, PCs, Answers, At, GoTo, Leave, Tell, Freed, Claims, KeyRows, IdempotencyKeyRow
<1>1. ASSUME NEW h \in Handlers, NEW k \in Keys, NEW q \in Requests, Begin(h, k, q)
      PROVE  KeyRows'
  BY <1>1 DEF Begin
<1>2. ASSUME NEW h \in Handlers, ClaimInsert(h) PROVE KeyRows'
  BY <1>2 DEF ClaimInsert
<1>3. ASSUME NEW h \in Handlers, ClaimConflict(h) PROVE KeyRows'
  BY <1>3 DEF ClaimConflict
<1>4. ASSUME NEW h \in Handlers, ReadStored(h) PROVE KeyRows'
  BY <1>4 DEF ReadStored
<1>5. ASSUME NEW h \in Handlers, Write(h) PROVE KeyRows'
  BY <1>5 DEF Write
<1>6. ASSUME NEW h \in Handlers, Complete(h) PROVE KeyRows'
  BY <1>6 DEF Complete
<1>7. ASSUME NEW h \in Handlers, Commit(h) PROVE KeyRows'
  BY <1>7, CommitKeyRows, Zenon
<1>8. ASSUME NEW h \in Handlers, Respond(h) PROVE KeyRows'
  BY <1>8 DEF Respond
<1>9. ASSUME NEW h \in Handlers, Abort(h) PROVE KeyRows'
  BY <1>9 DEF Abort
<1>10. CASE Crash
  BY <1>10 DEF Crash
<1>11. CASE Tick
  BY <1>11 DEF Tick
<1>12. CASE UNCHANGED vars \/ Quiescent
  BY <1>12 DEF vars, Quiescent
<1> QED
  BY <1>1, <1>2, <1>3, <1>4, <1>5, <1>6, <1>7, <1>8, <1>9, <1>10, <1>11, <1>12 DEF Next, Step

LEMMA NextKeyMatchesWrite == IInv /\ [Next]_vars => KeyMatchesWrite'
<1> SUFFICES ASSUME IInv, [Next]_vars PROVE KeyMatchesWrite'
  OBVIOUS
<1> USE DEF IInv, TypeOK, Txn, NoTxn, PCs, Answers, At, GoTo, Leave, Tell, Freed, Claims, KeyMatchesWrite, KeyRows
<1>1. ASSUME NEW h \in Handlers, NEW k \in Keys, NEW q \in Requests, Begin(h, k, q)
      PROVE  KeyMatchesWrite'
  BY <1>1 DEF Begin
<1>2. ASSUME NEW h \in Handlers, ClaimInsert(h) PROVE KeyMatchesWrite'
  BY <1>2 DEF ClaimInsert
<1>3. ASSUME NEW h \in Handlers, ClaimConflict(h) PROVE KeyMatchesWrite'
  BY <1>3 DEF ClaimConflict
<1>4. ASSUME NEW h \in Handlers, ReadStored(h) PROVE KeyMatchesWrite'
  BY <1>4 DEF ReadStored
<1>5. ASSUME NEW h \in Handlers, Write(h) PROVE KeyMatchesWrite'
  BY <1>5 DEF Write
<1>6. ASSUME NEW h \in Handlers, Complete(h) PROVE KeyMatchesWrite'
  BY <1>6 DEF Complete
<1>7. ASSUME NEW h \in Handlers, Commit(h) PROVE KeyMatchesWrite'
  BY <1>7, CommitKeyMatchesWrite, Zenon
<1>8. ASSUME NEW h \in Handlers, Respond(h) PROVE KeyMatchesWrite'
  BY <1>8 DEF Respond
<1>9. ASSUME NEW h \in Handlers, Abort(h) PROVE KeyMatchesWrite'
  BY <1>9 DEF Abort
<1>10. CASE Crash
  BY <1>10 DEF Crash
<1>11. CASE Tick
  BY <1>11 DEF Tick
<1>12. CASE UNCHANGED vars \/ Quiescent
  BY <1>12 DEF vars, Quiescent
<1> QED
  BY <1>1, <1>2, <1>3, <1>4, <1>5, <1>6, <1>7, <1>8, <1>9, <1>10, <1>11, <1>12 DEF Next, Step

LEMMA NextAnswersAreReal == IInv /\ [Next]_vars => AnswersAreReal'
<1> SUFFICES ASSUME IInv, [Next]_vars PROVE AnswersAreReal'
  OBVIOUS
<1> USE DEF IInv, TypeOK, Txn, NoTxn, PCs, Answers, At, GoTo, Leave, Tell, Freed, Claims, AnswersAreReal, KeyMatchesWrite, KeyRows
<1>1. ASSUME NEW h \in Handlers, NEW k \in Keys, NEW q \in Requests, Begin(h, k, q)
      PROVE  AnswersAreReal'
  BY <1>1 DEF Begin
<1>2. ASSUME NEW h \in Handlers, ClaimInsert(h) PROVE AnswersAreReal'
  BY <1>2 DEF ClaimInsert
<1>3. ASSUME NEW h \in Handlers, ClaimConflict(h) PROVE AnswersAreReal'
  BY <1>3 DEF ClaimConflict
<1>4. ASSUME NEW h \in Handlers, ReadStored(h) PROVE AnswersAreReal'
  BY <1>4 DEF ReadStored
<1>5. ASSUME NEW h \in Handlers, Write(h) PROVE AnswersAreReal'
  BY <1>5 DEF Write
<1>6. ASSUME NEW h \in Handlers, Complete(h) PROVE AnswersAreReal'
  BY <1>6 DEF Complete
<1>7. ASSUME NEW h \in Handlers, Commit(h) PROVE AnswersAreReal'
  BY <1>7 DEF Commit
<1>8. ASSUME NEW h \in Handlers, Respond(h) PROVE AnswersAreReal'
  BY <1>8 DEF Respond
<1>9. ASSUME NEW h \in Handlers, Abort(h) PROVE AnswersAreReal'
  BY <1>9 DEF Abort
<1>10. CASE Crash
  BY <1>10 DEF Crash
<1>11. CASE Tick
  BY <1>11 DEF Tick
<1>12. CASE UNCHANGED vars \/ Quiescent
  BY <1>12 DEF vars, Quiescent
<1> QED
  BY <1>1, <1>2, <1>3, <1>4, <1>5, <1>6, <1>7, <1>8, <1>9, <1>10, <1>11, <1>12 DEF Next, Step

LEMMA NextInv == IInv /\ [Next]_vars => IInv'
BY NextTypeOK, NextClaims, NextKeyRows, NextKeyMatchesWrite, NextAnswersAreReal DEF IInv

LEMMA SpecInv == Spec => []IInv
BY InitInv, NextInv, PTL DEF Spec

\* Types: every variable keeps its type whatever the interleaving of handlers,
\* rollbacks and crashes.
THEOREM TypeCorrect == Spec => []TypeOK
<1>1. IInv => TypeOK
  BY DEF IInv
<1> QED
  BY SpecInv, <1>1, PTL

\* Any number of concurrent or repeated requests with one key commit one write
\* at most (IdempotencyService.run_once).
THEOREM WritesAtMostOnce == Spec => []AtMostOnce
<1>1. IInv => AtMostOnce
  <2> SUFFICES ASSUME IInv, NEW r1 \in rows, NEW r2 \in rows, r1.key = r2.key PROVE r1 = r2
    BY DEF AtMostOnce
  <2>1. /\ [request |-> r1.request, response |-> r1.id] \in keyRow[r1.key]
        /\ [request |-> r2.request, response |-> r2.id] \in keyRow[r1.key]
        /\ r1 \in CreatedRow /\ r2 \in CreatedRow
    BY DEF IInv, KeyMatchesWrite, TypeOK
  <2>2. [request |-> r1.request, response |-> r1.id] = [request |-> r2.request, response |-> r2.id]
    BY <2>1 DEF IInv, KeyRows, CreatedRow
  <2> QED
    BY <2>1, <2>2 DEF CreatedRow
<1> QED
  BY SpecInv, <1>1, PTL

\* The key, the created row and the stored answer are committed together, so a
\* rolled-back or crashed attempt leaves none of them.
THEOREM KeyAndWriteAgree == Spec => []KeyMatchesWrite
<1>1. IInv => KeyMatchesWrite
  BY DEF IInv
<1> QED
  BY SpecInv, <1>1, PTL

\* No caller is ever told of a write that is not in the database under its key.
THEOREM OnlyRealAnswers == Spec => []AnswersAreReal
<1>1. IInv => AnswersAreReal
  BY DEF IInv
<1> QED
  BY SpecInv, <1>1, PTL

----------------------------------------------------------------------------
(* Refinement *)

Decided == [k \in Keys |-> {[request |-> s.request, answer |-> s.response] : s \in keyRow[k]}]
Answered == {[key |-> r.key, request |-> r.request, answer |-> r.answer] :
               r \in {r \in replies : r.kind = "ok"}}

\* Steps that leave the committed keys alone and tell nobody of a success.
LEMMA Silent ==
  ASSUME UNCHANGED keyRow,
         {r \in replies' : r.kind = "ok"} = {r \in replies : r.kind = "ok"}
  PROVE  Decided' = Decided /\ Answered' = Answered
BY DEF Decided, Answered

\* Telling a success adds exactly that success to what callers were told.
LEMMA TellAdds ==
  ASSUME NEW k, NEW q, NEW a, UNCHANGED keyRow, Tell(k, q, "ok", a)
  PROVE  /\ Decided' = Decided
         /\ Answered' = Answered \cup {[key |-> k, request |-> q, answer |-> a]}
<1> DEFINE x == [key |-> k, request |-> q, kind |-> "ok", answer |-> a]
           Ok == {r \in replies : r.kind = "ok"}
<1>1. {r \in replies' : r.kind = "ok"} = Ok \cup {x}
  BY DEF Tell
<1>2. Answered' = {[key |-> r.key, request |-> r.request, answer |-> r.answer] : r \in Ok \cup {x}}
  BY <1>1 DEF Answered
<1>3. x.key = k /\ x.request = q /\ x.answer = a
  OBVIOUS
<1>4. Answered = {[key |-> r.key, request |-> r.request, answer |-> r.answer] : r \in Ok}
  BY DEF Answered
<1> HIDE DEF x, Ok
<1>5. Answered' = Answered \cup {[key |-> k, request |-> q, answer |-> a]}
  BY <1>2, <1>3, <1>4
<1> QED
  BY <1>5 DEF Decided

LEMMA TellSilent ==
  ASSUME NEW k, NEW q, NEW a, NEW kind, kind # "ok", Tell(k, q, kind, a)
  PROVE  {r \in replies' : r.kind = "ok"} = {r \in replies : r.kind = "ok"}
BY DEF Tell

\* Telling the answer of a committed key is the abstract Answer step.
LEMMA AnswerRefines ==
  ASSUME TypeOK, NEW k \in Keys, NEW s \in keyRow[k],
         UNCHANGED keyRow, Tell(k, s.request, "ok", s.response)
  PROVE  Promise!Answer(k)
<1>1. [request |-> s.request, answer |-> s.response] \in Decided[k]
  BY DEF Decided
<1>2. /\ Decided' = Decided
      /\ Answered' = Answered \cup {[key |-> k, request |-> s.request, answer |-> s.response]}
  BY TellAdds
<1> QED
  BY <1>1, <1>2 DEF Promise!Answer, Decided, Answered

LEMMA CommitRefines ==
  ASSUME IInv, NEW h \in Handlers, Commit(h)
  PROVE  \E k \in Keys : Promise!Decide(k)
<1> DEFINE k == txn[h].key
           d == [request |-> txn[h].request, answer |-> txn[h].answer]
<1>1. k \in Keys
  BY CommitStores DEF Txn
<1>2. Decided[k] = {}
  BY CommitStores, <1>1 DEF Decided
<1>3. Decided' = [Decided EXCEPT ![k] = {d}]
  <2> DEFINE s == [request |-> txn[h].request, response |-> txn[h].answer]
  <2>1. keyRow' = [keyRow EXCEPT ![k] = {s}] /\ keyRow \in [Keys -> SUBSET IdempotencyKeyRow]
    BY CommitStores DEF IInv, TypeOK
  <2>2. ASSUME NEW j \in Keys PROVE Decided'[j] = [Decided EXCEPT ![k] = {d}][j]
    <3>1. CASE j = k
      <4>1. keyRow'[j] = {s}
        BY <2>1, <3>1
      <4>2. Decided'[j] = {[request |-> r.request, answer |-> r.response] : r \in {s}}
        BY <4>1 DEF Decided
      <4>3. [Decided EXCEPT ![k] = {d}][j] = {d}
        BY <3>1, <1>1 DEF Decided
      <4> QED
        BY <4>2, <4>3
    <3>2. CASE j # k
      <4>1. keyRow'[j] = keyRow[j]
        BY <2>1, <3>2, <1>1
      <4>2. [Decided EXCEPT ![k] = {d}][j] = Decided[j]
        BY <3>2, <1>1 DEF Decided
      <4> QED
        BY <4>1, <4>2 DEF Decided
    <3> QED
      BY <3>1, <3>2
  <2>3. Decided' = [j \in Keys |-> Decided'[j]]
    BY DEF Decided
  <2>4. [Decided EXCEPT ![k] = {d}] = [j \in Keys |-> [Decided EXCEPT ![k] = {d}][j]]
    BY DEF Decided
  <2> QED
    BY <2>2, <2>3, <2>4, Zenon
<1>4. d \in Decided'[k]
  BY <1>1, <1>3 DEF Decided
<1>5. Answered' = Answered
  BY CommitStores DEF Answered
<1> QED
  BY <1>1, <1>2, <1>3, <1>4, <1>5 DEF Promise!Decide, Decided, Answered

LEMMA InitRefines == Init => Promise!Init
BY DEF Init, Promise!Init

LEMMA StepRefines == IInv /\ [Next]_vars => [Promise!Next]_(Promise!vars)
<1> SUFFICES ASSUME IInv, [Next]_vars
    PROVE  Promise!Next \/ (Decided' = Decided /\ Answered' = Answered)
  BY DEF Promise!vars, Decided, Answered
<1> DEFINE Stutter == Decided' = Decided /\ Answered' = Answered
<1>1. ASSUME NEW h \in Handlers, NEW k \in Keys, NEW q \in Requests, Begin(h, k, q)
      PROVE  Stutter
  <2>1. CASE UNCHANGED replies
    BY <1>1, <2>1, Silent DEF Begin
  <2>2. CASE Tell(k, q, "refused", Null)
    BY <1>1, <2>2, Silent, TellSilent DEF Begin
  <2> QED
    BY <1>1, <2>1, <2>2 DEF Begin
<1>2. ASSUME NEW h \in Handlers,
             \/ ClaimInsert(h) \/ ClaimConflict(h) \/ Write(h) \/ Complete(h) \/ Abort(h)
      PROVE  Stutter
  BY <1>2, Silent DEF ClaimInsert, ClaimConflict, Write, Complete, Abort
<1>3. ASSUME NEW h \in Handlers, ReadStored(h) PROVE Promise!Next \/ Stutter
  <2>1. txn[h] \in Txn /\ txn[h].key \in Keys
    BY <1>3 DEF ReadStored, At, IInv, TypeOK, NoTxn, Txn
  <2>2. PICK s \in keyRow[txn[h].key] :
          \/ Tell(txn[h].key, txn[h].request, "reused", Null)
          \/ Tell(txn[h].key, s.request, "ok", s.response)
          \/ UNCHANGED replies
    BY <1>3 DEF ReadStored
  <2>3. UNCHANGED keyRow
    BY <1>3 DEF ReadStored
  <2>4. CASE Tell(txn[h].key, txn[h].request, "reused", Null)
    BY <2>3, <2>4, Silent, TellSilent
  <2>5. CASE Tell(txn[h].key, s.request, "ok", s.response)
    BY <2>1, <2>3, <2>5, AnswerRefines DEF IInv, Promise!Next
  <2>6. CASE UNCHANGED replies
    BY <2>3, <2>6, Silent
  <2> QED
    BY <2>2, <2>4, <2>5, <2>6
<1>4. ASSUME NEW h \in Handlers, Commit(h) PROVE Promise!Next
  BY <1>4, CommitRefines DEF Promise!Next
<1>5. ASSUME NEW h \in Handlers, Respond(h) PROVE Promise!Next
  <2> DEFINE s == [request |-> txn[h].request, response |-> txn[h].answer]
  <2>1. txn[h].pc = "committed" /\ txn[h] \in Txn
    BY <1>5 DEF Respond, At, IInv, TypeOK, NoTxn
  <2>2. [id |-> txn[h].answer, key |-> txn[h].key, request |-> txn[h].request] \in rows
    BY <2>1, Zenon DEF IInv, Claims
  <2>3. s \in keyRow[txn[h].key] /\ txn[h].key \in Keys
    BY <2>1, <2>2 DEF IInv, KeyMatchesWrite, Txn
  <2>4. UNCHANGED keyRow /\ Tell(txn[h].key, s.request, "ok", s.response)
    BY <1>5 DEF Respond
  <2> HIDE DEF s
  <2> QED
    BY <2>3, <2>4, AnswerRefines DEF IInv, Promise!Next
<1>6. CASE Crash \/ Tick \/ UNCHANGED vars \/ Quiescent
  BY <1>6, Silent DEF Crash, Tick, vars, Quiescent
<1> QED
  BY <1>1, <1>2, <1>3, <1>4, <1>5, <1>6 DEF Next, Step

\* run_once inside the caller's transaction implements the promise of an
\* idempotency key: one decision per key, every success told from it.
THEOREM ImplementsPromise == Spec => KeepsPromise
BY InitRefines, InitInv, NextInv, StepRefines, PTL DEF Spec, KeepsPromise, Promise!Spec
=============================================================================
