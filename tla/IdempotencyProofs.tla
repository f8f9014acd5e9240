------------------------- MODULE IdempotencyProofs -------------------------
(***************************************************************************)
(* Proofs about Idempotency for any number of calls, deliveries, keys and  *)
(* crashes.  The argument: the advisory lock keeps the transactions of one *)
(* identity apart (LockExcludes), so what a handler's SELECT found is      *)
(* still true when it acts on it (ReadStaysCurrent), so a commit never     *)
(* adds a second write under an identity (AtMostOnce).                     *)
(***************************************************************************)
EXTENDS Idempotency, TLAPS

Inv ==
    /\ TypeOK
    /\ EffectIffRecord
    /\ LockExcludes
    /\ ReadStaysCurrent
    /\ AtMostOnce

(* The field access a stored row is used for.                              *)
LEMMA RowFields ==
    ASSUME NEW a \in Deliveries
    PROVE  /\ RowOf(a) \in Rows
           /\ RowOf(a).response = a
           /\ RowOf(a).ident = Ident(a)
BY DEF RowOf, Rows

LEMMA RowsHaveResponse ==
    ASSUME NEW r \in Rows
    PROVE  r.response \in Deliveries /\ r = RowOf(r.response)
BY DEF RowOf, Rows

(* Type correctness: the handlers keep every variable in its type.         *)
LEMMA TypeInit == Init => TypeOK
BY BoundsAssumption DEF Init, TypeOK, Phases, Outcomes, Rows

LEMMA TypeStep == TypeOK /\ [Next]_vars => TypeOK'
<1> SUFFICES ASSUME TypeOK, [Next]_vars PROVE TypeOK'
  OBVIOUS
<1> USE DEF TypeOK
<1>1. ASSUME NEW a \in Deliveries, Send(a) PROVE TypeOK'
  BY <1>1 DEF Send, Move, Phases
<1>2. ASSUME NEW a \in Deliveries, AcquireLock(a) PROVE TypeOK'
  BY <1>2 DEF AcquireLock, Move, Phases
<1>3. ASSUME NEW a \in Deliveries, SelectExisting(a) PROVE TypeOK'
  BY <1>3 DEF SelectExisting, Move, Phases
<1>4. ASSUME NEW a \in Deliveries, RefuseReuse(a) PROVE TypeOK'
  BY <1>4 DEF RefuseReuse, Finish, Move, Phases, Outcomes
<1>5. ASSUME NEW a \in Deliveries, Replay(a) PROVE TypeOK'
  <2>1. PICK r \in existing[a] : Finish(a, "selected", "replayed", {r.response})
    BY <1>5 DEF Replay
  <2>2. r.response \in Deliveries
    BY RowsHaveResponse
  <2> QED
    BY <1>5, <2>1, <2>2 DEF Replay, Finish, Move, Phases, Outcomes
<1>6. ASSUME NEW a \in Deliveries, PerformAction(a) PROVE TypeOK'
  BY <1>6 DEF PerformAction, Move, Phases
<1>7. ASSUME NEW a \in Deliveries, ActionRaises(a) PROVE TypeOK'
  BY <1>7 DEF ActionRaises, Finish, Move, Phases, Outcomes
<1>8. ASSUME NEW a \in Deliveries, FlushRecord(a) PROVE TypeOK'
  BY <1>8 DEF FlushRecord, Move, Phases
<1>9. ASSUME NEW a \in Deliveries, FlushFails(a) PROVE TypeOK'
  BY <1>9 DEF FlushFails, Finish, Move, Phases, Outcomes
<1>10. ASSUME NEW a \in Deliveries, Commit(a) PROVE TypeOK'
  BY <1>10, RowFields DEF Commit, Finish, Move, Phases, Outcomes
<1>11. ASSUME NEW a \in Deliveries, Deliver(a) PROVE TypeOK'
  BY <1>11 DEF Deliver, Move, Phases
<1>12. ASSUME NEW a \in Deliveries, LoseAnswer(a) PROVE TypeOK'
  BY <1>12 DEF LoseAnswer, Move, Phases
<1>13. ASSUME Crash PROVE TypeOK'
  BY <1>13, BoundsAssumption DEF Crash, Phases
<1>14. CASE UNCHANGED vars
  BY <1>14 DEF vars
<1> QED
  BY <1>1, <1>2, <1>3, <1>4, <1>5, <1>6, <1>7, <1>8, <1>9, <1>10, <1>11,
     <1>12, <1>13, <1>14 DEF Next, Handle

(* Every variable always has its type, for every set of calls.             *)
THEOREM TypeCorrect == Spec => []TypeOK
<1>1. Init => TypeOK
  BY TypeInit
<1>2. TypeOK /\ [Next]_vars => TypeOK'
  BY TypeStep
<1> QED
  BY <1>1, <1>2, PTL DEF Spec

-----------------------------------------------------------------------------

(* A step that leaves the committed state and the lock holders' reads      *)
(* alone, and lets nobody into the lock, keeps the invariant.              *)
LEMMA QuietStep ==
    ASSUME Inv, TypeOK', NEW a \in Deliveries,
           UNCHANGED <<rows, applied>>,
           existing' = [existing EXCEPT ![a] = {}],
           NEW p \in {"waiting", "answering", "done", "lost"},
           pc' = [pc EXCEPT ![a] = p]
    PROVE  Inv'
<1> USE DEF Inv, TypeOK
<1>1. EffectIffRecord'
  BY DEF EffectIffRecord
<1>2. LockExcludes'
  BY DEF LockExcludes, LockHeld
<1>3. ReadStaysCurrent'
  BY DEF ReadStaysCurrent
<1>4. AtMostOnce'
  BY DEF AtMostOnce
<1> QED
  BY <1>1, <1>2, <1>3, <1>4

LEMMA InvStep == Inv /\ [Next]_vars => Inv'
<1> SUFFICES ASSUME Inv, [Next]_vars PROVE Inv'
  OBVIOUS
<1>0. TypeOK'
  BY TypeStep DEF Inv
<1> USE DEF Inv, TypeOK
<1>1. ASSUME NEW a \in Deliveries, Send(a) PROVE Inv'
  <2>1. existing' = [existing EXCEPT ![a] = {}]
    BY <1>1 DEF Send, Move, ReadStaysCurrent
  <2> QED
    BY <1>0, <1>1, <2>1, QuietStep DEF Send, Move
<1>2. ASSUME NEW a \in Deliveries, AcquireLock(a) PROVE Inv'
  <2>1. LockExcludes'
    BY <1>2 DEF AcquireLock, Move, LockExcludes, LockHeld
  <2>2. ReadStaysCurrent'
    BY <1>2 DEF AcquireLock, Move, ReadStaysCurrent
  <2> QED
    BY <1>0, <1>2, <2>1, <2>2 DEF AcquireLock, EffectIffRecord, AtMostOnce
<1>3. ASSUME NEW a \in Deliveries, SelectExisting(a) PROVE Inv'
  <2>1. LockExcludes'
    BY <1>3 DEF SelectExisting, Move, LockExcludes, LockHeld
  <2>2. ReadStaysCurrent'
    BY <1>3 DEF SelectExisting, Move, ReadStaysCurrent
  <2> QED
    BY <1>0, <1>3, <2>1, <2>2 DEF SelectExisting, EffectIffRecord, AtMostOnce
<1>4. ASSUME NEW a \in Deliveries, RefuseReuse(a) PROVE Inv'
  BY <1>0, <1>4, QuietStep DEF RefuseReuse, Finish, Move
<1>5. ASSUME NEW a \in Deliveries, Replay(a) PROVE Inv'
  BY <1>0, <1>5, QuietStep DEF Replay, Finish, Move
<1>6. ASSUME NEW a \in Deliveries, PerformAction(a) PROVE Inv'
  <2>1. LockExcludes'
    BY <1>6 DEF PerformAction, Move, LockExcludes, LockHeld
  <2>2. ReadStaysCurrent'
    BY <1>6 DEF PerformAction, Move, ReadStaysCurrent
  <2> QED
    BY <1>0, <1>6, <2>1, <2>2 DEF PerformAction, EffectIffRecord, AtMostOnce
<1>7. ASSUME NEW a \in Deliveries, ActionRaises(a) PROVE Inv'
  BY <1>0, <1>7, QuietStep DEF ActionRaises, Finish, Move
<1>8. ASSUME NEW a \in Deliveries, FlushRecord(a) PROVE Inv'
  <2>1. LockExcludes'
    BY <1>8 DEF FlushRecord, Move, LockExcludes, LockHeld
  <2>2. ReadStaysCurrent'
    BY <1>8 DEF FlushRecord, Move, ReadStaysCurrent
  <2> QED
    BY <1>0, <1>8, <2>1, <2>2 DEF FlushRecord, EffectIffRecord, AtMostOnce
<1>9. ASSUME NEW a \in Deliveries, FlushFails(a) PROVE Inv'
  BY <1>0, <1>9, QuietStep DEF FlushFails, Finish, Move
<1>10. ASSUME NEW a \in Deliveries, Commit(a) PROVE Inv'
  <2>1. /\ pc[a] = "flushed"
        /\ pc' = [pc EXCEPT ![a] = "answering"]
        /\ existing' = [existing EXCEPT ![a] = {}]
        /\ rows' = rows \union {RowOf(a)}
        /\ applied' = applied \union {a}
    BY <1>10 DEF Commit, Finish, Move
  <2>2. EffectIffRecord'
    BY <2>1, RowFields DEF EffectIffRecord
  <2>3. LockExcludes'
    BY <2>1 DEF LockExcludes, LockHeld
  <2>4. ASSUME NEW b \in Deliveries, b # a, pc[b] \in LockHeld
        PROVE  RowOf(a).ident # Ident(b)
    BY <2>1, <2>4, RowFields DEF LockExcludes, LockHeld
  <2>5. ReadStaysCurrent'
    BY <2>1, <2>4 DEF ReadStaysCurrent, LockHeld
  <2>6. \A x \in applied : Ident(x) # Ident(a)
    BY <2>1, RowFields DEF EffectIffRecord, ReadStaysCurrent
  <2>7. AtMostOnce'
    BY <2>1, <2>6 DEF AtMostOnce
  <2> QED
    BY <1>0, <2>2, <2>3, <2>5, <2>7
<1>11. ASSUME NEW a \in Deliveries, Deliver(a) PROVE Inv'
  <2>1. existing' = [existing EXCEPT ![a] = {}]
    BY <1>11 DEF Deliver, Move, ReadStaysCurrent
  <2> QED
    BY <1>0, <1>11, <2>1, QuietStep DEF Deliver, Move
<1>12. ASSUME NEW a \in Deliveries, LoseAnswer(a) PROVE Inv'
  <2>1. existing' = [existing EXCEPT ![a] = {}]
    BY <1>12 DEF LoseAnswer, Move, ReadStaysCurrent
  <2> QED
    BY <1>0, <1>12, <2>1, QuietStep DEF LoseAnswer, Move
<1>13. ASSUME Crash PROVE Inv'
  <2>1. \A b \in Deliveries : pc'[b] \notin LockHeld /\ pc'[b] # "selected"
    BY <1>13 DEF Crash, InFlight, LockHeld
  <2>2. LockExcludes' /\ ReadStaysCurrent'
    BY <1>13, <2>1 DEF Crash, LockExcludes, ReadStaysCurrent, LockHeld
  <2> QED
    BY <1>0, <1>13, <2>2 DEF Crash, EffectIffRecord, AtMostOnce
<1>14. CASE UNCHANGED vars
  BY <1>14 DEF vars, EffectIffRecord, LockExcludes, ReadStaysCurrent, AtMostOnce
<1> QED
  BY <1>1, <1>2, <1>3, <1>4, <1>5, <1>6, <1>7, <1>8, <1>9, <1>10, <1>11,
     <1>12, <1>13, <1>14 DEF Next, Handle

(* Inv holds in every reachable state.                                     *)
THEOREM InvHolds == Spec => []Inv
<1>1. Init => Inv
  <2> SUFFICES ASSUME Init PROVE Inv
    OBVIOUS
  <2>1. TypeOK
    BY TypeInit
  <2> QED
    BY <2>1 DEF Init, Inv, EffectIffRecord, LockExcludes, LockHeld,
                ReadStaysCurrent, AtMostOnce
<1>2. Inv /\ [Next]_vars => Inv'
  BY InvStep
<1> QED
  BY <1>1, <1>2, PTL DEF Spec

(* No identity ever has two committed writes, whatever is retried, crashes *)
(* or runs at the same time.                                               *)
THEOREM AtMostOnceHolds == Spec => []AtMostOnce
<1>1. Inv => AtMostOnce
  BY DEF Inv
<1> QED
  BY <1>1, InvHolds, PTL

(* Domain writes and the rows that make their retries replay are committed *)
(* together.                                                               *)
THEOREM EffectIffRecordHolds == Spec => []EffectIffRecord
<1>1. Inv => EffectIffRecord
  BY DEF Inv
<1> QED
  BY <1>1, InvHolds, PTL

(* A handler never decides on a stale lookup of its key.                   *)
THEOREM ReadStaysCurrentHolds == Spec => []ReadStaysCurrent
<1>1. Inv => ReadStaysCurrent
  BY DEF Inv
<1> QED
  BY <1>1, InvHolds, PTL

-----------------------------------------------------------------------------

(* A row a handler found is the committed row of a committed write under   *)
(* its own identity.                                                       *)
LEMMA FoundRow ==
    ASSUME Inv, NEW a \in Deliveries, pc[a] = "selected", NEW r \in existing[a]
    PROVE  /\ r.response \in applied
           /\ r = RowOf(r.response)
           /\ Ident(r.response) = Ident(a)
<1>1. r \in rows /\ r.ident = Ident(a)
  BY DEF Inv, TypeOK, ReadStaysCurrent
<1>2. r.response \in applied /\ r = RowOf(r.response)
  BY <1>1 DEF Inv, EffectIffRecord
<1>3. RowOf(r.response).ident = Ident(r.response)
  BY <1>2, RowFields DEF Inv, TypeOK
<1> QED
  BY <1>1, <1>2, <1>3

(* An identity has at most one committed row.                              *)
LEMMA OneRow ==
    ASSUME Inv, NEW r \in rows, NEW s \in rows, r.ident = s.ident
    PROVE  r = s
<1>1. /\ r.response \in applied /\ r = RowOf(r.response)
      /\ s.response \in applied /\ s = RowOf(s.response)
  BY DEF Inv, EffectIffRecord
<1>2. Ident(r.response) = Ident(s.response)
  BY <1>1, RowFields DEF Inv, TypeOK
<1>3. r.response = s.response
  BY <1>1, <1>2 DEF Inv, AtMostOnce
<1> QED
  BY <1>1, <1>3

(* What the answers handlers produced refer to.                            *)
AnswersInv ==
    /\ SuccessIsCommitted
    /\ FailsOnlyOnBlankKey
    /\ \A a \in Deliveries :
          answer[a] # {} => outcome[a] \in {"created", "replayed"}

LEMMA AnswersStep == Inv /\ AnswersInv /\ [Next]_vars => AnswersInv'
<1> SUFFICES ASSUME Inv, AnswersInv, [Next]_vars PROVE AnswersInv'
  OBVIOUS
<1> USE DEF AnswersInv
<1>1. CASE UNCHANGED <<outcome, answer, applied>>
  BY <1>1 DEF SuccessIsCommitted, FailsOnlyOnBlankKey
<1>2. ASSUME NEW a \in Deliveries, NEW q, NEW kind \in {"conflict", "refused", "failed"},
             Finish(a, q, kind, {}), UNCHANGED applied,
             kind = "failed" => Strip[Request[a[1]].key] = BlankKey
      PROVE  AnswersInv'
  BY <1>2 DEF Inv, TypeOK, Finish, SuccessIsCommitted, FailsOnlyOnBlankKey
<1>3. ASSUME NEW a \in Deliveries, Replay(a) PROVE AnswersInv'
  <2>1. PICK r \in existing[a] :
           Matches(r, a) /\ Finish(a, "selected", "replayed", {r.response})
    BY <1>3 DEF Replay
  <2>2. /\ r.response \in applied /\ r = RowOf(r.response)
        /\ Ident(r.response) = Ident(a)
    BY <2>1, FoundRow DEF Finish, Move
  <2>5. SameRequest(r.response[1], a[1])
    BY <2>1, <2>2 DEF Matches, RowOf, SameRequest
  <2>3. /\ outcome' = [outcome EXCEPT ![a] = "replayed"]
        /\ answer' = [answer EXCEPT ![a] = {r.response}]
        /\ applied' = applied
    BY <1>3, <2>1 DEF Replay, Finish
  <2>4. SuccessIsCommitted'
    <3> SUFFICES ASSUME NEW b \in Deliveries,
                        outcome'[b] \in {"created", "replayed"}
                 PROVE  \E w \in applied' : /\ answer'[b] = {w}
                                           /\ Ident(w) = Ident(b)
                                           /\ SameRequest(w[1], b[1])
      BY DEF SuccessIsCommitted
    <3>1. CASE b = a
      BY <2>2, <2>3, <2>5, <3>1 DEF Inv, TypeOK
    <3>2. CASE b # a
      BY <2>3, <3>2 DEF Inv, TypeOK, SuccessIsCommitted
    <3> QED
      BY <3>1, <3>2
  <2> QED
    BY <2>3, <2>4 DEF Inv, TypeOK, FailsOnlyOnBlankKey
<1>4. ASSUME NEW a \in Deliveries, Commit(a) PROVE AnswersInv'
  <2>1. /\ outcome' = [outcome EXCEPT ![a] = "created"]
        /\ answer' = [answer EXCEPT ![a] = {a}]
        /\ applied' = applied \union {a}
    BY <1>4 DEF Commit, Finish
  <2>2. SameRequest(a[1], a[1])
    BY DEF SameRequest
  <2>3. SuccessIsCommitted'
    <3> SUFFICES ASSUME NEW b \in Deliveries,
                        outcome'[b] \in {"created", "replayed"}
                 PROVE  \E w \in applied' : /\ answer'[b] = {w}
                                           /\ Ident(w) = Ident(b)
                                           /\ SameRequest(w[1], b[1])
      BY DEF SuccessIsCommitted
    <3>1. CASE b = a
      BY <2>1, <2>2, <3>1 DEF Inv, TypeOK
    <3>2. CASE b # a
      BY <2>1, <3>2 DEF Inv, TypeOK, SuccessIsCommitted
    <3> QED
      BY <3>1, <3>2
  <2> QED
    BY <2>1, <2>3 DEF Inv, TypeOK, FailsOnlyOnBlankKey
<1>5. ASSUME NEW a \in Deliveries, RefuseReuse(a) PROVE AnswersInv'
  BY <1>2, <1>5 DEF RefuseReuse
<1>6. ASSUME NEW a \in Deliveries, ActionRaises(a) PROVE AnswersInv'
  BY <1>2, <1>6 DEF ActionRaises
<1>7. ASSUME NEW a \in Deliveries, FlushFails(a) PROVE AnswersInv'
  <2>1. Strip[Request[a[1]].key] = BlankKey
    BY <1>7 DEF FlushFails, Finish, Move, Insertable, Inv, ReadStaysCurrent
  <2> QED
    BY <1>2, <1>7, <2>1 DEF FlushFails
<1>8. ASSUME NEW a \in Deliveries,
             \/ Send(a) \/ AcquireLock(a) \/ SelectExisting(a) \/ PerformAction(a)
             \/ FlushRecord(a) \/ Deliver(a) \/ LoseAnswer(a)
      PROVE  AnswersInv'
  BY <1>1, <1>8 DEF Send, AcquireLock, SelectExisting, PerformAction, FlushRecord,
                    Deliver, LoseAnswer
<1>9. ASSUME Crash PROVE AnswersInv'
  BY <1>1, <1>9 DEF Crash
<1>10. CASE UNCHANGED vars
  BY <1>1, <1>10 DEF vars
<1> QED
  BY <1>3, <1>4, <1>5, <1>6, <1>7, <1>8, <1>9, <1>10 DEF Next, Handle

LEMMA AnswersInvHolds == Spec => []AnswersInv
<1>1. Init => AnswersInv
  BY DEF Init, AnswersInv, SuccessIsCommitted, FailsOnlyOnBlankKey
<1>2. Inv /\ AnswersInv /\ [Next]_vars => AnswersInv'
  BY AnswersStep
<1> QED
  BY <1>1, <1>2, InvHolds, PTL DEF Spec

(* Every success a handler answers is that of a committed write asked for  *)
(* by the same request.                                                    *)
THEOREM SuccessIsCommittedHolds == Spec => []SuccessIsCommitted
<1>1. AnswersInv => SuccessIsCommitted
  BY DEF AnswersInv
<1> QED
  BY <1>1, AnswersInvHolds, PTL

(* A 500 from the flush of the record means a blank key, never a race.     *)
THEOREM FailsOnlyOnBlankKeyHolds == Spec => []FailsOnlyOnBlankKey
<1>1. AnswersInv => FailsOnlyOnBlankKey
  BY DEF AnswersInv
<1> QED
  BY <1>1, AnswersInvHolds, PTL

-----------------------------------------------------------------------------

(* What RetryReplays says of one step.                                     *)
ReplayStep ==
    \A a \in Deliveries :
        /\ outcome[a] = "none" /\ outcome'[a] # "none"
        /\ \E r \in rows : r.ident = Ident(a) /\ Matches(r, a)
        => outcome'[a] = "replayed"

(* Once the write of a request is committed, any later answer to that      *)
(* request is the replay.                                                  *)
THEOREM RetryReplaysHolds == Spec => RetryReplays
<1>1. Inv /\ [Next]_vars => ReplayStep
  <2> SUFFICES ASSUME Inv, [Next]_vars, NEW a \in Deliveries,
                      outcome[a] = "none", outcome'[a] # "none",
                      NEW r \in rows, r.ident = Ident(a), Matches(r, a)
               PROVE  outcome'[a] = "replayed"
    BY DEF ReplayStep
  <2>1. PICK b \in Deliveries :
           \/ RefuseReuse(b) \/ Replay(b) \/ ActionRaises(b)
           \/ FlushFails(b) \/ Commit(b)
    BY DEF Next, Handle, vars, Send, AcquireLock, SelectExisting, PerformAction,
           FlushRecord, Deliver, LoseAnswer, Crash
  <2>2. \A q, kind, w : Finish(b, q, kind, w) => b = a /\ pc[a] = q
    BY DEF Finish, Move, Inv, TypeOK
  <2>3. b = a
    BY <2>1, <2>2 DEF RefuseReuse, Replay, ActionRaises, FlushFails, Commit
  <2>4. pc[a] = "selected" => r \in existing[a]
    BY DEF Inv, ReadStaysCurrent
  <2>5. CASE RefuseReuse(a)
    <3>1. pc[a] = "selected"
      BY <2>5 DEF RefuseReuse, Finish, Move
    <3>2. PICK s \in existing[a] : ~Matches(s, a)
      BY <2>5 DEF RefuseReuse
    <3>3. s \in rows /\ s.ident = Ident(a)
      BY <3>1 DEF Inv, ReadStaysCurrent
    <3>4. s = r
      BY <3>3, OneRow
    <3> QED
      BY <3>2, <3>4
  <2>6. CASE Replay(a)
    BY <2>6 DEF Replay, Finish, Inv, TypeOK
  <2>7. CASE ActionRaises(a)
    BY <2>4, <2>7 DEF ActionRaises, Finish, Move
  <2>8. CASE FlushFails(a) \/ Commit(a)
    BY <2>8 DEF FlushFails, Commit, Finish, Move, Inv, ReadStaysCurrent
  <2> QED
    BY <2>1, <2>3, <2>5, <2>6, <2>7, <2>8
<1> QED
  BY <1>1, InvHolds, PTL DEF Spec, RetryReplays, ReplayStep

-----------------------------------------------------------------------------

(* The refinement mapping, named.                                          *)
EffectsOf == [i \in Idents |-> {a \in applied : Ident(a) = i}]

AnswersOf ==
    UNION {{Ident(a)} \X answer[a] : a \in {b \in Deliveries : pc[b] = "done"}}

LEMMA IdentInIdents == ASSUME NEW a \in Deliveries PROVE Ident(a) \in Idents
BY DEF Deliveries, Ident, Idents

(* Steps after which the same deliveries are done, with the same answers,  *)
(* and the same writes are committed, are invisible to the promise.        *)
LEMMA Invisible ==
    ASSUME applied' = applied,
           \A a \in Deliveries : pc[a] = "done" <=> pc'[a] = "done",
           \A a \in Deliveries : pc[a] = "done" => answer'[a] = answer[a]
    PROVE  UNCHANGED <<EffectsOf, AnswersOf>>
<1>1. UNCHANGED EffectsOf
  BY DEF EffectsOf
<1>2. AnswersOf = AnswersOf'
  <2>1. ASSUME NEW e PROVE e \in AnswersOf <=> e \in AnswersOf'
    BY DEF AnswersOf
  <2> QED
    BY <2>1
<1> QED
  BY <1>1, <1>2

LEMMA RefinementStep ==
    Inv /\ AnswersInv /\ [Next]_vars => [Promise!Next]_(Promise!vars)
<1> SUFFICES ASSUME Inv, AnswersInv, [Next]_vars
             PROVE  Promise!Next \/ UNCHANGED <<EffectsOf, AnswersOf>>
  BY DEF Promise!vars, EffectsOf, AnswersOf
<1> USE DEF Inv, TypeOK
<1>1. ASSUME NEW a \in Deliveries, NEW q, NEW kind, NEW w, q # "done",
             Finish(a, q, kind, w), applied' = applied
      PROVE  UNCHANGED <<EffectsOf, AnswersOf>>
  <2>1. \A b \in Deliveries : pc[b] = "done" <=> pc'[b] = "done"
    BY <1>1 DEF Finish, Move
  <2>2. \A b \in Deliveries : pc[b] = "done" => answer'[b] = answer[b]
    BY <1>1 DEF Finish, Move
  <2> QED
    BY <1>1, <2>1, <2>2, Invisible
<1>2. ASSUME NEW a \in Deliveries, Commit(a) PROVE Promise!Next
  <2>1. /\ pc[a] = "flushed"
        /\ pc' = [pc EXCEPT ![a] = "answering"]
        /\ answer' = [answer EXCEPT ![a] = {a}]
        /\ applied' = applied \union {a}
    BY <1>2 DEF Commit, Finish, Move
  <2>2. \A x \in applied : Ident(x) # Ident(a)
    BY <2>1, RowFields DEF EffectIffRecord, ReadStaysCurrent
  <2>3. EffectsOf[Ident(a)] = {}
    BY <2>2, IdentInIdents DEF EffectsOf
  <2>4. EffectsOf' = [EffectsOf EXCEPT ![Ident(a)] = {a}]
    BY <2>1, <2>2, IdentInIdents DEF EffectsOf
  <2>5. AnswersOf' = AnswersOf
    <3>1. ASSUME NEW e PROVE e \in AnswersOf <=> e \in AnswersOf'
      BY <2>1 DEF AnswersOf
    <3> QED
      BY <3>1
  <2>6. Promise!Apply(Ident(a))
    BY <2>3, <2>4, <2>5 DEF Promise!Apply, EffectsOf, AnswersOf
  <2> QED
    BY <2>6, IdentInIdents DEF Promise!Next
<1>3. ASSUME NEW a \in Deliveries, Deliver(a)
      PROVE  Promise!Next \/ UNCHANGED <<EffectsOf, AnswersOf>>
  <2>1. /\ pc[a] = "answering"
        /\ pc' = [pc EXCEPT ![a] = "done"]
        /\ answer' = answer
        /\ applied' = applied
    BY <1>3 DEF Deliver, Move
  <2>2. EffectsOf' = EffectsOf
    BY <2>1 DEF EffectsOf
  <2>3. AnswersOf' = AnswersOf \union ({Ident(a)} \X answer[a])
    <3>1. ASSUME NEW e
          PROVE  e \in AnswersOf' <=> e \in AnswersOf \union ({Ident(a)} \X answer[a])
      BY <2>1 DEF AnswersOf
    <3> QED
      BY <3>1
  <2>4. CASE answer[a] = {}
    BY <2>2, <2>3, <2>4
  <2>5. CASE answer[a] # {}
    <3>1. PICK w \in applied : answer[a] = {w} /\ Ident(w) = Ident(a)
      BY <2>5 DEF AnswersInv, SuccessIsCommitted
    <3>2. w \in EffectsOf[Ident(a)]
      BY <3>1, IdentInIdents DEF EffectsOf
    <3>3. AnswersOf' = AnswersOf \union {<<Ident(a), w>>}
      BY <2>3, <3>1
    <3>4. Promise!Answer(Ident(a))
      BY <2>2, <3>2, <3>3 DEF Promise!Answer, EffectsOf, AnswersOf
    <3> QED
      BY <3>4, IdentInIdents DEF Promise!Next
  <2> QED
    BY <2>4, <2>5
<1>4. ASSUME NEW a \in Deliveries,
             \/ RefuseReuse(a) \/ Replay(a) \/ ActionRaises(a) \/ FlushFails(a)
      PROVE  UNCHANGED <<EffectsOf, AnswersOf>>
  BY <1>1, <1>4 DEF RefuseReuse, Replay, ActionRaises, FlushFails
<1>5. ASSUME NEW a \in Deliveries, NEW p, NEW q, Move(a, p, q), p # "done", q # "done",
             answer' = answer, applied' = applied
      PROVE  UNCHANGED <<EffectsOf, AnswersOf>>
  BY <1>5, Invisible DEF Move
<1>6. ASSUME NEW a \in Deliveries,
             \/ Send(a) \/ AcquireLock(a) \/ SelectExisting(a) \/ PerformAction(a)
             \/ FlushRecord(a) \/ LoseAnswer(a)
      PROVE  UNCHANGED <<EffectsOf, AnswersOf>>
  BY <1>5, <1>6 DEF Send, AcquireLock, SelectExisting, PerformAction, FlushRecord,
                    LoseAnswer
<1>7. ASSUME Crash PROVE UNCHANGED <<EffectsOf, AnswersOf>>
  BY <1>7, Invisible DEF Crash, InFlight, LockHeld
<1>8. CASE UNCHANGED vars
  BY <1>8, Invisible DEF vars
<1> QED
  BY <1>2, <1>3, <1>4, <1>6, <1>7, <1>8 DEF Next, Handle

(* The handlers implement the abstract promise of an idempotency key.      *)
THEOREM ImplementsPromiseHolds == Spec => ImplementsPromise
<1>1. Init => Promise!Init
  BY DEF Init, Promise!Init
<1>2. Inv /\ AnswersInv /\ [Next]_vars => [Promise!Next]_(Promise!vars)
  BY RefinementStep
<1> QED
  BY <1>1, <1>2, InvHolds, AnswersInvHolds, PTL
  DEF Spec, ImplementsPromise, Promise!Spec
=============================================================================
