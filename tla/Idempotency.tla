---------------------------- MODULE Idempotency ----------------------------
(***************************************************************************)
(* The idempotent write of the Application API (idempotency.py), as        *)
(* concurrent server threads run it against PostgreSQL at READ COMMITTED.  *)
(*                                                                         *)
(* A call is one request a client wants performed; a delivery is one       *)
(* arrival of it at the server, <<call, n>> for the n-th attempt.  Each    *)
(* delivery runs in a thread and a transaction of its own, so the          *)
(* deliveries are the processes.  Steps interleave at the statements sent  *)
(* to the database.  What a transaction has written and not committed is   *)
(* a function of its phase: after PerformAction the domain write of the    *)
(* delivery, after FlushRecord its integration_requests row too.           *)
(***************************************************************************)
EXTENDS Naturals, FiniteSets

CONSTANTS
    Calls,          \* requests the clients want performed
    Request,        \* Request[c]: actor, key, household, operation, payload
    Strip,          \* Strip[k]: the header value k after str.strip()
    BlankKey,       \* the key that strip() leaves empty
    LockId,         \* LockId[i]: hashtextextended of the lock key, may collide
    Fields,         \* fields of a request payload
    Unset,          \* a field the client left out
    FieldDefault,   \* FieldDefault[f]: what model_dump gives for Unset
    PatchOperations,\* operations that apply only the fields that were sent
    MaxAttempts,    \* bound: MaxAttempts[c] deliveries of call c
    MaxCrashes      \* bound: crashes of the API process

ASSUME BoundsAssumption == MaxCrashes \in Nat

Deliveries == UNION {{c} \X (1..MaxAttempts[c]) : c \in Calls}

(* The columns of the unique constraint, and of the lock key: the actor    *)
(* and the stripped key.  The client name is one constant.                 *)
IdentOf(c) == <<Request[c].actor, Strip[Request[c].key]>>

Ident(a) == IdentOf(a[1])

Idents == {IdentOf(c) : c \in Calls}

(* payload.model_dump(): every field, defaults in place of the unset ones. *)
Dumped(c) ==
    [f \in Fields |-> IF Request[c].payload[f] = Unset
                      THEN FieldDefault[f] ELSE Request[c].payload[f]]

(* SHA-256 of operation and dump; distinct inputs get distinct hashes.     *)
RequestHash(c) == <<Request[c].operation, Dumped(c)>>

(* What the service is asked to do.  PATCH routes pass only the fields in  *)
(* model_fields_set, the other routes the whole dump.                      *)
Changes(c) ==
    LET sent == {f \in Fields : Request[c].payload[f] # Unset}
    IN  IF Request[c].operation \in PatchOperations
        THEN [f \in sent |-> Request[c].payload[f]]
        ELSE Dumped(c)

(* The row execute_idempotent stores for the delivery that did the write;  *)
(* the stored response names that delivery (the ids it generated).         *)
RowOf(a) ==
    [ident     |-> Ident(a),
     household |-> Request[a[1]].household,
     operation |-> Request[a[1]].operation,
     hash      |-> RequestHash(a[1]),
     response  |-> a]

Rows == {RowOf(a) : a \in Deliveries}

(* Mutant of Matches: a key reused in another household passes.            *)
MatchesAnywhere(r, a) ==
    /\ r.operation = Request[a[1]].operation
    /\ r.hash = RequestHash(a[1])

(* The comparison a reused key must pass.                                  *)
Matches(r, a) ==
    /\ r.household = Request[a[1]].household
    /\ r.operation = Request[a[1]].operation
    /\ r.hash = RequestHash(a[1])

VARIABLES
    pc,         \* pc[a]: the phase of delivery a
    existing,   \* existing[a]: the rows its SELECT returned
    outcome,    \* outcome[a]: the kind of answer the handler produced
    answer,     \* answer[a]: the write whose response the answer carries
    rows,       \* committed integration_requests rows
    applied,    \* committed domain writes, named by their delivery
    crashes     \* crashes so far

vars == <<pc, existing, outcome, answer, rows, applied, crashes>>

-----------------------------------------------------------------------------

Phases == {"unsent", "waiting", "locked", "selected", "executed", "flushed",
           "answering", "done", "lost"}

(* The advisory lock is held from the statement that took it to the end of *)
(* the transaction.                                                        *)
LockHeld == {"locked", "selected", "executed", "flushed"}

InFlight == LockHeld \union {"waiting", "answering"}

Outcomes == {"none", "created", "replayed", "conflict", "refused", "failed"}

Init ==
    /\ pc = [a \in Deliveries |-> "unsent"]
    /\ existing = [a \in Deliveries |-> {}]
    /\ outcome = [a \in Deliveries |-> "none"]
    /\ answer = [a \in Deliveries |-> {}]
    /\ rows = {}
    /\ applied = {}
    /\ crashes = 0

Move(a, from, to) ==
    /\ pc[a] = from
    /\ pc' = [pc EXCEPT ![a] = to]

(* The transaction ends, by commit or rollback, and frees its lock; the    *)
(* handler goes on to send its answer.                                     *)
Finish(a, from, kind, writes) ==
    /\ Move(a, from, "answering")
    /\ existing' = [existing EXCEPT ![a] = {}]
    /\ outcome' = [outcome EXCEPT ![a] = kind]
    /\ answer' = [answer EXCEPT ![a] = writes]

(* A client without an answer sends its request, or sends it again while   *)
(* the earlier attempt may still be running.                               *)
Send(a) ==
    /\ a[2] > 1 => pc[<<a[1], a[2] - 1>>] # "unsent"
    /\ \A n \in 1..MaxAttempts[a[1]] : pc[<<a[1], n>>] # "done"
    /\ Move(a, "unsent", "waiting")
    /\ UNCHANGED <<existing, outcome, answer, rows, applied, crashes>>

(* Mutants of AcquireLock: no lock; a session-level lock nobody frees.     *)
AcquireNothing(a) ==
    /\ Move(a, "waiting", "locked")
    /\ UNCHANGED <<existing, outcome, answer, rows, applied, crashes>>

AcquireSessionLock(a) ==
    /\ \A b \in Deliveries \ {a} :
          pc[b] \notin {"unsent", "waiting"} => LockId[Ident(b)] # LockId[Ident(a)]
    /\ Move(a, "waiting", "locked")
    /\ UNCHANGED <<existing, outcome, answer, rows, applied, crashes>>

AcquireLock(a) ==
    /\ \A b \in Deliveries :
          pc[b] \in LockHeld => LockId[Ident(b)] # LockId[Ident(a)]
    /\ Move(a, "waiting", "locked")
    /\ UNCHANGED <<existing, outcome, answer, rows, applied, crashes>>

(* Mutant of SelectExisting: looks the key up within the household only.   *)
SelectInHousehold(a) ==
    /\ Move(a, "locked", "selected")
    /\ existing' = [existing EXCEPT ![a] =
          {r \in rows : r.ident = Ident(a) /\ r.household = Request[a[1]].household}]
    /\ UNCHANGED <<outcome, answer, rows, applied, crashes>>

SelectExisting(a) ==
    /\ Move(a, "locked", "selected")
    /\ existing' = [existing EXCEPT ![a] = {r \in rows : r.ident = Ident(a)}]
    /\ UNCHANGED <<outcome, answer, rows, applied, crashes>>

RefuseReuse(a) ==
    /\ \E r \in existing[a] : ~Matches(r, a)
    /\ Finish(a, "selected", "conflict", {})
    /\ UNCHANGED <<rows, applied, crashes>>

(* Mutant of Replay: answers the key of the row, not its response_body.    *)
ReplayKey(a) ==
    /\ \E r \in existing[a] :
          /\ Matches(r, a)
          /\ Finish(a, "selected", "replayed", {r.ident})
    /\ UNCHANGED <<rows, applied, crashes>>

Replay(a) ==
    /\ \E r \in existing[a] :
          /\ Matches(r, a)
          /\ Finish(a, "selected", "replayed", {r.response})
    /\ UNCHANGED <<rows, applied, crashes>>

(* Mutant of PerformAction: the service commits its own write.             *)
PerformAndCommit(a) ==
    /\ existing[a] = {}
    /\ Move(a, "selected", "executed")
    /\ applied' = applied \union {a}
    /\ UNCHANGED <<existing, outcome, answer, rows, crashes>>

PerformAction(a) ==
    /\ existing[a] = {}
    /\ Move(a, "selected", "executed")
    /\ UNCHANGED <<existing, outcome, answer, rows, applied, crashes>>

(* The service raises: rollback, nothing is recorded under the key.        *)
ActionRaises(a) ==
    /\ existing[a] = {}
    /\ Finish(a, "selected", "refused", {})
    /\ UNCHANGED <<rows, applied, crashes>>

(* CHECK integration_key_present and UNIQUE integration_requests_          *)
(* idempotency_key, the latter against committed rows.                     *)
Insertable(a) ==
    /\ Strip[Request[a[1]].key] # BlankKey
    /\ \A r \in rows : r.ident # Ident(a)

(* An INSERT waits for an uncommitted row with the same unique key.        *)
NoPendingDuplicate(a) ==
    \A b \in Deliveries : pc[b] = "flushed" => Ident(b) # Ident(a)

FlushRecord(a) ==
    /\ NoPendingDuplicate(a)
    /\ Insertable(a)
    /\ Move(a, "executed", "flushed")
    /\ UNCHANGED <<existing, outcome, answer, rows, applied, crashes>>

(* IntegrityError at the flush: rollback of the domain write, status 500.  *)
FlushFails(a) ==
    /\ NoPendingDuplicate(a)
    /\ ~Insertable(a)
    /\ Finish(a, "executed", "failed", {})
    /\ UNCHANGED <<rows, applied, crashes>>

(* Mutant of Commit: the integration_requests row is never added.          *)
CommitWithoutRecord(a) ==
    /\ Finish(a, "flushed", "created", {a})
    /\ applied' = applied \union {a}
    /\ UNCHANGED <<rows, crashes>>

Commit(a) ==
    /\ Finish(a, "flushed", "created", {a})
    /\ rows' = rows \union {RowOf(a)}
    /\ applied' = applied \union {a}
    /\ UNCHANGED crashes

Deliver(a) ==
    /\ Move(a, "answering", "done")
    /\ UNCHANGED <<existing, outcome, answer, rows, applied, crashes>>

(* The client timed out or the connection broke before the answer came.    *)
LoseAnswer(a) ==
    /\ Move(a, "answering", "lost")
    /\ UNCHANGED <<existing, outcome, answer, rows, applied, crashes>>

(* The API process dies: its connections drop, so PostgreSQL rolls its     *)
(* transactions back and releases their locks, and no answer is sent.      *)
Crash ==
    /\ crashes < MaxCrashes
    /\ \E a \in Deliveries : pc[a] \in InFlight
    /\ pc' = [a \in Deliveries |-> IF pc[a] \in InFlight THEN "lost" ELSE pc[a]]
    /\ existing' = [a \in Deliveries |-> {}]
    /\ crashes' = crashes + 1
    /\ UNCHANGED <<outcome, answer, rows, applied>>

Handle(a) ==
    \/ AcquireLock(a)
    \/ SelectExisting(a)
    \/ RefuseReuse(a)
    \/ Replay(a)
    \/ PerformAction(a)
    \/ ActionRaises(a)
    \/ FlushRecord(a)
    \/ FlushFails(a)
    \/ Commit(a)
    \/ Deliver(a)
    \/ LoseAnswer(a)

Next ==
    \/ \E a \in Deliveries : Send(a) \/ Handle(a)
    \/ Crash

Spec == Init /\ [][Next]_vars

(* Every thread the server has started keeps running, and PostgreSQL       *)
(* grants a free advisory lock.  Nothing makes a client send or resend.    *)
Fairness == \A a \in Deliveries : WF_vars(Handle(a))

FairSpec == Spec /\ Fairness

-----------------------------------------------------------------------------

(* The types of integration_requests and of the handlers' locals.          *)
TypeOK ==
    /\ pc \in [Deliveries -> Phases]
    /\ existing \in [Deliveries -> SUBSET Rows]
    /\ outcome \in [Deliveries -> Outcomes]
    /\ answer \in [Deliveries -> SUBSET Deliveries]
    /\ rows \subseteq Rows
    /\ applied \subseteq Deliveries
    /\ crashes \in 0..MaxCrashes

(* However often and however concurrently a request is delivered, under    *)
(* one actor and key at most one domain write is ever committed.           *)
AtMostOnce ==
    \A x, y \in applied : Ident(x) = Ident(y) => x = y

(* A domain write is committed exactly when the row that makes its retries *)
(* replay is: neither a crash nor an error leaves one without the other.   *)
EffectIffRecord ==
    /\ \A a \in applied : RowOf(a) \in rows
    /\ \A r \in rows : r.response \in applied /\ r = RowOf(r.response)

(* Two transactions are never past the same advisory lock, whichever       *)
(* statement of execute_idempotent each has reached.                       *)
LockExcludes ==
    \A a, b \in Deliveries :
        /\ pc[a] \in LockHeld /\ pc[b] \in LockHeld
        /\ LockId[Ident(a)] = LockId[Ident(b)]
        => a = b

(* What the SELECT of execute_idempotent found is still what is committed  *)
(* when the handler decides on it, and the key is still unused for as long *)
(* as the handler acts on having found nothing: the read is not stale.     *)
ReadStaysCurrent ==
    \A a \in Deliveries :
        /\ pc[a] = "selected" => existing[a] = {r \in rows : r.ident = Ident(a)}
        /\ pc[a] # "selected" => existing[a] = {}
        /\ pc[a] \in {"executed", "flushed"} => \A r \in rows : r.ident # Ident(a)

SameRequest(c, d) ==
    /\ Request[c].household = Request[d].household
    /\ RequestHash(c) = RequestHash(d)

(* A client told of success, first answer or replay, is told of a write    *)
(* that is committed and was asked for under the same household, operation *)
(* and request hash.                                                       *)
SuccessIsCommitted ==
    \A a \in Deliveries : outcome[a] \in {"created", "replayed"} =>
        \E w \in applied : /\ answer[a] = {w}
                           /\ Ident(w) = Ident(a)
                           /\ SameRequest(w[1], a[1])

(* The unique constraint behind the advisory lock is never what stops a    *)
(* duplicate: a flush fails (500) for a blank key only, so a client that   *)
(* races with its own retry gets a replay, not a server error.             *)
FailsOnlyOnBlankKey ==
    \A a \in Deliveries :
        outcome[a] = "failed" => Strip[Request[a[1]].key] = BlankKey

(* Once a request's write is committed, whatever answer any delivery of    *)
(* that request is given afterwards is the replay.                         *)
RetryReplays ==
    [][\A a \in Deliveries :
          /\ outcome[a] = "none" /\ outcome'[a] # "none"
          /\ \E r \in rows : r.ident = Ident(a) /\ Matches(r, a)
          => outcome'[a] = "replayed"]_vars

(* A delivery that reached the server is answered or lost, it does not     *)
(* wait for ever behind other deliveries of its key (or of a key whose     *)
(* lock id collides).                                                      *)
Progress ==
    \A a \in Deliveries : pc[a] = "waiting" ~> pc[a] \in {"done", "lost"}

(* A key is not reused for different content: a replay stands for a write  *)
(* that asked for the same changes.                                        *)
ReplaySameChanges ==
    \A a \in Deliveries : outcome[a] = "replayed" =>
        \A w \in answer[a] : Changes(w[1]) = Changes(a[1])

(* The abstract promise: the writes under an identity and the answers its  *)
(* clients have.                                                           *)
Promise == INSTANCE ExactlyOnce WITH
    Writes <- Deliveries,
    effects <- [i \in Idents |-> {a \in applied : Ident(a) = i}],
    answers <- UNION {{Ident(a)} \X answer[a] : a \in {b \in Deliveries : pc[b] = "done"}}

(* Every behaviour of the handlers is one of the abstract promise.         *)
ImplementsPromise == Promise!Spec
=============================================================================
