---------------------------- MODULE ExactlyOnce ----------------------------
(***************************************************************************)
(* What an Idempotency-Key promises a caller of the Application API,       *)
(* without threads, locks or transactions: under one identity (an actor    *)
(* and a key) at most one write ever takes effect, and every success the   *)
(* caller is given, first answer or replay, is the answer of that write.   *)
(***************************************************************************)
CONSTANTS
    Idents,     \* the identities of idempotent requests: actor and key
    Writes      \* the writes a request can perform; each run is distinct

VARIABLES
    effects,    \* effects[i]: the writes that took effect under identity i
    answers     \* the pairs <<i, w>> such that a caller was given w under i

vars == <<effects, answers>>

TypeOK ==
    /\ effects \in [Idents -> SUBSET Writes]
    /\ answers \subseteq Idents \X Writes

Init ==
    /\ effects = [i \in Idents |-> {}]
    /\ answers = {}

(* The single instant at which a request takes effect. *)
Apply(i) ==
    /\ effects[i] = {}
    /\ \E w \in Writes : effects' = [effects EXCEPT ![i] = {w}]
    /\ UNCHANGED answers

(* A caller is told of the write that took effect, any number of times. *)
Answer(i) ==
    /\ \E w \in effects[i] : answers' = answers \union {<<i, w>>}
    /\ UNCHANGED effects

Next == \E i \in Idents : Apply(i) \/ Answer(i)

Spec == Init /\ [][Next]_vars
=============================================================================
