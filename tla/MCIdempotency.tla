--------------------------- MODULE MCIdempotency ---------------------------
(* Instances of Idempotency for TLC.                                       *)
EXTENDS Idempotency, TLC

CONSTANTS
    alice, bob,         \* actors
    k1, k1Padded, kBlank, empty,    \* header values, and the stripped blank
    home, office,       \* households
    null, tidy          \* field values besides Unset

MCStrip == (k1 :> k1) @@ (k1Padded :> k1) @@ (kBlank :> empty)

MCFieldDefault == [f \in Fields |-> null]

(* Call 1 may be sent twice, the others once.                              *)
MCMaxAttempts == [c \in Calls |-> IF c = 1 THEN 2 ELSE 1]

Req(actor, key, household, operation, payload) ==
    [actor |-> actor, key |-> key, household |-> household,
     operation |-> operation, payload |-> payload]

Titled == [title |-> tidy, description |-> Unset]

(* Alice creates a task, twice if no answer comes; another thread of hers  *)
(* uses the same key, padded, for another household; Bob's key is blank.   *)
(* The advisory lock ids of the two actors collide.                        *)
MCRequest ==
    (1 :> Req(alice, k1, home, "create_task", Titled))
 @@ (2 :> Req(alice, k1Padded, office, "create_task", Titled))
 @@ (3 :> Req(bob, kBlank, home, "create_task", Titled))

MCLockId == [i \in Idents |-> 0]

(* One PATCH leaves the description out, the other sets it to null.        *)
MCRequestPatch ==
    (1 :> Req(alice, k1, home, "update_task", Titled))
 @@ (2 :> Req(alice, k1, home, "update_task",
              [title |-> tidy, description |-> null]))
=============================================================================
