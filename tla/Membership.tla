----------------------------- MODULE Membership -----------------------------
(***************************************************************************)
(* Households, invitations and joining (api.py), as concurrent requests    *)
(* run it against PostgreSQL at READ COMMITTED.  Creating a household and  *)
(* an invitation are one INSERT each; join_household reads the invitation, *)
(* then the membership, and writes both in one flush and commit, so its    *)
(* steps interleave.  Digests of codes, names and roles are left out.      *)
(***************************************************************************)
EXTENDS Naturals, FiniteSets

CONSTANTS
    Users, Nobody,      \* accounts, and the null of used_by_user_id
    Households,         \* ids of households that can be created
    Invites,            \* invitations that can be created
    Joins,              \* requests to join that can be made
    MaxRemovals         \* bound: memberships made inactive

ASSUME MembershipAssumption == Nobody \notin Users /\ MaxRemovals \in Nat

VARIABLES
    status,     \* status[h][u]: the committed household_memberships row
    founder,    \* founder[h]: created_by_user_id, Nobody before creation
    invites,    \* invites[i]: the committed household_invites row, or none
    joins,      \* joins[r]: request r: its phase and what it has read
    removals    \* memberships made inactive so far

vars == <<status, founder, invites, joins, removals>>

-----------------------------------------------------------------------------

Statuses == {"none", "active", "inactive"}

NoInvite == [household |-> "none"]

Invite == [household : Households, by : Users, usedBy : Users \union {Nobody},
           expired : BOOLEAN]

(* stale records whether the invitation was used or expired at sending.    *)
Join == [phase : {"unsent", "sent", "read", "checked", "flushed",
                  "admitted", "refused", "failed"},
         user : Users \union {Nobody}, invite : Invites \union {Nobody},
         found : Statuses, stale : BOOLEAN]

NoJoin == [phase |-> "unsent", user |-> Nobody, invite |-> Nobody,
           found |-> "none", stale |-> FALSE]

Init ==
    /\ status = [h \in Households |-> [u \in Users |-> "none"]]
    /\ founder = [h \in Households |-> Nobody]
    /\ invites = [i \in Invites |-> NoInvite]
    /\ joins = [r \in Joins |-> NoJoin]
    /\ removals = 0

Exists(i) == invites[i] # NoInvite

Valid(i) == invites[i].usedBy = Nobody /\ ~invites[i].expired

HouseholdOf(r) == invites[joins[r].invite].household

CreateHousehold(u, h) ==
    /\ founder[h] = Nobody
    /\ founder' = [founder EXCEPT ![h] = u]
    /\ status' = [status EXCEPT ![h][u] = "active"]
    /\ UNCHANGED <<invites, joins, removals>>

(* Mutant of CreateInvite: anybody may invite.                             *)
CreateInviteAnybody(u, h, i) ==
    /\ founder[h] # Nobody
    /\ ~Exists(i)
    /\ invites' = [invites EXCEPT ![i] =
          [household |-> h, by |-> u, usedBy |-> Nobody, expired |-> FALSE]]
    /\ UNCHANGED <<status, founder, joins, removals>>

(* Anybody who is not an active member is answered 404.                    *)
CreateInvite(u, h, i) ==
    /\ status[h][u] = "active"
    /\ ~Exists(i)
    /\ invites' = [invites EXCEPT ![i] =
          [household |-> h, by |-> u, usedBy |-> Nobody, expired |-> FALSE]]
    /\ UNCHANGED <<status, founder, joins, removals>>

(* Seven days pass.                                                        *)
Expire(i) ==
    /\ Exists(i) /\ ~invites[i].expired
    /\ invites' = [invites EXCEPT ![i].expired = TRUE]
    /\ UNCHANGED <<status, founder, joins, removals>>

(* No route removes a member; an administrator does, in the database.      *)
Remove(h, u) ==
    /\ removals < MaxRemovals
    /\ status[h][u] = "active"
    /\ \A r \in Joins : joins[r].phase = "flushed" /\ joins[r].found = "inactive"
                          => <<HouseholdOf(r), joins[r].user>> # <<h, u>>
    /\ status' = [status EXCEPT ![h][u] = "inactive"]
    /\ removals' = removals + 1
    /\ UNCHANGED <<founder, invites, joins>>

SendJoin(r, u, i) ==
    /\ joins[r].phase = "unsent"
    /\ Exists(i)
    /\ joins' = [joins EXCEPT ![r] =
          [NoJoin EXCEPT !.phase = "sent", !.user = u, !.invite = i, !.stale = ~Valid(i)]]
    /\ UNCHANGED <<status, founder, invites, removals>>

Step(r, from, to) ==
    /\ joins[r].phase = from
    /\ joins' = [joins EXCEPT ![r].phase = to]

(* Mutant of ReadInvite: the time of use is not looked at.                 *)
ReadInviteExpiryOnly(r) ==
    /\ Step(r, "sent", IF invites[joins[r].invite].expired THEN "refused" ELSE "read")
    /\ UNCHANGED <<status, founder, invites, removals>>

ReadInvite(r) ==
    /\ Step(r, "sent", IF Valid(joins[r].invite) THEN "read" ELSE "refused")
    /\ UNCHANGED <<status, founder, invites, removals>>

ReadMembership(r) ==
    /\ joins[r].phase = "read"
    /\ joins' = [joins EXCEPT ![r].phase = "checked",
                              ![r].found = status[HouseholdOf(r)][joins[r].user]]
    /\ UNCHANGED <<status, founder, invites, removals>>

(* Mutant of Waits: rows stay locked after the transaction has ended.      *)
WaitsForEver(r) ==
    \E s \in Joins \ {r} :
        /\ joins[s].phase \in {"flushed", "admitted"}
        /\ \/ joins[s].invite = joins[r].invite
           \/ <<HouseholdOf(s), joins[s].user>> = <<HouseholdOf(r), joins[r].user>>

(* The INSERT of a membership waits for an uncommitted one of the same     *)
(* key, an UPDATE for the uncommitted writer of the same row.              *)
Waits(r) ==
    \E s \in Joins \ {r} :
        /\ joins[s].phase = "flushed"
        /\ \/ joins[s].invite = joins[r].invite
           \/ /\ <<HouseholdOf(s), joins[s].user>> = <<HouseholdOf(r), joins[r].user>>
              /\ joins[s].found # "active" /\ joins[r].found # "active"

(* Mutant of Collides: an account may be a member of one household only.   *)
CollidesAnywhere(r) ==
    joins[r].found = "none" /\ \E h \in Households : status[h][joins[r].user] # "none"

(* household_memberships_pkey, against what is committed.                  *)
Collides(r) ==
    joins[r].found = "none" /\ status[HouseholdOf(r)][joins[r].user] # "none"

Flush(r) ==
    /\ joins[r].phase = "checked" /\ ~Waits(r)
    /\ Step(r, "checked", IF Collides(r) THEN "failed" ELSE "flushed")
    /\ UNCHANGED <<status, founder, invites, removals>>

(* Mutants of Commit: only the invitation is saved; the invitation keeps   *)
(* the request in place of the account.                                    *)
CommitInviteOnly(r) ==
    /\ Step(r, "flushed", "admitted")
    /\ invites' = [invites EXCEPT ![joins[r].invite].usedBy = joins[r].user]
    /\ UNCHANGED <<status, founder, removals>>

CommitNamesRequest(r) ==
    /\ Step(r, "flushed", "admitted")
    /\ invites' = [invites EXCEPT ![joins[r].invite].usedBy = r]
    /\ status' = [status EXCEPT ![HouseholdOf(r)][joins[r].user] = "active"]
    /\ UNCHANGED <<founder, removals>>

(* The membership is inserted or made active, or was active when read; the *)
(* invitation is marked used, whoever has marked it in the meantime.       *)
Commit(r) ==
    /\ Step(r, "flushed", "admitted")
    /\ invites' = [invites EXCEPT ![joins[r].invite].usedBy = joins[r].user]
    /\ status' = IF joins[r].found = "active" THEN status
                 ELSE [status EXCEPT ![HouseholdOf(r)][joins[r].user] = "active"]
    /\ UNCHANGED <<founder, removals>>

Handle(r) == ReadInvite(r) \/ ReadMembership(r) \/ Flush(r) \/ Commit(r)

Next ==
    \/ \E u \in Users, h \in Households : CreateHousehold(u, h)
    \/ \E u \in Users, h \in Households, i \in Invites : CreateInvite(u, h, i)
    \/ \E i \in Invites : Expire(i)
    \/ \E u \in Users, h \in Households : Remove(h, u)
    \/ \E r \in Joins, u \in Users, i \in Invites : SendJoin(r, u, i)
    \/ \E r \in Joins : Handle(r)

Spec == Init /\ [][Next]_vars

(* A request the server has started keeps running.                         *)
FairSpec == Spec /\ \A r \in Joins : WF_vars(Handle(r))

-----------------------------------------------------------------------------

TypeOK ==
    /\ status \in [Households -> [Users -> Statuses]]
    /\ founder \in [Households -> Users \union {Nobody}]
    /\ invites \in [Invites -> Invite \union {NoInvite}]
    /\ joins \in [Joins -> Join]
    /\ removals \in 0..MaxRemovals

Members(h) == {u \in Users : status[h][u] # "none"}

(* Nobody gets into a household by chance, or by inviting himself: every   *)
(* membership goes back to the founder through invitations to that         *)
(* household.  So among any members without the founder, one was admitted  *)
(* through an invitation of a member who is not among them.                *)
EveryMemberWasInvited ==
    \A h \in Households : \A S \in SUBSET (Members(h) \ {founder[h]}) :
        S # {} => \E r \in Joins : /\ joins[r].phase = "admitted"
                                 /\ joins[r].user \in S
                                 /\ HouseholdOf(r) = h
                                 /\ invites[joins[r].invite].by \in Members(h) \ S

(* An invitation is never used up for nothing: whoever used it has a       *)
(* membership of the household it was for.                                 *)
UsedInviteAdmits ==
    \A i \in Invites : Exists(i) /\ invites[i].usedBy # Nobody =>
        status[invites[i].household][invites[i].usedBy] # "none"

(* A request sent when its invitation had been used, or had expired, is    *)
(* never admitted, whatever else is going on.                              *)
StaleInviteRefused ==
    \A r \in Joins : joins[r].stale => joins[r].phase \in {"sent", "refused"}

(* The primary key stops a request with a server error only when the same  *)
(* user's other request was admitted to the same household meanwhile.      *)
FailsOnlyAgainstItself ==
    \A r \in Joins : joins[r].phase = "failed" =>
        \E s \in Joins \ {r} : /\ joins[s].phase = "admitted"
                               /\ joins[s].user = joins[r].user
                               /\ HouseholdOf(s) = HouseholdOf(r)

(* A request that reached the server is answered: nobody waits for ever on *)
(* the rows of another request.                                            *)
JoinIsAnswered ==
    \A r \in Joins :
        joins[r].phase = "sent" ~> joins[r].phase \in {"admitted", "refused", "failed"}

(* Household invitations are single-use: one account joins with each.      *)
SingleUse ==
    \A r, s \in Joins :
        /\ joins[r].phase = "admitted" /\ joins[s].phase = "admitted"
        /\ joins[r].invite = joins[s].invite
        => joins[r].user = joins[s].user
=============================================================================
