-------------------------- MODULE MembershipProofs --------------------------
(***************************************************************************)
(* Proofs about Membership for any accounts, households, invitations and   *)
(* requests.                                                               *)
(***************************************************************************)
EXTENDS Membership, TLAPS

-----------------------------------------------------------------------------

(* Types, and what a request that was sent refers to.                      *)

Sent(r) ==
    /\ joins[r].user \in Users /\ joins[r].invite \in Invites
    /\ Exists(joins[r].invite)

References == \A r \in Joins : joins[r].phase # "unsent" => Sent(r)

LEMMA NoInviteIsNone == NoInvite \notin Invite
<1> SUFFICES ASSUME NoInvite \in Invite PROVE FALSE
  OBVIOUS
<1>1. DOMAIN NoInvite = {"household"}
  BY DEF NoInvite
<1>2. "by" \in DOMAIN NoInvite
  BY DEF Invite
<1> QED
  BY <1>1, <1>2

LEMMA InvitesExist ==
    ASSUME TypeOK, NEW i \in Invites PROVE Exists(i) <=> invites[i] \in Invite
  BY NoInviteIsNone DEF TypeOK, Exists

LEMMA TypesInit == Init => TypeOK /\ References
  BY MembershipAssumption
  DEF Init, TypeOK, References, Statuses, Join, NoJoin

-----------------------------------------------------------------------------

(* What a step does, to rows and to one request.                           *)

(* No membership row is deleted, no founder replaced, no invitation        *)
(* deleted, redirected or made valid again.                                *)
RowsKept ==
    /\ \A h \in Households, u \in Users : status[h][u] # "none" => status'[h][u] # "none"
    /\ \A h \in Households : founder[h] # Nobody => founder'[h] = founder[h]
    /\ \A i \in Invites : Exists(i) =>
          /\ Exists(i)'
          /\ invites'[i].household = invites[i].household
          /\ invites'[i].by = invites[i].by
          /\ ~Valid(i) => ~Valid(i)'

Admits(r) == joins[r].phase = "flushed" /\ joins'[r].phase = "admitted"

(* Memberships come from founding a household or from a request that is    *)
(* admitted, invitations from members, and their use from requests.        *)
RowsGained ==
    /\ \A h \in Households, u \in Users : status[h][u] = "none" /\ status'[h][u] # "none" =>
          \/ founder[h] = Nobody /\ founder'[h] = u
          \/ \E r \in Joins : Admits(r) /\ joins[r].user = u /\ HouseholdOf(r) = h
    /\ \A h \in Households : founder[h] = Nobody /\ founder'[h] # Nobody =>
          \A i \in Invites : invites'[i] = invites[i]
    /\ \A i \in Invites : ~Exists(i) /\ Exists(i)' =>
          /\ invites'[i].household \in Households /\ invites'[i].by \in Users
          /\ status[invites'[i].household][invites'[i].by] # "none"
          /\ invites'[i].usedBy = Nobody
    /\ \A i \in Invites : Exists(i) /\ invites'[i].usedBy # invites[i].usedBy =>
          \E r \in Joins : Admits(r) /\ joins[r].invite = i /\ invites'[i].usedBy = joins[r].user

(* One request.                                                            *)
Same(r) ==
    /\ joins'[r].user = joins[r].user /\ joins'[r].invite = joins[r].invite
    /\ joins'[r].stale = joins[r].stale

JoinStep(r) ==
    \/ joins'[r] = joins[r]
    \/ /\ joins[r].phase = "unsent" /\ joins'[r].phase = "sent"
       /\ joins'[r].user \in Users /\ joins'[r].invite \in Invites
       /\ Exists(joins'[r].invite)
       /\ joins'[r].stale = ~Valid(joins'[r].invite)
       /\ UNCHANGED invites
    \/ /\ joins[r].phase = "sent" /\ Same(r)
       /\ joins'[r].phase = "refused" \/ (joins'[r].phase = "read" /\ Valid(joins[r].invite))
    \/ /\ joins[r].phase = "read" /\ joins'[r].phase = "checked" /\ Same(r)
       /\ joins'[r].found = status[HouseholdOf(r)][joins[r].user]
       /\ UNCHANGED <<status, invites>>
    \/ /\ joins[r].phase = "checked" /\ Same(r) /\ joins'[r].found = joins[r].found
       /\ \/ joins'[r].phase = "flushed"
          \/ joins'[r].phase = "failed" /\ Collides(r)
    \/ /\ Admits(r) /\ Same(r) /\ joins'[r].found = joins[r].found
       /\ joins[r].found = "active" \/ status'[HouseholdOf(r)][joins[r].user] # "none"

Effect ==
    /\ TypeOK' /\ RowsKept /\ RowsGained
    /\ \A r \in Joins : JoinStep(r)

LEMMA CreateHouseholdEffect ==
    ASSUME TypeOK, NEW u \in Users, NEW h \in Households, CreateHousehold(u, h)
    PROVE  Effect
<1>1. TypeOK'
  BY DEF CreateHousehold, TypeOK, Statuses
<1>2. \A g \in Households, v \in Users :
          status'[g][v] = IF g = h /\ v = u THEN "active" ELSE status[g][v]
  BY DEF CreateHousehold, TypeOK
<1>3. \A g \in Households : founder'[g] = IF g = h THEN u ELSE founder[g]
  BY DEF CreateHousehold, TypeOK
<1> QED
  BY <1>1, <1>2, <1>3, MembershipAssumption
  DEF CreateHousehold, Effect, RowsKept, RowsGained, JoinStep, Exists, Valid

LEMMA CreateInviteEffect ==
    ASSUME TypeOK, NEW u \in Users, NEW h \in Households, NEW i \in Invites,
           CreateInvite(u, h, i)
    PROVE  Effect
<1> DEFINE row == [household |-> h, by |-> u, usedBy |-> Nobody, expired |-> FALSE]
<1>1. row \in Invite
  BY DEF Invite
<1>2. \A j \in Invites : invites'[j] = IF j = i THEN row ELSE invites[j]
  BY DEF CreateInvite, TypeOK
<1>3. TypeOK'
  BY <1>1 DEF CreateInvite, TypeOK
<1>4. RowsKept
  BY <1>2 DEF CreateInvite, RowsKept, Exists, Valid
<1>5. RowsGained
  <2>1. \A j \in Invites : ~Exists(j) /\ Exists(j)' => j = i
    BY <1>2 DEF Exists
  <2>2. \A j \in Invites : Exists(j) => invites'[j] = invites[j]
    BY <1>2 DEF CreateInvite, Exists
  <2>3. /\ invites'[i].household = h /\ invites'[i].by = u /\ invites'[i].usedBy = Nobody
    BY <1>2
  <2> QED
    BY <2>1, <2>2, <2>3 DEF CreateInvite, RowsGained
<1> QED
  BY <1>3, <1>4, <1>5 DEF CreateInvite, Effect, JoinStep

LEMMA ExpireEffect ==
    ASSUME TypeOK, NEW i \in Invites, Expire(i)
    PROVE  Effect
<1>1. invites[i] \in Invite
  BY InvitesExist DEF Expire
<1>2. \A j \in Invites : invites'[j] = IF j = i THEN [invites[i] EXCEPT !.expired = TRUE]
                                       ELSE invites[j]
  BY DEF Expire, TypeOK
<1>3. [invites[i] EXCEPT !.expired = TRUE] \in Invite
  BY <1>1 DEF Invite
<1>4. /\ invites'[i] \in Invite /\ invites'[i].household = invites[i].household
      /\ invites'[i].by = invites[i].by /\ invites'[i].usedBy = invites[i].usedBy
      /\ invites'[i].expired
  BY <1>1, <1>2, <1>3 DEF Invite
<1>5. TypeOK'
  BY <1>2, <1>3 DEF Expire, TypeOK
<1>6. \A j \in Invites : Exists(j)' <=> Exists(j)
  BY <1>2, <1>3, NoInviteIsNone DEF Expire, Exists
<1> QED
  BY <1>2, <1>4, <1>5, <1>6
  DEF Expire, Effect, RowsKept, RowsGained, JoinStep, Valid

LEMMA RemoveEffect ==
    ASSUME TypeOK, NEW u \in Users, NEW h \in Households, Remove(h, u)
    PROVE  Effect
<1>1. TypeOK'
  BY MembershipAssumption DEF Remove, TypeOK, Statuses
<1>2. \A g \in Households, v \in Users :
          status'[g][v] = IF g = h /\ v = u THEN "inactive" ELSE status[g][v]
  BY DEF Remove, TypeOK
<1> QED
  BY <1>1, <1>2 DEF Remove, Effect, RowsKept, RowsGained, JoinStep, Exists, Valid

LEMMA SendJoinEffect ==
    ASSUME TypeOK, NEW r \in Joins, NEW u \in Users, NEW i \in Invites, SendJoin(r, u, i)
    PROVE  Effect
<1>1. PICK stale \in BOOLEAN : stale = ~Valid(i)
  OBVIOUS
<1> DEFINE sent == [NoJoin EXCEPT !.phase = "sent", !.user = u, !.invite = i, !.stale = stale]
<1>2. /\ sent \in Join
      /\ sent.phase = "sent" /\ sent.user = u /\ sent.invite = i /\ sent.stale = stale
  <2>1. NoJoin \in [phase : {"unsent"}, user : Users \union {Nobody},
                    invite : Invites \union {Nobody}, found : {"none"}, stale : BOOLEAN]
    BY DEF NoJoin
  <2> QED
    BY <2>1 DEF Join, Statuses
<1>3. joins' = [joins EXCEPT ![r] = sent]
  BY <1>1, Zenon DEF SendJoin
<1> HIDE DEF sent
<1>4. \A s \in Joins : joins'[s] = IF s = r THEN sent ELSE joins[s]
  BY <1>3 DEF TypeOK
<1>5. TypeOK'
  BY <1>2, <1>3 DEF SendJoin, TypeOK
<1>6. JoinStep(r)
  BY <1>1, <1>2, <1>4 DEF SendJoin, JoinStep
<1>7. \A s \in Joins : JoinStep(s)
  BY <1>4, <1>6 DEF JoinStep
<1> QED
  BY <1>5, <1>7 DEF SendJoin, Effect, RowsKept, RowsGained, Exists, Valid

(* A request moves on and nothing else is written.                         *)
LEMMA StepTypes ==
    ASSUME TypeOK, NEW r \in Joins, NEW from, NEW to, Step(r, from, to),
           to \in {"read", "refused", "flushed", "failed", "admitted"}
    PROVE  /\ joins' \in [Joins -> Join]
           /\ \A s \in Joins \ {r} : joins'[s] = joins[s]
           /\ joins[r].phase = from /\ joins'[r].phase = to
           /\ Same(r) /\ joins'[r].found = joins[r].found
<1>1. joins[r] \in Join
  BY DEF TypeOK
<1>2. [joins[r] EXCEPT !.phase = to] \in Join
  BY <1>1 DEF Join
<1>3. joins'[r] = [joins[r] EXCEPT !.phase = to]
  BY DEF Step, TypeOK
<1>4. joins'[r].phase = to /\ Same(r) /\ joins'[r].found = joins[r].found
  BY <1>1, <1>3 DEF Join, Same
<1> QED
  BY <1>2, <1>4 DEF Step, TypeOK

LEMMA ReadEffect ==
    ASSUME TypeOK, References, NEW r \in Joins, ReadInvite(r) \/ ReadMembership(r) \/ Flush(r)
    PROVE  Effect
<1>1. RowsKept /\ RowsGained
  BY DEF ReadInvite, ReadMembership, Flush, RowsKept, RowsGained, Exists, Valid
<1>2. CASE ReadInvite(r)
  <2>1. PICK to \in {"read", "refused"} :
            Step(r, "sent", to) /\ (to = "read" => Valid(joins[r].invite))
    BY <1>2 DEF ReadInvite
  <2>2. /\ joins' \in [Joins -> Join] /\ \A s \in Joins \ {r} : joins'[s] = joins[s]
        /\ joins[r].phase = "sent" /\ joins'[r].phase = to /\ Same(r)
    BY <2>1, StepTypes
  <2>3. TypeOK'
    BY <1>2, <2>2 DEF ReadInvite, TypeOK
  <2>4. JoinStep(r)
    BY <2>1, <2>2 DEF JoinStep
  <2> QED
    BY <1>1, <2>2, <2>3, <2>4 DEF Effect, JoinStep
<1>3. CASE ReadMembership(r)
  <2>1. joins[r] \in Join /\ Sent(r)
    BY <1>3 DEF TypeOK, References, ReadMembership
  <2>2. HouseholdOf(r) \in Households
    BY <2>1, InvitesExist DEF Sent, HouseholdOf, Invite
  <2> DEFINE found == status[HouseholdOf(r)][joins[r].user]
  <2>3. found \in Statuses
    BY <2>1, <2>2 DEF Sent, TypeOK
  <2>4. joins'[r] = [joins[r] EXCEPT !.phase = "checked", !.found = found]
    BY <1>3 DEF ReadMembership, TypeOK
  <2>5. [joins[r] EXCEPT !.phase = "checked", !.found = found] \in Join
    BY <2>1, <2>3 DEF Join
  <2>6. \A s \in Joins \ {r} : joins'[s] = joins[s]
    BY <1>3 DEF ReadMembership, TypeOK
  <2>7. TypeOK'
    BY <1>3, <2>5 DEF ReadMembership, TypeOK
  <2>8. joins'[r].phase = "checked" /\ joins'[r].found = found /\ Same(r)
    BY <2>1, <2>4 DEF Join, Same
  <2>9. JoinStep(r)
    BY <1>3, <2>8 DEF ReadMembership, JoinStep
  <2> QED
    BY <1>1, <2>6, <2>7, <2>9 DEF Effect, JoinStep
<1>4. CASE Flush(r)
  <2>1. PICK to \in {"flushed", "failed"} :
            Step(r, "checked", to) /\ (to = "failed" => Collides(r))
    BY <1>4 DEF Flush
  <2>2. /\ joins' \in [Joins -> Join] /\ \A s \in Joins \ {r} : joins'[s] = joins[s]
        /\ joins[r].phase = "checked" /\ joins'[r].phase = to /\ Same(r)
        /\ joins'[r].found = joins[r].found
    BY <2>1, StepTypes
  <2>3. TypeOK'
    BY <1>4, <2>2 DEF Flush, TypeOK
  <2>4. JoinStep(r)
    BY <2>1, <2>2 DEF JoinStep
  <2> QED
    BY <1>1, <2>2, <2>3, <2>4 DEF Effect, JoinStep
<1> QED
  BY <1>2, <1>3, <1>4

LEMMA CommitEffect ==
    ASSUME TypeOK, References, NEW r \in Joins, Commit(r)
    PROVE  Effect
<1> DEFINE i == joins[r].invite
           u == joins[r].user
           h == HouseholdOf(r)
<1>1. /\ joins' \in [Joins -> Join] /\ \A s \in Joins \ {r} : joins'[s] = joins[s]
      /\ Admits(r) /\ Same(r) /\ joins'[r].found = joins[r].found
  BY StepTypes DEF Commit, Admits
<1>2. joins[r] \in Join /\ i \in Invites /\ u \in Users /\ Exists(i)
  BY <1>1 DEF TypeOK, References, Sent, Admits
<1>3. invites[i] \in Invite /\ h \in Households
  BY <1>2, InvitesExist DEF HouseholdOf, Invite
<1>4. \A j \in Invites : invites'[j] = IF j = i THEN [invites[i] EXCEPT !.usedBy = u]
                                       ELSE invites[j]
  BY DEF Commit, TypeOK
<1>5. [invites[i] EXCEPT !.usedBy = u] \in Invite
  BY <1>2, <1>3 DEF Invite
<1>6. /\ invites'[i].household = invites[i].household /\ invites'[i].by = invites[i].by
      /\ invites'[i].usedBy = u
  BY <1>2, <1>3, <1>4 DEF Invite
<1>7. \A j \in Invites : Exists(j)' <=> Exists(j)
  BY <1>2, <1>4, <1>5, NoInviteIsNone DEF Exists
<1>8. \A g \in Households, v \in Users :
          status'[g][v] = IF joins[r].found # "active" /\ g = h /\ v = u THEN "active"
                          ELSE status[g][v]
  BY <1>2, <1>3 DEF Commit, TypeOK
<1>9. TypeOK'
  <2>1. invites' \in [Invites -> Invite \union {NoInvite}]
    BY <1>5 DEF Commit, TypeOK
  <2>2. status' \in [Households -> [Users -> Statuses]]
    BY <1>2, <1>3 DEF Commit, TypeOK, Statuses
  <2> QED
    BY <1>1, <2>1, <2>2 DEF Commit, TypeOK
<1>10. RowsKept
  <2>1. \A j \in Invites : ~Valid(j) => ~Valid(j)'
    BY <1>2, <1>4, <1>6, MembershipAssumption DEF Valid
  <2>2. \A g \in Households, v \in Users : status[g][v] # "none" => status'[g][v] # "none"
    BY <1>8
  <2>3. \A j \in Invites : invites'[j].household = invites[j].household
                          /\ invites'[j].by = invites[j].by
    BY <1>4, <1>6
  <2>4. founder' = founder
    BY DEF Commit
  <2> HIDE DEF i, u, h
  <2> QED
    BY <1>7, <2>1, <2>2, <2>3, <2>4 DEF RowsKept
<1>11. RowsGained
  <2>1. \A g \in Households, v \in Users : status[g][v] = "none" /\ status'[g][v] # "none" =>
            joins[r].user = v /\ HouseholdOf(r) = g
    BY <1>8
  <2>2. \A j \in Invites : invites'[j].usedBy # invites[j].usedBy =>
            joins[r].invite = j /\ invites'[j].usedBy = joins[r].user
    BY <1>4, <1>6
  <2>3. founder' = founder
    BY DEF Commit
  <2> HIDE DEF i, u, h
  <2> QED
    BY <1>1, <1>7, <2>1, <2>2, <2>3 DEF RowsGained
<1>12. JoinStep(r)
  BY <1>1, <1>2, <1>3, <1>8 DEF JoinStep
<1> QED
  BY <1>1, <1>9, <1>10, <1>11, <1>12 DEF Effect, JoinStep

LEMMA EveryStep == TypeOK /\ References /\ [Next]_vars => Effect
<1> SUFFICES ASSUME TypeOK, References, [Next]_vars PROVE Effect
  OBVIOUS
<1>1. CASE UNCHANGED vars
  <2>1. TypeOK'
    BY <1>1 DEF vars, TypeOK
  <2> QED
    BY <1>1, <2>1 DEF vars, Effect, RowsKept, RowsGained, JoinStep, Exists, Valid
<1> QED
  BY <1>1, CreateHouseholdEffect, CreateInviteEffect, ExpireEffect, RemoveEffect,
     SendJoinEffect, ReadEffect, CommitEffect DEF Next, Handle

LEMMA ReferencesKept == TypeOK /\ References /\ Effect => References'
<1> SUFFICES ASSUME TypeOK, References, Effect, NEW r \in Joins, joins'[r].phase # "unsent"
             PROVE  Sent(r)'
  BY DEF References
<1>1. JoinStep(r)
  BY DEF Effect
<1>2. /\ joins'[r].user \in Users /\ joins'[r].invite \in Invites
      /\ Exists(joins'[r].invite)
  BY <1>1 DEF References, Sent, JoinStep, Same, Admits
<1> QED
  BY <1>2 DEF Sent, Effect, RowsKept, Exists

-----------------------------------------------------------------------------

(* What the properties rest on.                                            *)

InvitedByMembers ==
    \A i \in Invites : Exists(i) => status[invites[i].household][invites[i].by] # "none"

Founded ==
    \A h \in Households, u \in Users : status[h][u] # "none" => founder[h] # Nobody

(* The same user's other request was admitted to the same household.       *)
Rival(r) ==
    \E s \in Joins \ {r} : /\ joins[s].phase = "admitted"
                           /\ joins[s].user = joins[r].user
                           /\ HouseholdOf(s) = HouseholdOf(r)

(* A membership that was read is still there; one that has come since came *)
(* through a rival.                                                        *)
ReadStays ==
    \A r \in Joins : joins[r].phase \in {"checked", "flushed"} =>
        /\ joins[r].found # "none" => status[HouseholdOf(r)][joins[r].user] # "none"
        /\ status[HouseholdOf(r)][joins[r].user] # "none" => joins[r].found # "none" \/ Rival(r)

(* An invitation that was no good when a request was sent stays no good.   *)
StaleStays ==
    \A r \in Joins : joins[r].stale =>
        joins[r].phase \in {"sent", "refused"} /\ ~Valid(joins[r].invite)

Inv ==
    /\ TypeOK /\ References
    /\ InvitedByMembers /\ Founded /\ ReadStays /\ StaleStays
    /\ FailsOnlyAgainstItself /\ UsedInviteAdmits /\ EveryMemberWasInvited

LEMMA Targets ==
    ASSUME TypeOK, References, NEW r \in Joins, joins[r].phase # "unsent"
    PROVE  /\ HouseholdOf(r) \in Households /\ joins[r].user \in Users
           /\ invites[joins[r].invite].by \in Users
           /\ invites[joins[r].invite].household = HouseholdOf(r)
           /\ joins[r].invite \in Invites /\ Exists(joins[r].invite)
  BY InvitesExist DEF References, Sent, HouseholdOf, Invite

(* A household one can be invited to has a founder.                        *)
LEMMA TargetFounded ==
    ASSUME Inv, NEW r \in Joins, joins[r].phase # "unsent"
    PROVE  founder[HouseholdOf(r)] # Nobody
  BY Targets DEF Inv, InvitedByMembers, Founded

(* A request keeps its household, and stays admitted.                      *)
LEMMA TargetKept ==
    ASSUME Inv, Effect, NEW r \in Joins, joins[r].phase # "unsent"
    PROVE  /\ joins'[r].user = joins[r].user /\ joins'[r].invite = joins[r].invite
           /\ joins'[r].stale = joins[r].stale
           /\ HouseholdOf(r)' = HouseholdOf(r)
           /\ invites'[joins[r].invite].by = invites[joins[r].invite].by
           /\ joins[r].phase = "admitted" => joins'[r].phase = "admitted"
           /\ joins[r].phase = "failed" => joins'[r].phase = "failed"
<1>1. JoinStep(r)
  BY DEF Effect
<1>2. /\ joins'[r].user = joins[r].user /\ joins'[r].invite = joins[r].invite
      /\ joins'[r].stale = joins[r].stale
      /\ joins[r].phase = "admitted" => joins'[r].phase = "admitted"
      /\ joins[r].phase = "failed" => joins'[r].phase = "failed"
  BY <1>1 DEF JoinStep, Same, Admits
<1>3. joins[r].invite \in Invites /\ Exists(joins[r].invite)
  BY Targets DEF Inv
<1> QED
  BY <1>2, <1>3 DEF Effect, RowsKept, HouseholdOf

LEMMA RivalKept ==
    ASSUME Inv, Effect, NEW r \in Joins, joins[r].phase # "unsent", Rival(r)
    PROVE  Rival(r)'
<1>1. PICK s \in Joins \ {r} : /\ joins[s].phase = "admitted"
                               /\ joins[s].user = joins[r].user
                               /\ HouseholdOf(s) = HouseholdOf(r)
  BY DEF Rival
<1>2. joins'[s].phase = "admitted" /\ joins'[s].user = joins'[r].user
      /\ HouseholdOf(s)' = HouseholdOf(r)'
  BY <1>1, TargetKept
<1> QED
  BY <1>2 DEF Rival

LEMMA InvitedByMembersKept == Inv /\ Effect => InvitedByMembers'
<1> SUFFICES ASSUME Inv, Effect, NEW i \in Invites, Exists(i)'
             PROVE  status'[invites'[i].household][invites'[i].by] # "none"
  BY DEF InvitedByMembers
<1>1. CASE Exists(i)
  <2>1. invites[i].household \in Households /\ invites[i].by \in Users
    BY <1>1, InvitesExist DEF Inv, Invite
  <2> QED
    BY <1>1, <2>1 DEF Inv, InvitedByMembers, Effect, RowsKept
<1>2. CASE ~Exists(i)
  BY <1>2 DEF Effect, RowsKept, RowsGained
<1> QED
  BY <1>1, <1>2

LEMMA FoundedKept == Inv /\ Effect => Founded'
<1> SUFFICES ASSUME Inv, Effect, NEW h \in Households, NEW u \in Users, status'[h][u] # "none"
             PROVE  founder'[h] # Nobody
  BY DEF Founded
<1>1. CASE status[h][u] # "none"
  BY <1>1 DEF Inv, Founded, Effect, RowsKept
<1>2. CASE status[h][u] = "none"
  <2>1. CASE founder'[h] = u
    BY <2>1, MembershipAssumption
  <2>2. CASE \E r \in Joins : Admits(r) /\ joins[r].user = u /\ HouseholdOf(r) = h
    <3>1. founder[h] # Nobody
      BY <2>2, TargetFounded DEF Admits
    <3> QED
      BY <3>1 DEF Effect, RowsKept
  <2> QED
    BY <1>2, <2>1, <2>2 DEF Effect, RowsGained
<1> QED
  BY <1>1, <1>2

LEMMA ReadStaysKept == Inv /\ Effect => ReadStays'
<1> SUFFICES ASSUME Inv, Effect, NEW r \in Joins, joins'[r].phase \in {"checked", "flushed"}
             PROVE  /\ joins'[r].found # "none"
                          => status'[HouseholdOf(r)'][joins'[r].user] # "none"
                    /\ status'[HouseholdOf(r)'][joins'[r].user] # "none"
                          => joins'[r].found # "none" \/ Rival(r)'
  BY DEF ReadStays
<1>1. JoinStep(r)
  BY DEF Effect
<1>2. joins[r].phase \in {"read", "checked", "flushed"}
  BY <1>1 DEF JoinStep, Admits
<1>3. /\ joins'[r].user = joins[r].user /\ HouseholdOf(r)' = HouseholdOf(r)
      /\ HouseholdOf(r) \in Households /\ joins[r].user \in Users
  BY <1>2, TargetKept, Targets DEF Inv
<1>4. CASE joins[r].phase = "read"
  BY <1>1, <1>3, <1>4 DEF JoinStep, Admits
<1>5. CASE joins[r].phase \in {"checked", "flushed"}
  <2>1. joins'[r].found = joins[r].found
    BY <1>1, <1>5 DEF JoinStep
  <2>2. CASE status[HouseholdOf(r)][joins[r].user] # "none"
    <3>1. status'[HouseholdOf(r)][joins[r].user] # "none"
      BY <1>3, <2>2 DEF Effect, RowsKept
    <3>2. joins[r].found # "none" \/ Rival(r)
      BY <1>5, <2>2 DEF Inv, ReadStays
    <3> QED
      BY <1>3, <1>5, <2>1, <3>1, <3>2, RivalKept
  <2>3. CASE status[HouseholdOf(r)][joins[r].user] = "none"
    <3>1. joins[r].found = "none"
      BY <1>5, <2>3 DEF Inv, ReadStays
    <3>2. ASSUME status'[HouseholdOf(r)][joins[r].user] # "none" PROVE Rival(r)'
      <4>1. founder[HouseholdOf(r)] # Nobody
        BY <1>2, TargetFounded
      <4>2. PICK s \in Joins : /\ Admits(s) /\ joins[s].user = joins[r].user
                               /\ HouseholdOf(s) = HouseholdOf(r)
        BY <1>3, <2>3, <3>2, <4>1 DEF Effect, RowsGained
      <4>3. s # r
        BY <4>2 DEF Admits
      <4>4. joins'[s].user = joins[s].user /\ HouseholdOf(s)' = HouseholdOf(s)
        BY <4>2, TargetKept DEF Admits
      <4> QED
        BY <1>3, <4>2, <4>3, <4>4 DEF Rival, Admits
    <3> QED
      BY <1>3, <2>1, <3>1, <3>2
  <2> QED
    BY <2>2, <2>3
<1> QED
  BY <1>2, <1>4, <1>5

LEMMA StaleStaysKept == Inv /\ Effect => StaleStays'
<1> SUFFICES ASSUME Inv, Effect, NEW r \in Joins, joins'[r].stale
             PROVE  joins'[r].phase \in {"sent", "refused"} /\ ~Valid(joins[r].invite)'
  BY DEF StaleStays
<1>1. JoinStep(r)
  BY DEF Effect
<1>2. CASE joins[r].phase = "unsent"
  <2>1. ~joins[r].stale
    BY <1>2 DEF Inv, StaleStays
  <2>2. /\ joins'[r].phase = "sent" /\ joins'[r].stale = ~Valid(joins'[r].invite)
        /\ UNCHANGED invites
    BY <1>1, <1>2, <2>1 DEF JoinStep, Admits
  <2> QED
    BY <2>2 DEF Valid
<1>3. CASE joins[r].phase # "unsent"
  <2>1. joins[r].stale /\ joins'[r].invite = joins[r].invite
    BY <1>3, TargetKept
  <2>2. joins[r].phase \in {"sent", "refused"} /\ ~Valid(joins[r].invite)
    BY <2>1 DEF Inv, StaleStays
  <2>3. joins[r].invite \in Invites /\ Exists(joins[r].invite)
    BY <1>3, Targets DEF Inv
  <2>4. invites'[joins[r].invite].usedBy # Nobody \/ invites'[joins[r].invite].expired
    BY <2>2, <2>3 DEF Effect, RowsKept, Valid
  <2>5. joins'[r].phase \in {"sent", "refused"}
    BY <1>1, <2>2 DEF JoinStep, Admits
  <2> QED
    BY <2>1, <2>4, <2>5 DEF Valid
<1> QED
  BY <1>2, <1>3

LEMMA FailsOnlyKept == Inv /\ Effect => FailsOnlyAgainstItself'
<1> SUFFICES ASSUME Inv, Effect, NEW r \in Joins, joins'[r].phase = "failed"
             PROVE  Rival(r)'
  BY DEF FailsOnlyAgainstItself, Rival
<1>1. JoinStep(r)
  BY DEF Effect
<1>2. CASE joins[r].phase = "failed"
  BY <1>2, RivalKept DEF Inv, FailsOnlyAgainstItself, Rival
<1>3. CASE joins[r].phase = "checked" /\ Collides(r)
  <2>1. Rival(r)
    BY <1>3 DEF Inv, ReadStays, Collides
  <2> QED
    BY <1>3, <2>1, RivalKept
<1> QED
  BY <1>1, <1>2, <1>3 DEF JoinStep, Admits

LEMMA UsedInviteKept == Inv /\ Effect => UsedInviteAdmits'
<1> SUFFICES ASSUME Inv, Effect, NEW i \in Invites, Exists(i)', invites'[i].usedBy # Nobody
             PROVE  status'[invites'[i].household][invites'[i].usedBy] # "none"
  BY DEF UsedInviteAdmits
<1>1. Exists(i)
  BY DEF Effect, RowsGained
<1>2. /\ invites[i].household \in Households /\ invites[i].usedBy \in Users \union {Nobody}
      /\ invites'[i].household = invites[i].household
  BY <1>1, InvitesExist DEF Inv, Invite, Effect, RowsKept
<1>3. CASE invites'[i].usedBy = invites[i].usedBy
  BY <1>1, <1>2, <1>3 DEF Inv, UsedInviteAdmits, Effect, RowsKept
<1>4. CASE invites'[i].usedBy # invites[i].usedBy
  <2>1. PICK r \in Joins : Admits(r) /\ joins[r].invite = i /\ invites'[i].usedBy = joins[r].user
    BY <1>1, <1>4 DEF Effect, RowsGained
  <2>2. HouseholdOf(r) = invites[i].household /\ joins[r].user \in Users
    BY <2>1, Targets DEF HouseholdOf, Admits, Inv
  <2>3. joins[r].found = "active" \/ status'[HouseholdOf(r)][joins[r].user] # "none"
    BY <2>1 DEF Effect, JoinStep, Admits
  <2>4. joins[r].found = "active" => status[HouseholdOf(r)][joins[r].user] # "none"
    BY <2>1 DEF Inv, ReadStays, Admits
  <2> QED
    BY <1>2, <2>1, <2>2, <2>3, <2>4 DEF Effect, RowsKept
<1> QED
  BY <1>3, <1>4

LEMMA EveryMemberKept == Inv /\ Effect => EveryMemberWasInvited'
<1> SUFFICES ASSUME Inv, Effect, NEW h \in Households,
                    NEW S \in SUBSET (Members(h)' \ {founder'[h]}), S # {}
             PROVE  \E r \in Joins : /\ joins'[r].phase = "admitted"
                                     /\ joins'[r].user \in S
                                     /\ HouseholdOf(r)' = h
                                     /\ invites'[joins'[r].invite].by \in Members(h)' \ S
  BY DEF EveryMemberWasInvited
<1> DEFINE T == S \cap Members(h)
<1>1. Members(h) \subseteq Members(h)' /\ Members(h)' \subseteq Users
  BY DEF Members, Effect, RowsKept
<1>2. CASE T # {}
  <2>1. PICK v \in T : TRUE
    BY <1>2
  <2>2. founder'[h] = founder[h]
    BY <2>1 DEF Members, Inv, Founded, Effect, RowsKept
  <2>3. T \in SUBSET (Members(h) \ {founder[h]})
    BY <2>2
  <2>4. PICK r \in Joins : /\ joins[r].phase = "admitted" /\ joins[r].user \in T
                           /\ HouseholdOf(r) = h
                           /\ invites[joins[r].invite].by \in Members(h) \ T
    BY <1>2, <2>3 DEF Inv, EveryMemberWasInvited
  <2>5. /\ joins'[r].phase = "admitted" /\ joins'[r].user \in T /\ HouseholdOf(r)' = h
        /\ invites'[joins'[r].invite].by \in Members(h) \ T
    BY <2>4, TargetKept
  <2> QED
    BY <1>1, <2>5
<1>3. CASE T = {}
  <2>1. PICK v \in S : v \in Users /\ v # founder'[h] /\ status'[h][v] # "none"
    BY DEF Members
  <2>2. status[h][v] = "none"
    BY <1>3, <2>1 DEF Members
  <2>3. PICK r \in Joins : Admits(r) /\ joins[r].user = v /\ HouseholdOf(r) = h
    BY <2>1, <2>2 DEF Effect, RowsGained
  <2>4. /\ joins'[r].phase = "admitted" /\ joins'[r].user \in S /\ HouseholdOf(r)' = h
        /\ invites'[joins'[r].invite].by = invites[joins[r].invite].by
    BY <2>3, TargetKept DEF Admits
  <2>5. invites[joins[r].invite].by \in Members(h)
    BY <2>3, Targets DEF Admits, Inv, InvitedByMembers, Members
  <2> QED
    BY <1>1, <1>3, <2>4, <2>5
<1> QED
  BY <1>2, <1>3

LEMMA InvInit == Init => Inv
<1> SUFFICES ASSUME Init PROVE Inv
  OBVIOUS
<1>1. TypeOK /\ References
  BY TypesInit
<1>2. /\ \A i \in Invites : ~Exists(i)
      /\ \A h \in Households, u \in Users : status[h][u] = "none"
      /\ \A r \in Joins : joins[r].phase = "unsent" /\ joins[r].stale = FALSE
  BY DEF Init, Exists, NoJoin
<1>3. \A h \in Households : Members(h) = {}
  BY <1>2 DEF Members
<1> QED
  BY <1>1, <1>2, <1>3
  DEF Inv, InvitedByMembers, Founded, ReadStays, StaleStays, FailsOnlyAgainstItself,
      UsedInviteAdmits, EveryMemberWasInvited

LEMMA InvHolds == Spec => []Inv
<1>1. Inv /\ [Next]_vars => Inv'
  <2> SUFFICES ASSUME Inv, [Next]_vars PROVE Inv'
    OBVIOUS
  <2>1. Effect
    BY EveryStep DEF Inv
  <2>2. TypeOK'
    BY <2>1 DEF Effect
  <2>3. References'
    BY <2>1, ReferencesKept DEF Inv
  <2> QED
    BY <2>1, <2>2, <2>3, InvitedByMembersKept, FoundedKept, ReadStaysKept, StaleStaysKept,
       FailsOnlyKept, UsedInviteKept, EveryMemberKept
    DEF Inv
<1> QED
  BY <1>1, InvInit, PTL DEF Spec

-----------------------------------------------------------------------------

(* Every row and request keeps its type (api.py 291-359).                  *)
THEOREM TypeCorrect == Spec => []TypeOK
<1>1. Inv => TypeOK
  BY DEF Inv
<1> QED
  BY <1>1, InvHolds, PTL

(* Every membership goes back to the founder through invitations, so any   *)
(* set of members without the founder was let in by somebody outside it    *)
(* (api.py 314-359).                                                       *)
THEOREM MembersWereInvited == Spec => []EveryMemberWasInvited
<1>1. Inv => EveryMemberWasInvited
  BY DEF Inv
<1> QED
  BY <1>1, InvHolds, PTL

(* Who used an invitation has a membership (api.py 343-357).               *)
THEOREM InvitesAdmit == Spec => []UsedInviteAdmits
<1>1. Inv => UsedInviteAdmits
  BY DEF Inv
<1> QED
  BY <1>1, InvHolds, PTL

(* What was used or expired at sending admits nobody (api.py 335-342).     *)
THEOREM StaleInvitesRefused == Spec => []StaleInviteRefused
<1>1. Inv => StaleInviteRefused
  BY DEF Inv, StaleStays, StaleInviteRefused
<1> QED
  BY <1>1, InvHolds, PTL

(* A server error of the primary key has a rival that was admitted         *)
(* (api.py 343-357).                                                       *)
THEOREM FailuresHaveRivals == Spec => []FailsOnlyAgainstItself
<1>1. Inv => FailsOnlyAgainstItself
  BY DEF Inv
<1> QED
  BY <1>1, InvHolds, PTL
=============================================================================
