------------------------ MODULE OAuthProviderProofs ------------------------
(***************************************************************************)
(* Proofs about OAuthProvider for any number of accounts, households,      *)
(* clients, secrets and overlapping calls of the token endpoint.           *)
(***************************************************************************)
EXTENDS OAuthProvider, TLAPS

(* A code stands for a request that is gone, and goes to its client.       *)
RequestsDone ==
    \A k \in DOMAIN codes :
        /\ requests[codes[k].request].status = "deleted"
        /\ codes[k].client = requests[codes[k].request].client

(* What was exchanged for a pair cannot be exchanged again.                *)
SecretsSpent ==
    \A t \in DOMAIN tokens :
        /\ codes[tokens[t].login].used
        /\ tokens[t].from \in Codes =>
              tokens[t].from \in DOMAIN codes /\ codes[tokens[t].from].used
        /\ tokens[t].from \in Tokens =>
              /\ tokens[t].from \in DOMAIN tokens
              /\ tokens[tokens[t].from].refresh = "revoked"

(* The token endpoint holds secrets of the client that presented them.     *)
LoadedByOwner ==
    \A x \in Exchanges : exchange[x] # Idle =>
        /\ exchange[x].secret \in DOMAIN codes =>
              exchange[x].client = codes[exchange[x].secret].client
        /\ exchange[x].secret \in DOMAIN tokens =>
              exchange[x].client = tokens[exchange[x].secret].client

IInv ==
    /\ TypeOK /\ RequestsDone /\ SecretsSpent /\ LoadedByOwner
    /\ UsedOnce /\ OneRefreshPerLogin /\ GrantFollowsLogin

-----------------------------------------------------------------------------
(* What most steps leave of each table.                                    *)

KeepsRequests ==
    /\ DOMAIN requests \subseteq DOMAIN requests' /\ DOMAIN requests' \subseteq Requests
    /\ \A q \in DOMAIN requests' : requests'[q] \in Pending
    /\ \A q \in DOMAIN requests :
          /\ requests'[q].client = requests[q].client
          /\ requests[q].status = "deleted" => requests'[q].status = "deleted"

KeepsCodes ==
    /\ DOMAIN codes' = DOMAIN codes
    /\ \A k \in DOMAIN codes :
          /\ codes'[k] \in Code
          /\ codes'[k].request = codes[k].request /\ codes'[k].client = codes[k].client
          /\ codes'[k].user = codes[k].user /\ codes'[k].household = codes[k].household
          /\ codes[k].used => codes'[k].used

SamePair(t) ==
    /\ tokens'[t] \in Pair
    /\ tokens'[t].from = tokens[t].from /\ tokens'[t].login = tokens[t].login
    /\ tokens'[t].holder = tokens[t].holder /\ tokens'[t].client = tokens[t].client
    /\ tokens'[t].user = tokens[t].user /\ tokens'[t].household = tokens[t].household
    /\ tokens[t].refresh = "revoked" => tokens'[t].refresh = "revoked"

KeepsTokens ==
    /\ DOMAIN tokens' = DOMAIN tokens
    /\ \A t \in DOMAIN tokens : SamePair(t)

KeepsExchange(x) ==
    \/ exchange'[x] = exchange[x]
    \/ exchange'[x] = Idle
    \/ /\ exchange'[x].secret \in DOMAIN codes \union DOMAIN tokens
       /\ exchange'[x].secret \in DOMAIN codes =>
             exchange'[x].client = codes[exchange'[x].secret].client
       /\ exchange'[x].secret \in DOMAIN tokens =>
             exchange'[x].client = tokens[exchange'[x].secret].client

KeepsRest ==
    /\ members' \in [Users -> SUBSET Households]
    /\ clients' \subseteq Clients
    /\ changes' \in 0..MaxChanges
    /\ exchange' \in [Exchanges -> Loaded \union {Idle}]
    /\ \A x \in Exchanges : KeepsExchange(x)

(* An exchange that goes on or begins has a secret of its client.          *)
LEMMA ExchangeKept ==
    ASSUME IInv, KeepsRest,
           DOMAIN codes \subseteq DOMAIN codes', DOMAIN codes' \subseteq Codes,
           DOMAIN tokens \subseteq DOMAIN tokens', DOMAIN tokens' \subseteq Tokens,
           \A k \in DOMAIN codes : codes'[k].client = codes[k].client,
           \A t \in DOMAIN tokens : tokens'[t].client = tokens[t].client
    PROVE  /\ \A x \in Exchanges : exchange'[x] # Idle =>
                 exchange'[x].secret \in DOMAIN codes' \union DOMAIN tokens'
           /\ LoadedByOwner'
<1>1. ASSUME NEW x \in Exchanges, exchange'[x] # Idle
      PROVE  /\ exchange'[x].secret \in DOMAIN codes \union DOMAIN tokens
             /\ exchange'[x].secret \in DOMAIN codes =>
                   exchange'[x].client = codes[exchange'[x].secret].client
             /\ exchange'[x].secret \in DOMAIN tokens =>
                   exchange'[x].client = tokens[exchange'[x].secret].client
  BY <1>1 DEF KeepsRest, KeepsExchange, IInv, TypeOK, LoadedByOwner
<1>2. DOMAIN codes \subseteq Codes /\ DOMAIN tokens \subseteq Tokens
  BY DEF IInv, TypeOK
<1> QED
  BY <1>1, <1>2, SecretsAssumption DEF LoadedByOwner

(* A step that adds no code and no token keeps the invariant.              *)
LEMMA Keep ==
    ASSUME IInv, KeepsRequests, KeepsCodes, KeepsTokens, KeepsRest
    PROVE  IInv'
<1>1. /\ DOMAIN codes \subseteq Codes /\ DOMAIN tokens \subseteq Tokens
      /\ \A k \in DOMAIN codes : codes[k].request \in DOMAIN requests
      /\ \A t \in DOMAIN tokens : tokens[t].login \in DOMAIN codes
  BY DEF IInv, TypeOK
<1>2. /\ \A x \in Exchanges : exchange'[x] # Idle =>
            exchange'[x].secret \in DOMAIN codes' \union DOMAIN tokens'
      /\ LoadedByOwner'
  BY <1>1, ExchangeKept DEF KeepsCodes, KeepsTokens, SamePair
<1>3. TypeOK'
  BY <1>1, <1>2 DEF TypeOK, KeepsRequests, KeepsCodes, KeepsTokens, SamePair, KeepsRest
<1>4. RequestsDone'
  BY <1>1 DEF IInv, RequestsDone, KeepsRequests, KeepsCodes
<1>5. SecretsSpent'
  BY <1>1 DEF IInv, SecretsSpent, KeepsCodes, KeepsTokens, SamePair
<1>6. UsedOnce'
  BY DEF IInv, UsedOnce, KeepsCodes, KeepsTokens, SamePair
<1>7. OneRefreshPerLogin'
  BY DEF IInv, OneRefreshPerLogin, KeepsTokens, SamePair
<1>8. GrantFollowsLogin'
  BY <1>1 DEF IInv, GrantFollowsLogin, KeepsRequests, KeepsCodes, KeepsTokens, SamePair
<1> QED
  BY <1>2, <1>3, <1>4, <1>5, <1>6, <1>7, <1>8 DEF IInv

(* What a step keeps that leaves a table alone.                            *)
LEMMA Unchanged ==
    ASSUME IInv
    PROVE  /\ UNCHANGED requests => KeepsRequests
           /\ UNCHANGED codes => KeepsCodes
           /\ UNCHANGED tokens => KeepsTokens
           /\ UNCHANGED <<members, clients, exchange, changes>> => KeepsRest
BY DEF IInv, TypeOK, KeepsRequests, KeepsCodes, KeepsTokens, SamePair, KeepsRest, KeepsExchange

(* An exchange that ends, whatever it did.                                 *)
LEMMA Ended ==
    ASSUME IInv, NEW x \in Exchanges, End(x), UNCHANGED <<members, clients, changes>>
    PROVE  KeepsRest
<1>1. exchange \in [Exchanges -> Loaded \union {Idle}]
  BY DEF IInv, TypeOK
<1> QED
  BY <1>1 DEF IInv, TypeOK, End, KeepsRest, KeepsExchange

(* A new pair, for a secret that is spent by the same step.                *)
LEMMA Issue ==
    ASSUME IInv, UNCHANGED requests, KeepsCodes, KeepsRest,
           NEW t \in Tokens \ DOMAIN tokens, NEW new \in Pair, new.login \in DOMAIN codes,
           DOMAIN tokens' = DOMAIN tokens \union {t}, tokens'[t] = new,
           \A s \in DOMAIN tokens : SamePair(s) /\ tokens[s].from # new.from,
           \A s \in DOMAIN tokens :
              tokens[s].login = new.login => tokens'[s].refresh = "revoked",
           codes'[new.login].used,
           new.from \in Codes => new.from \in DOMAIN codes /\ codes'[new.from].used,
           new.from \in Tokens =>
              new.from \in DOMAIN tokens /\ tokens'[new.from].refresh = "revoked",
           new.user = codes[new.login].user, new.household = codes[new.login].household,
           new.client = codes[new.login].client, new.holder = codes[new.login].client
    PROVE  IInv'
<1>1. /\ DOMAIN codes \subseteq Codes /\ DOMAIN tokens \subseteq Tokens
      /\ \A k \in DOMAIN codes : codes[k].request \in DOMAIN requests
      /\ \A s \in DOMAIN tokens : tokens[s].login \in DOMAIN codes
  BY DEF IInv, TypeOK
<1>2. /\ \A x \in Exchanges : exchange'[x] # Idle =>
            exchange'[x].secret \in DOMAIN codes' \union DOMAIN tokens'
      /\ LoadedByOwner'
  <2>1. /\ DOMAIN codes' = DOMAIN codes
        /\ \A k \in DOMAIN codes : codes'[k].client = codes[k].client
    BY DEF KeepsCodes
  <2>2. \A s \in DOMAIN tokens : tokens'[s].client = tokens[s].client
    BY DEF SamePair
  <2> QED
    BY <1>1, <2>1, <2>2, ExchangeKept
<1>3. TypeOK'
  BY <1>1, <1>2 DEF IInv, TypeOK, KeepsCodes, SamePair, KeepsRest
<1>4. RequestsDone'
  BY <1>1 DEF IInv, RequestsDone, KeepsCodes
<1>5. SecretsSpent'
  <2>1. ASSUME NEW s \in DOMAIN tokens
        PROVE  /\ codes'[tokens'[s].login].used
               /\ tokens'[s].from \in Codes =>
                     tokens'[s].from \in DOMAIN codes' /\ codes'[tokens'[s].from].used
               /\ tokens'[s].from \in Tokens =>
                     /\ tokens'[s].from \in DOMAIN tokens'
                     /\ tokens'[tokens'[s].from].refresh = "revoked"
    BY <1>1, <2>1 DEF IInv, SecretsSpent, KeepsCodes, SamePair
  <2> QED
    BY <2>1 DEF SecretsSpent, KeepsCodes
<1>6. UsedOnce'
  BY DEF IInv, UsedOnce, KeepsCodes, SamePair
<1>7. OneRefreshPerLogin'
  BY DEF IInv, OneRefreshPerLogin, SamePair
<1>8. GrantFollowsLogin'
  <2>1. \A k \in DOMAIN codes : /\ codes[k].client = requests[codes[k].request].client
                                /\ codes'[k].client = codes[k].client
                                /\ codes'[k].user = codes[k].user
                                /\ codes'[k].household = codes[k].household
                                /\ codes'[k].request = codes[k].request
    BY DEF IInv, RequestsDone, KeepsCodes
  <2>2. \A s \in DOMAIN tokens : /\ tokens'[s].login = tokens[s].login
                                 /\ tokens'[s].user = tokens[s].user
                                 /\ tokens'[s].household = tokens[s].household
                                 /\ tokens'[s].client = tokens[s].client
                                 /\ tokens'[s].holder = tokens[s].holder
    BY DEF SamePair
  <2> QED
    BY <1>1, <2>1, <2>2 DEF IInv, GrantFollowsLogin
<1> QED
  BY <1>2, <1>3, <1>4, <1>5, <1>6, <1>7, <1>8 DEF IInv

-----------------------------------------------------------------------------
(* One lemma per action.                                                   *)

LEMMA KeepInit == Init => IInv
<1> SUFFICES ASSUME Init PROVE IInv
  OBVIOUS
<1>1. DOMAIN requests = {} /\ DOMAIN codes = {} /\ DOMAIN tokens = {}
  BY DEF Init
<1>2. 0 \in 0..MaxChanges
  BY SecretsAssumption
<1> QED
  BY <1>1, <1>2 DEF Init, IInv, TypeOK, RequestsDone, SecretsSpent, LoadedByOwner,
                    UsedOnce, OneRefreshPerLogin, GrantFollowsLogin

LEMMA KeepMembership ==
    ASSUME IInv, NEW u \in Users, NEW h \in Households, ChangeMembership(u, h)
    PROVE  IInv'
<1>1. KeepsRest
  <2>1. changes' \in 0..MaxChanges
    BY SecretsAssumption DEF ChangeMembership, IInv, TypeOK
  <2> QED
    BY <2>1 DEF ChangeMembership, IInv, TypeOK, KeepsRest, KeepsExchange
<1> QED
  BY <1>1, Unchanged, Keep DEF ChangeMembership

LEMMA KeepRegister ==
    ASSUME IInv, NEW c \in Clients, Register(c)
    PROVE  IInv'
<1>1. KeepsRest
  BY DEF Register, IInv, TypeOK, KeepsRest, KeepsExchange
<1> QED
  BY <1>1, Unchanged, Keep DEF Register

LEMMA KeepAuthorize ==
    ASSUME IInv, NEW c \in Clients, NEW q \in Requests, Authorize(c, q)
    PROVE  IInv'
<1>1. KeepsRequests
  <2> DEFINE row == [client |-> c, status |-> "pending"]
  <2>1. row \in Pending
    BY DEF Pending
  <2> HIDE DEF row
  <2>2. requests' = Put(requests, q, row) /\ q \notin DOMAIN requests
    BY DEF Authorize, row
  <2>3. /\ DOMAIN requests' = DOMAIN requests \union {q} /\ requests'[q] = row
        /\ \A p \in DOMAIN requests : requests'[p] = requests[p]
    BY <2>2 DEF Put
  <2> QED
    BY <2>1, <2>3 DEF IInv, TypeOK, KeepsRequests
<1> QED
  BY <1>1, Unchanged, Keep DEF Authorize

(* The code of a request that was pending is the first for it.             *)
LEMMA KeepComplete ==
    ASSUME IInv, NEW q \in Requests, NEW u \in Users, NEW k \in Codes, Complete(q, u, k)
    PROVE  IInv'
<1>1. PICK h \in Households : codes' = Put(codes, k, NewCode(q, u, h))
  BY DEF Complete
<1> DEFINE row == NewCode(q, u, h)
<1>2. /\ q \in DOMAIN requests /\ requests[q].status = "pending" /\ k \notin DOMAIN codes
      /\ requests' = [requests EXCEPT ![q].status = "deleted"]
      /\ UNCHANGED <<members, clients, tokens, exchange, changes>>
  BY DEF Complete
<1>3. /\ row \in Code /\ row.request = q /\ row.client = requests[q].client
  BY <1>2 DEF NewCode, Code, IInv, TypeOK, Pending
<1>4. /\ DOMAIN codes' = DOMAIN codes \union {k} /\ codes'[k] = row
      /\ \A l \in DOMAIN codes : codes'[l] = codes[l]
  <2>1. codes' = Put(codes, k, row)
    BY <1>1
  <2> HIDE DEF row
  <2> QED
    BY <1>2, <2>1 DEF Put
<1> HIDE DEF row
<1>5. /\ KeepsRequests /\ DOMAIN requests' = DOMAIN requests
      /\ requests'[q].status = "deleted"
  BY <1>2 DEF IInv, TypeOK, Pending, KeepsRequests
<1>6. \A l \in DOMAIN codes : codes[l].request # q
  BY <1>2 DEF IInv, RequestsDone
<1>7. KeepsRest /\ KeepsTokens
  BY <1>2, Unchanged
<1>8. /\ DOMAIN codes \subseteq Codes /\ DOMAIN tokens \subseteq Tokens
      /\ \A l \in DOMAIN codes : codes[l] \in Code /\ codes[l].request \in DOMAIN requests
      /\ \A t \in DOMAIN tokens : tokens[t].login \in DOMAIN codes
  BY DEF IInv, TypeOK
<1>9. /\ \A x \in Exchanges : exchange'[x] # Idle =>
            exchange'[x].secret \in DOMAIN codes' \union DOMAIN tokens'
      /\ LoadedByOwner'
  BY <1>2, <1>4, <1>7, <1>8, ExchangeKept
<1>10. TypeOK'
  BY <1>2, <1>3, <1>4, <1>5, <1>7, <1>8, <1>9 DEF IInv, TypeOK, KeepsRequests, KeepsRest
<1>11. RequestsDone'
  BY <1>2, <1>3, <1>4, <1>5, <1>8 DEF IInv, RequestsDone, KeepsRequests
<1>12. SecretsSpent'
  BY <1>2, <1>4, <1>8 DEF IInv, SecretsSpent
<1>13. UsedOnce'
  BY <1>2, <1>3, <1>4, <1>6 DEF IInv, UsedOnce
<1>14. OneRefreshPerLogin'
  BY <1>2 DEF IInv, OneRefreshPerLogin
<1>15. GrantFollowsLogin'
  BY <1>2, <1>4, <1>5, <1>8 DEF IInv, GrantFollowsLogin, KeepsRequests
<1> QED
  BY <1>9, <1>10, <1>11, <1>12, <1>13, <1>14, <1>15 DEF IInv

LEMMA KeepLoad ==
    ASSUME IInv, NEW x \in Exchanges, NEW c \in Clients, NEW secret, Load(x, c, secret),
           \/ secret \in DOMAIN codes /\ codes[secret].client = c
           \/ secret \in DOMAIN tokens /\ tokens[secret].client = c
    PROVE  IInv'
<1> DEFINE what == [secret |-> secret, client |-> c]
<1>1. DOMAIN codes \subseteq Codes /\ DOMAIN tokens \subseteq Tokens
  BY DEF IInv, TypeOK
<1>2. what \in Loaded /\ what.secret = secret /\ what.client = c
  BY <1>1 DEF Loaded
<1>3. exchange' = [exchange EXCEPT ![x] = what]
  BY DEF Load
<1> HIDE DEF what
<1>4. KeepsRest
  <2>1. secret \in DOMAIN codes => secret \notin DOMAIN tokens
    BY <1>1, SecretsAssumption
  <2>2. exchange \in [Exchanges -> Loaded \union {Idle}]
    BY DEF IInv, TypeOK
  <2>3. /\ exchange' \in [Exchanges -> Loaded \union {Idle}]
        /\ exchange'[x] = what
        /\ \A y \in Exchanges : y # x => exchange'[y] = exchange[y]
    BY <1>2, <1>3, <2>2
  <2>4. \A y \in Exchanges : KeepsExchange(y)
    BY <1>2, <2>1, <2>3 DEF KeepsExchange
  <2> QED
    BY <2>3, <2>4 DEF Load, IInv, TypeOK, KeepsRest
<1> QED
  BY <1>4, Unchanged, Keep DEF Load

(* An exchange whose secret is a code, or a refresh token, has loaded it.  *)
LEMMA LoadedSecret ==
    ASSUME IInv, NEW x \in Exchanges, exchange[x].secret \in Codes \union Tokens
    PROVE  /\ exchange[x] \in Loaded
           /\ exchange[x].secret \in Codes =>
                 /\ exchange[x].secret \in DOMAIN codes
                 /\ exchange[x].client = codes[exchange[x].secret].client
           /\ exchange[x].secret \in Tokens =>
                 /\ exchange[x].secret \in DOMAIN tokens
                 /\ exchange[x].client = tokens[exchange[x].secret].client
<1>1. exchange[x] # Idle
  BY SecretsAssumption DEF Idle
<1> QED
  BY <1>1, SecretsAssumption DEF IInv, TypeOK, LoadedByOwner

LEMMA KeepLoadCode ==
    ASSUME IInv, NEW x \in Exchanges, NEW c \in Clients, NEW k \in Codes, LoadCode(x, c, k)
    PROVE  IInv'
BY KeepLoad DEF LoadCode

LEMMA KeepLoadRefresh ==
    ASSUME IInv, NEW x \in Exchanges, NEW c \in Clients, NEW t \in Tokens, LoadRefresh(x, c, t)
    PROVE  IInv'
BY KeepLoad DEF LoadRefresh

(* What is issued stands for the row that it is issued for.                *)
LEMMA IssuedPair ==
    ASSUME IInv, NEW x \in Exchanges, exchange[x] \in Loaded, NEW row, NEW login \in Codes,
           row.client \in Clients, row.user \in Users, row.household \in Households
    PROVE  LET new == IssuedFor(x, row, login)
           IN  /\ new \in Pair
               /\ new.from = exchange[x].secret /\ new.holder = exchange[x].client
               /\ new.login = login /\ new.client = row.client
               /\ new.user = row.user /\ new.household = row.household
BY DEF IssuedFor, Pair, Statuses, Loaded

LEMMA KeepExchangeCode ==
    ASSUME IInv, NEW x \in Exchanges, ExchangeCode(x)
    PROVE  IInv'
<1> DEFINE k == exchange[x].secret
<1>1. /\ k \in Codes /\ UNCHANGED requests
      /\ KeepsRest
  BY Ended DEF ExchangeCode
<1>2. /\ exchange[x] \in Loaded /\ k \in DOMAIN codes
      /\ exchange[x].client = codes[k].client
  BY <1>1, LoadedSecret
<1>3. CASE UNCHANGED <<codes, tokens>>
  BY <1>1, <1>3, Unchanged, Keep
<1>4. CASE /\ ~codes[k].used
           /\ codes' = [codes EXCEPT ![k].used = TRUE]
           /\ \E t \in Tokens \ DOMAIN tokens :
                 tokens' = Put(tokens, t, IssuedFor(x, codes[k], k))
  <2>1. PICK t \in Tokens \ DOMAIN tokens :
           tokens' = Put(tokens, t, IssuedFor(x, codes[k], k))
    BY <1>4
  <2> DEFINE new == IssuedFor(x, codes[k], k)
  <2>2. codes[k] \in Code
    BY <1>2 DEF IInv, TypeOK
  <2>3. /\ new \in Pair /\ new.from = k /\ new.holder = codes[k].client
        /\ new.login = k /\ new.client = codes[k].client
        /\ new.user = codes[k].user /\ new.household = codes[k].household
    BY <1>1, <1>2, <2>2, IssuedPair DEF Code
  <2>4. tokens' = Put(tokens, t, new)
    BY <2>1
  <2> HIDE DEF new
  <2>5. /\ DOMAIN tokens' = DOMAIN tokens \union {t} /\ tokens'[t] = new
        /\ \A s \in DOMAIN tokens : tokens'[s] = tokens[s]
    BY <2>4 DEF Put
  <2>6. KeepsCodes /\ codes'[k].used
    BY <1>2, <1>4, <2>2 DEF IInv, TypeOK, Code, KeepsCodes
  <2>7. \A s \in DOMAIN tokens : SamePair(s)
    BY <2>5 DEF IInv, TypeOK, SamePair
  <2>8. \A s \in DOMAIN tokens : tokens[s].from # k /\ tokens[s].login # k
    BY <1>1, <1>4 DEF IInv, SecretsSpent
  <2>9. k \notin Tokens
    BY <1>1, SecretsAssumption
  <2> HIDE DEF k
  <2> QED
    BY <1>1, <1>2, <2>3, <2>5, <2>6, <2>7, <2>8, <2>9, Issue
<1> QED
  BY <1>3, <1>4 DEF ExchangeCode

LEMMA KeepExchangeRefresh ==
    ASSUME IInv, NEW x \in Exchanges, ExchangeRefresh(x)
    PROVE  IInv'
<1> DEFINE t == exchange[x].secret
<1>1. /\ t \in Tokens /\ UNCHANGED requests /\ UNCHANGED codes
      /\ KeepsRest
  BY Ended DEF ExchangeRefresh
<1>2. /\ exchange[x] \in Loaded /\ t \in DOMAIN tokens
      /\ exchange[x].client = tokens[t].client
  BY <1>1, LoadedSecret
<1>3. CASE UNCHANGED tokens
  BY <1>1, <1>3, Unchanged, Keep
<1>4. CASE /\ StillValid(t)
           /\ \E s \in Tokens \ DOMAIN tokens :
                 tokens' = Put(Rotated(t), s, IssuedFor(x, tokens[t], tokens[t].login))
  <2>1. PICK s \in Tokens \ DOMAIN tokens :
           tokens' = Put(Rotated(t), s, IssuedFor(x, tokens[t], tokens[t].login))
    BY <1>4
  <2> DEFINE new == IssuedFor(x, tokens[t], tokens[t].login)
             k == tokens[t].login
  <2>2. tokens[t] \in Pair /\ k \in DOMAIN codes /\ k \in Codes
    BY <1>2 DEF IInv, TypeOK
  <2>3. /\ new \in Pair /\ new.from = t /\ new.holder = tokens[t].client
        /\ new.login = k /\ new.client = tokens[t].client
        /\ new.user = tokens[t].user /\ new.household = tokens[t].household
    BY <1>2, <2>2, IssuedPair DEF Pair
  <2>4. tokens' = Put(Rotated(t), s, new)
    BY <2>1
  <2> HIDE DEF new
  <2>5. /\ DOMAIN tokens' = DOMAIN tokens \union {s} /\ tokens'[s] = new
        /\ tokens'[t] = [tokens[t] EXCEPT !.refresh = "revoked"]
        /\ \A r \in DOMAIN tokens : r # t => tokens'[r] = tokens[r]
    BY <1>2, <2>4 DEF Put, Rotated
  <2>6. tokens'[t].refresh = "revoked" /\ SamePair(t)
    BY <2>2, <2>5 DEF Pair, Statuses, SamePair
  <2>7. \A r \in DOMAIN tokens : SamePair(r)
    BY <2>5, <2>6 DEF IInv, TypeOK, SamePair
  <2>8. \A r \in DOMAIN tokens : tokens[r].from # t
    BY <1>1, <1>4 DEF IInv, SecretsSpent, StillValid
  <2>9. \A r \in DOMAIN tokens : tokens[r].login = k => tokens'[r].refresh = "revoked"
    BY <1>2, <1>4, <2>5, <2>6 DEF IInv, OneRefreshPerLogin, StillValid
  <2>10. /\ KeepsCodes /\ codes'[k].used
    BY <1>1, <1>2, Unchanged DEF IInv, SecretsSpent
  <2>11. t \notin Codes
    BY <1>1, SecretsAssumption
  <2>12. /\ tokens[t].user = codes[k].user /\ tokens[t].household = codes[k].household
         /\ tokens[t].client = codes[k].client
    BY <1>2 DEF IInv, GrantFollowsLogin
  <2>13. /\ new.login \in DOMAIN codes /\ codes'[new.login].used
         /\ new.from \in DOMAIN tokens /\ new.from \notin Codes
         /\ tokens'[new.from].refresh = "revoked"
         /\ \A r \in DOMAIN tokens : SamePair(r) /\ tokens[r].from # new.from
         /\ \A r \in DOMAIN tokens :
               tokens[r].login = new.login => tokens'[r].refresh = "revoked"
    BY <1>2, <2>2, <2>3, <2>6, <2>7, <2>8, <2>9, <2>10, <2>11
  <2>14. /\ new.user = codes[new.login].user /\ new.household = codes[new.login].household
         /\ new.client = codes[new.login].client /\ new.holder = codes[new.login].client
    BY <2>3, <2>12
  <2> HIDE DEF k, t
  <2> QED
    BY <1>1, <2>3, <2>5, <2>10, <2>13, <2>14, Issue
<1> QED
  BY <1>3, <1>4 DEF ExchangeRefresh

LEMMA KeepRevoke ==
    ASSUME IInv, NEW c \in Clients, NEW t \in Tokens, Revoke(c, t)
    PROVE  IInv'
<1>1. KeepsTokens
  BY DEF Revoke, IInv, TypeOK, Pair, Statuses, KeepsTokens, SamePair
<1> QED
  BY <1>1, Unchanged, Keep DEF Revoke

LEMMA KeepExpire ==
    ASSUME IInv, Expire
    PROVE  IInv'
<1>1. CASE /\ \E q \in DOMAIN requests :
                 /\ requests[q].status = "pending"
                 /\ requests' = [requests EXCEPT ![q].status = "expired"]
           /\ UNCHANGED <<codes, tokens>>
  <2>1. KeepsRequests
    BY <1>1 DEF IInv, TypeOK, Pending, KeepsRequests
  <2> QED
    BY <1>1, <2>1, Unchanged, Keep DEF Expire
<1>2. CASE /\ \E k \in DOMAIN codes : codes' = [codes EXCEPT ![k].expired = TRUE]
           /\ UNCHANGED <<requests, tokens>>
  <2>1. PICK k \in DOMAIN codes : codes' = [codes EXCEPT ![k].expired = TRUE]
    BY <1>2
  <2>2. codes[k] \in Code /\ \A l \in DOMAIN codes : codes[l] \in Code
    BY DEF IInv, TypeOK
  <2>3. /\ DOMAIN codes' = DOMAIN codes
        /\ codes'[k] = [codes[k] EXCEPT !.expired = TRUE]
        /\ \A l \in DOMAIN codes : l # k => codes'[l] = codes[l]
    BY <2>1
  <2>4. /\ codes'[k] \in Code /\ codes'[k].used = codes[k].used
        /\ codes'[k].request = codes[k].request /\ codes'[k].client = codes[k].client
        /\ codes'[k].user = codes[k].user /\ codes'[k].household = codes[k].household
    BY <2>2, <2>3 DEF Code
  <2>5. KeepsCodes
    BY <2>2, <2>3, <2>4 DEF KeepsCodes
  <2> QED
    BY <1>2, <2>5, Unchanged, Keep DEF Expire
<1>3. CASE /\ \E t \in DOMAIN tokens :
                 \/ /\ tokens[t].access = "live"
                    /\ tokens' = [tokens EXCEPT ![t].access = "expired"]
                 \/ /\ tokens[t].refresh = "live"
                    /\ tokens' = [tokens EXCEPT ![t].refresh = "expired"]
           /\ UNCHANGED <<requests, codes>>
  <2>1. KeepsTokens
    BY <1>3 DEF IInv, TypeOK, Pair, Statuses, KeepsTokens, SamePair
  <2> QED
    BY <1>3, <2>1, Unchanged, Keep DEF Expire
<1> QED
  BY <1>1, <1>2, <1>3 DEF Expire

LEMMA KeepNext == IInv /\ [Next]_vars => IInv'
<1> SUFFICES ASSUME IInv, [Next]_vars PROVE IInv'
  OBVIOUS
<1>1. CASE UNCHANGED vars
  BY <1>1, Unchanged, Keep DEF vars
<1>2. CASE Next
  BY <1>2, KeepMembership, KeepRegister, KeepAuthorize, KeepComplete, KeepLoadCode,
     KeepLoadRefresh, KeepExchangeCode, KeepExchangeRefresh, KeepRevoke, KeepExpire DEF Next
<1> QED
  BY <1>1, <1>2

-----------------------------------------------------------------------------
(* The strengthening is an invariant of the provider.                      *)
THEOREM Inductive == Spec => []IInv
BY KeepInit, KeepNext, PTL DEF Spec

(* The tables only hold rows of their type that refer to existing rows.    *)
THEOREM TypeCorrect == Spec => []TypeOK
<1>1. IInv => TypeOK
  BY DEF IInv
<1> QED
  BY <1>1, Inductive, PTL

(* No request, code or refresh token is used twice, however many calls of  *)
(* the token endpoint overlap.                                             *)
THEOREM SecretsAreUsedOnce == Spec => []UsedOnce
<1>1. IInv => UsedOnce
  BY DEF IInv
<1> QED
  BY <1>1, Inductive, PTL

(* A login never has two refresh tokens that have not been revoked.        *)
THEOREM RotationLeavesOne == Spec => []OneRefreshPerLogin
<1>1. IInv => OneRefreshPerLogin
  BY DEF IInv
<1> QED
  BY <1>1, Inductive, PTL

(* No refresh changes what a token stands for or who holds it.             *)
THEOREM GrantsNeverDrift == Spec => []GrantFollowsLogin
<1>1. IInv => GrantFollowsLogin
  BY DEF IInv
<1> QED
  BY <1>1, Inductive, PTL

(* A step that gives new tokens starts from an unused code or from a       *)
(* refresh token of the same login that has not been revoked.              *)
THEOREM RevocationIsFinal == Spec => RevocationEndsLogin
<1> DEFINE Gives(t) == LET k == tokens'[t].login
                       IN  \/ ~codes[k].used
                           \/ \E s \in DOMAIN tokens :
                                 tokens[s].login = k /\ tokens[s].refresh # "revoked"
<1>1. ASSUME IInv, [Next]_vars, NEW t \in DOMAIN tokens' \ DOMAIN tokens
      PROVE  Gives(t)
  <2>1. CASE \E x \in Exchanges : ExchangeCode(x)
    <3>1. PICK x \in Exchanges : ExchangeCode(x)
      BY <2>1
    <3> DEFINE k == exchange[x].secret
    <3>2. ~codes[k].used /\ \E s \in Tokens : tokens' = Put(tokens, s, IssuedFor(x, codes[k], k))
      BY <1>1, <3>1 DEF ExchangeCode
    <3>3. IssuedFor(x, codes[k], k).login = k
      BY DEF IssuedFor
    <3>4. tokens'[t].login = k
      BY <1>1, <3>2, <3>3 DEF Put
    <3> QED
      BY <3>2, <3>4
  <2>2. CASE \E x \in Exchanges : ExchangeRefresh(x)
    <3>1. PICK x \in Exchanges : ExchangeRefresh(x)
      BY <2>2
    <3> DEFINE s == exchange[x].secret
    <3>2. /\ StillValid(s) /\ s \in Tokens
          /\ \E r \in Tokens :
                tokens' = Put(Rotated(s), r, IssuedFor(x, tokens[s], tokens[s].login))
      BY <1>1, <3>1 DEF ExchangeRefresh
    <3>3. IssuedFor(x, tokens[s], tokens[s].login).login = tokens[s].login
      BY DEF IssuedFor
    <3>4. tokens'[t].login = tokens[s].login
      BY <1>1, <3>2, <3>3 DEF Put, Rotated
    <3>5. s \in DOMAIN tokens
      BY <1>1, <3>2, LoadedSecret
    <3> QED
      BY <3>2, <3>4, <3>5 DEF StillValid
  <2>3. CASE ~\E x \in Exchanges : ExchangeCode(x) \/ ExchangeRefresh(x)
    <3>1. DOMAIN tokens' = DOMAIN tokens
      BY <1>1, <2>3 DEF Next, vars, ChangeMembership, Register, Authorize, Complete, Load,
                        LoadCode, LoadRefresh, Revoke, Expire
    <3> QED
      BY <1>1, <3>1
  <2> QED
    BY <2>1, <2>2, <2>3
<1>2. IInv /\ [Next]_vars => [\A t \in DOMAIN tokens' \ DOMAIN tokens : Gives(t)]_vars
  BY <1>1
<1> QED
  BY <1>2, Inductive, PTL DEF Spec, RevocationEndsLogin
=============================================================================
