--------------------------- MODULE OAuthProvider ---------------------------
(***************************************************************************)
(* The OAuth provider of the MCP gateway (oauth_provider.py): one login    *)
(* turns an authorization request into a code, the code is exchanged for   *)
(* an access and a refresh token, and a refresh token for the next pair.   *)
(*                                                                         *)
(* All handlers run on the gateway's event loop and never await inside a   *)
(* transaction, so each is one step.  The token endpoint calls two of      *)
(* them, load and exchange, and other handlers may run in between.  What   *)
(* a handler refuses changes nothing and is no step, except that it ends   *)
(* an exchange.  Secrets are ids, and so are the pairs of tokens: both     *)
(* rows of a pair, and the session of its access token, are added at once. *)
(***************************************************************************)
EXTENDS Naturals, FiniteSets

CONSTANTS
    Users, Households, Clients,
    Requests, Codes, Tokens,    \* secrets that can be drawn, each once
    Exchanges,                  \* calls of the token endpoint at a time
    MaxChanges                  \* bound: changes of memberships

ASSUME SecretsAssumption ==
    /\ Codes \cap Tokens = {} /\ "none" \notin Codes \union Tokens
    /\ MaxChanges \in Nat

VARIABLES
    members,    \* members[u]: the households u is an active member of
    clients,    \* registered clients
    requests,   \* requests[q]: an authorization request, also after its end
    codes,      \* codes[k]: an authorization code
    tokens,     \* tokens[t]: an access and a refresh token
    exchange,   \* exchange[x]: what the token endpoint has loaded
    changes     \* changes of memberships so far

vars == <<members, clients, requests, codes, tokens, exchange, changes>>

-----------------------------------------------------------------------------

Pending == [client : Clients, status : {"pending", "expired", "deleted"}]

Code == [request : Requests, client : Clients, user : Users, household : Households,
         used : BOOLEAN, expired : BOOLEAN]

(* from is what was exchanged for the pair, login the code its line of     *)
(* refresh tokens began with, holder the client that was handed it.        *)
Statuses == {"live", "expired", "revoked"}

Pair == [from : Codes \union Tokens, login : Codes, holder : Clients,
         client : Clients, user : Users, household : Households,
         access : Statuses, refresh : Statuses]

Idle == [secret |-> "none"]

Loaded == [secret : Codes \union Tokens, client : Clients]

Put(f, k, v) == [x \in DOMAIN f \union {k} |-> IF x = k THEN v ELSE f[x]]

Init ==
    /\ members \in [Users -> SUBSET Households]
    /\ clients = {}
    /\ requests = <<>> /\ codes = <<>> /\ tokens = <<>>
    /\ exchange = [x \in Exchanges |-> Idle]
    /\ changes = 0

(* Households are joined and left elsewhere.                               *)
ChangeMembership(u, h) ==
    /\ changes < MaxChanges
    /\ changes' = changes + 1
    /\ members' = [members EXCEPT ![u] = IF h \in @ THEN @ \ {h} ELSE @ \union {h}]
    /\ UNCHANGED <<clients, requests, codes, tokens, exchange>>

Register(c) ==
    /\ c \notin clients
    /\ clients' = clients \union {c}
    /\ UNCHANGED <<members, requests, codes, tokens, exchange, changes>>

Authorize(c, q) ==
    /\ c \in clients /\ q \notin DOMAIN requests
    /\ requests' = Put(requests, q, [client |-> c, status |-> "pending"])
    /\ UNCHANGED <<members, clients, codes, tokens, exchange, changes>>

(* Mutant of NewCode: the households of the account in place of the one.   *)
NewCodeForAll(q, u, h) ==
    [request |-> q, client |-> requests[q].client, user |-> u, household |-> members[u],
     used |-> FALSE, expired |-> FALSE]

NewCode(q, u, h) ==
    [request |-> q, client |-> requests[q].client, user |-> u, household |-> h,
     used |-> FALSE, expired |-> FALSE]

(* Mutant of Complete: the request is not deleted.                         *)
CompleteAndKeep(q, u, k) ==
    /\ q \in DOMAIN requests /\ requests[q].status = "pending"
    /\ k \notin DOMAIN codes
    /\ \E h \in Households :
          /\ members[u] = {h}
          /\ codes' = Put(codes, k, NewCode(q, u, h))
    /\ UNCHANGED <<members, clients, requests, tokens, exchange, changes>>

(* A login with the right password by somebody with exactly one household. *)
Complete(q, u, k) ==
    /\ q \in DOMAIN requests /\ requests[q].status = "pending"
    /\ k \notin DOMAIN codes
    /\ \E h \in Households :
          /\ members[u] = {h}
          /\ codes' = Put(codes, k, NewCode(q, u, h))
    /\ requests' = [requests EXCEPT ![q].status = "deleted"]
    /\ UNCHANGED <<members, clients, tokens, exchange, changes>>

Load(x, c, secret) ==
    /\ exchange[x] = Idle
    /\ exchange' = [exchange EXCEPT ![x] = [secret |-> secret, client |-> c]]
    /\ UNCHANGED <<members, clients, requests, codes, tokens, changes>>

(* Mutant of LoadCode: the client of the code is not compared.             *)
LoadAnyCode(x, c, k) ==
    /\ c \in clients /\ k \in DOMAIN codes
    /\ ~codes[k].used
    /\ Load(x, c, k)

(* The expiry is looked at by the exchange.                                *)
LoadCode(x, c, k) ==
    /\ c \in clients /\ k \in DOMAIN codes
    /\ ~codes[k].used /\ codes[k].client = c
    /\ Load(x, c, k)

LoadRefresh(x, c, t) ==
    /\ c \in clients /\ t \in DOMAIN tokens
    /\ tokens[t].refresh = "live" /\ tokens[t].client = c
    /\ Load(x, c, t)

End(x) == exchange' = [exchange EXCEPT ![x] = Idle]

(* _issue_tokens for the row the secret belongs to.                        *)
IssuedFor(x, row, login) ==
    [from |-> exchange[x].secret, login |-> login, holder |-> exchange[x].client,
     client |-> row.client, user |-> row.user, household |-> row.household,
     access |-> "live", refresh |-> "live"]

ExchangeCode(x) ==
    LET k == exchange[x].secret
        valid == ~codes[k].used /\ ~codes[k].expired
    IN
    /\ k \in Codes
    /\ End(x)
    /\ \/ ~valid /\ UNCHANGED <<codes, tokens>>
       \/ /\ valid
          /\ codes' = [codes EXCEPT ![k].used = TRUE]
          /\ \E t \in Tokens \ DOMAIN tokens :
                tokens' = Put(tokens, t, IssuedFor(x, codes[k], k))
    /\ UNCHANGED <<members, clients, requests, changes>>

(* Mutant of Rotated: the presented refresh token stays valid.             *)
NotRotated(t) == tokens

(* An exchange revokes the presented refresh token, not its access token.  *)
Rotated(t) == [tokens EXCEPT ![t].refresh = "revoked"]

(* Mutant of StillValid: what was loaded is trusted.                       *)
WasValid(t) == TRUE

(* The second look of the exchange, at the revocation only.                *)
StillValid(t) == tokens[t].refresh # "revoked"

ExchangeRefresh(x) ==
    LET t == exchange[x].secret
    IN
    /\ t \in Tokens
    /\ End(x)
    /\ \/ ~StillValid(t) /\ UNCHANGED tokens
       \/ /\ StillValid(t)
          /\ \E s \in Tokens \ DOMAIN tokens :
                tokens' = Put(Rotated(t), s, IssuedFor(x, tokens[t], tokens[t].login))
    /\ UNCHANGED <<members, clients, requests, codes, changes>>

(* Only the presented token is revoked, and only while it is valid.        *)
Revoke(c, t) ==
    /\ c \in clients /\ t \in DOMAIN tokens /\ tokens[t].client = c
    /\ \/ /\ tokens[t].access = "live"
          /\ tokens' = [tokens EXCEPT ![t].access = "revoked"]
       \/ /\ tokens[t].refresh = "live"
          /\ tokens' = [tokens EXCEPT ![t].refresh = "revoked"]
    /\ UNCHANGED <<members, clients, requests, codes, exchange, changes>>

(* Time passes: a request, a code or a token reaches its expires_at.       *)
Expire ==
    /\ \/ /\ \E q \in DOMAIN requests :
                /\ requests[q].status = "pending"
                /\ requests' = [requests EXCEPT ![q].status = "expired"]
          /\ UNCHANGED <<codes, tokens>>
       \/ /\ \E k \in DOMAIN codes :
                /\ ~codes[k].expired
                /\ codes' = [codes EXCEPT ![k].expired = TRUE]
          /\ UNCHANGED <<requests, tokens>>
       \/ /\ \E t \in DOMAIN tokens :
                \/ /\ tokens[t].access = "live"
                   /\ tokens' = [tokens EXCEPT ![t].access = "expired"]
                \/ /\ tokens[t].refresh = "live"
                   /\ tokens' = [tokens EXCEPT ![t].refresh = "expired"]
          /\ UNCHANGED <<requests, codes>>
    /\ UNCHANGED <<members, clients, exchange, changes>>

Next ==
    \/ \E u \in Users, h \in Households : ChangeMembership(u, h)
    \/ \E c \in Clients : Register(c)
    \/ \E c \in Clients, q \in Requests : Authorize(c, q)
    \/ \E q \in Requests, u \in Users, k \in Codes : Complete(q, u, k)
    \/ \E x \in Exchanges, c \in Clients, k \in Codes : LoadCode(x, c, k)
    \/ \E x \in Exchanges, c \in Clients, t \in Tokens : LoadRefresh(x, c, t)
    \/ \E x \in Exchanges : ExchangeCode(x) \/ ExchangeRefresh(x)
    \/ \E c \in Clients, t \in Tokens : Revoke(c, t)
    \/ Expire

Spec == Init /\ [][Next]_vars

-----------------------------------------------------------------------------

(* The rows have the columns of models.py and refer to rows that exist.    *)
TypeOK ==
    /\ members \in [Users -> SUBSET Households]
    /\ clients \subseteq Clients
    /\ DOMAIN requests \subseteq Requests
    /\ \A q \in DOMAIN requests : requests[q] \in Pending
    /\ DOMAIN codes \subseteq Codes
    /\ \A k \in DOMAIN codes : codes[k] \in Code /\ codes[k].request \in DOMAIN requests
    /\ DOMAIN tokens \subseteq Tokens
    /\ \A t \in DOMAIN tokens : tokens[t] \in Pair /\ tokens[t].login \in DOMAIN codes
    /\ exchange \in [Exchanges -> Loaded \union {Idle}]
    /\ \A x \in Exchanges :
          exchange[x] # Idle => exchange[x].secret \in DOMAIN codes \union DOMAIN tokens
    /\ changes \in 0..MaxChanges

(* Every secret is good for one use, however calls of the token endpoint   *)
(* overlap: a request gives one code, a code one pair of tokens, a refresh *)
(* token one next pair.                                                    *)
UsedOnce ==
    /\ \A k, l \in DOMAIN codes : codes[k].request = codes[l].request => k = l
    /\ \A t, s \in DOMAIN tokens : tokens[t].from = tokens[s].from => t = s

(* Refresh tokens rotate: of all that descend from one login, at most one  *)
(* has not been revoked.                                                   *)
OneRefreshPerLogin ==
    \A t, s \in DOMAIN tokens :
        /\ tokens[t].login = tokens[s].login
        /\ tokens[t].refresh # "revoked" /\ tokens[s].refresh # "revoked"
        => t = s

(* Through any number of refreshes a token stands for the account and the  *)
(* household of the login, whatever households the account has by now, and *)
(* is in the hands of the client whose request was confirmed.              *)
GrantFollowsLogin ==
    \A t \in DOMAIN tokens :
        LET k == tokens[t].login
        IN  /\ tokens[t].user = codes[k].user
            /\ tokens[t].household = codes[k].household
            /\ tokens[t].client = codes[k].client
            /\ tokens[t].holder = requests[codes[k].request].client

(* Once the code is used and the last refresh token of a login is revoked, *)
(* the login gives no more tokens, not even to an exchange that had loaded *)
(* the refresh token before.                                               *)
RevocationEndsLogin ==
    [][\A t \in DOMAIN tokens' \ DOMAIN tokens :
          LET k == tokens'[t].login
          IN  \/ ~codes[k].used
              \/ \E s \in DOMAIN tokens :
                    tokens[s].login = k /\ tokens[s].refresh # "revoked"]_vars
=============================================================================
