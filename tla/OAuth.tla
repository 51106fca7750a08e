------------------------------- MODULE OAuth -------------------------------
(***************************************************************************)
(* The gateway's OAuth endpoints (src/routes/oauth.ts,                     *)
(* src/plugins/oauth.ts, src/utils/pkce.ts): authorization codes with PKCE *)
(* kept in a Map, the token endpoint, revocation, userinfo, and the timer  *)
(* that sweeps expired codes.                                              *)
(*                                                                         *)
(* No handler awaits anything between its reads and its writes of the      *)
(* Maps, so a request is one turn of the event loop and one action here;   *)
(* what interleaves are requests, sweeps, time and restarts.  A request    *)
(* that fails a check before anything is written is an error answer and    *)
(* leaves the state alone: the checks are the guards of the action that    *)
(* writes, in the handler's order.                                         *)
(***************************************************************************)
EXTENDS Naturals, FiniteSets

CONSTANTS
  Clients,      \* registered client ids (the plugin registers one)
  Stranger,     \* a client id that is not registered
  Uris,         \* the registered redirect URIs
  OtherUri,     \* one that is not
  Codes,        \* crypto.randomBytes: every authorization gets a fresh one
  Scopes,       \* scope texts, the two defaults among them
  Verifiers,
  Challenges,
  Derive,       \* Derive[v] is the S256 challenge of v
  CodeTTL,      \* five minutes, in ticks of Date.now()
  TokenTTL,     \* one hour, in seconds
  Second,       \* ticks in a second
  MaxNow,       \* bound: the clock stops here
  NoCode

ASSUME StrangersAssumption == Stranger \notin Clients /\ OtherUri \notin Uris
ASSUME DeriveAssumption == Derive \in [Verifiers -> Challenges]
ASSUME TimesAssumption ==
  /\ CodeTTL \in Nat /\ TokenTTL \in Nat /\ MaxNow \in Nat
  /\ Second \in Nat \ {0}

VARIABLES
  now,      \* Date.now()
  clerk,    \* CLERK_FRONTEND_API_URL is set
  grant,    \* the OAuthCode object made for each code
  codes,    \* the keys of OAUTH_STATE.codes; the value of c is grant[c]
  tokens,   \* the keys of OAUTH_STATE.tokens
  used,     \* history: the requests that were given a token for each code
  dropped,  \* history: codes lost with a process
  minted,   \* history: every access token signed so far
  revoked   \* history: tokens revoked, and not issued again since

codeVars  == <<grant, codes, used, dropped>>
tokenVars == <<tokens, minted, revoked>>
oauthVars == <<now, clerk, codeVars, tokenVars>>

AnyClient == Clients \cup {Stranger}
AnyUri    == Uris \cup {OtherUri}

\* sub, scope and iat are all that varies in a JWT: equal ones are equal texts
Tokens   == [sub : Clients, scope : Scopes, iat : 0 .. MaxNow \div Second]
Grants   == [client : Clients, uri : Uris, scope : Scopes,
             challenge : Challenges, issuedAt : 0 .. MaxNow]
Requests == [client : AnyClient, uri : AnyUri, verifier : Verifiers,
             at : 0 .. MaxNow]

ASSUME NoCodeAssumption == NoCode \notin Grants

OAuthTypeOK ==
  /\ now \in 0 .. MaxNow
  /\ clerk \in BOOLEAN
  /\ grant \in [Codes -> Grants \cup {NoCode}]
  /\ codes \in SUBSET Codes
  /\ tokens \in SUBSET Tokens
  /\ used \in [Codes -> SUBSET Requests]
  /\ dropped \in SUBSET Codes
  /\ minted \in SUBSET Tokens
  /\ revoked \in SUBSET Tokens

OAuthInit ==
  /\ now = 0
  /\ clerk \in BOOLEAN
  /\ grant = [c \in Codes |-> NoCode]
  /\ codes = {}
  /\ tokens = {}
  /\ used = [c \in Codes |-> {}]
  /\ dropped = {}
  /\ minted = {}
  /\ revoked = {}

Expired(c) == grant[c].issuedAt + CodeTTL < now

\* verifyPKCE; safeCompare throws on a challenge of equal length in characters
\* and unequal length in bytes, which refuses the request like a mismatch
PKCEVerifies(v, challenge) == Derive[v] = challenge

\* mutated form: iat in milliseconds, as Date.now() gives it
JWTInTicks(subject, scope) == [sub |-> subject, scope |-> scope, iat |-> now]

\* the token issueAccessToken signs: iat is in whole seconds
JWT(subject, scope) ==
  [sub |-> subject, scope |-> scope, iat |-> now \div Second]

Issue(t) ==
  /\ tokens' = tokens \cup {t}
  /\ minted' = minted \cup {t}
  /\ revoked' = revoked \ {t}

\* jwtVerify before GET /auth/userinfo: signed here and not past exp; the
\* tokens Map is not consulted
Verifies(t) == t \in minted /\ now <= (t.iat + TokenTTL) * Second

\* the checks of the token endpoint on a stored code
BoundTo(c, client, uri, v) ==
  /\ client \in Clients
  /\ grant[c].client = client
  /\ grant[c].uri = uri
  /\ PKCEVerifies(v, grant[c].challenge)

-----------------------------------------------------------------------------
(* Mutated forms, used only to show that the properties can fail.          *)

\* the code is left to the timer
ExchangeLeavesCode(c, client, uri, v) ==
  /\ c \in codes /\ ~Expired(c)
  /\ BoundTo(c, client, uri, v)
  /\ used' = [used EXCEPT ![c] =
       @ \cup {[client |-> client, uri |-> uri, verifier |-> v, at |-> now]}]
  /\ Issue(JWT(client, grant[c].scope))
  /\ UNCHANGED <<now, clerk, grant, codes, dropped>>

\* the code is deleted as soon as it is looked up
RefuseConsumesCode(c, client, uri, v) ==
  /\ client \in Clients
  /\ c \in codes
  /\ ~BoundTo(c, client, uri, v)
  /\ codes' = codes \ {c}
  /\ UNCHANGED <<now, clerk, grant, used, dropped, tokenVars>>

\* the timer sweeps only once the Map has grown
SweepWhenCrowded ==
  /\ Cardinality(codes) > 1
  /\ codes' = {c \in codes : ~Expired(c)}
  /\ UNCHANGED <<now, clerk, grant, used, dropped, tokenVars>>

-----------------------------------------------------------------------------
(* GET /auth/authorize.                                                    *)

\* the checks of the handler and of the route's schema
Authorizable(client, uri, challengeGiven, isS256) ==
  client \in Clients /\ uri \in Uris /\ challengeGiven /\ isS256

\* with Clerk configured the browser is sent on and nothing is stored
AuthorizeIssuesCode(c, client, uri) ==
  /\ \E challengeGiven, isS256 \in BOOLEAN :
       Authorizable(client, uri, challengeGiven, isS256)
  /\ ~clerk
  /\ grant[c] = NoCode
  /\ \E scope \in Scopes, challenge \in Challenges :
       grant' = [grant EXCEPT ![c] =
         [client |-> client, uri |-> uri, scope |-> scope,
          challenge |-> challenge, issuedAt |-> now]]
  /\ codes' = codes \cup {c}
  /\ UNCHANGED <<now, clerk, used, dropped, tokenVars>>

-----------------------------------------------------------------------------
(* POST /auth/token.                                                       *)

\* grant_type "authorization_code", every check passed
ExchangeGrants(c, client, uri, v) ==
  /\ c \in codes /\ ~Expired(c)
  /\ BoundTo(c, client, uri, v)
  /\ codes' = codes \ {c}
  /\ used' = [used EXCEPT ![c] =
       @ \cup {[client |-> client, uri |-> uri, verifier |-> v, at |-> now]}]
  /\ Issue(JWT(client, grant[c].scope))
  /\ UNCHANGED <<now, clerk, grant, dropped>>

\* the code is found expired: deleted before it is compared with anything
ExchangeFindsExpired(c, client) ==
  /\ client \in Clients
  /\ c \in codes /\ Expired(c)
  /\ codes' = codes \ {c}
  /\ UNCHANGED <<now, clerk, grant, used, dropped, tokenVars>>

\* a live code presented by another client, with another redirect_uri, or with
\* a verifier that does not verify is refused and stays
ExchangeRefused(c, client, uri, v) ==
  /\ client \in Clients
  /\ c \in codes /\ ~Expired(c)
  /\ ~BoundTo(c, client, uri, v)
  /\ UNCHANGED oauthVars

\* grant_type "client_credentials"; no other grant_type has a branch
ClientCredentials(client, scope, secretOK) ==
  /\ client \in Clients
  /\ secretOK
  /\ Issue(JWT(client, scope))
  /\ UNCHANGED <<now, clerk, codeVars>>

-----------------------------------------------------------------------------
(* POST /auth/revoke, the timer, time and restarts.                        *)

\* any registered client may name any token
Revoke(t, client) ==
  /\ client \in Clients
  /\ tokens' = tokens \ {t}
  /\ revoked' = revoked \cup ({t} \cap minted)
  /\ UNCHANGED <<now, clerk, codeVars, minted>>

\* the setInterval callback
Sweep ==
  /\ codes' = {c \in codes : ~Expired(c)}
  /\ UNCHANGED <<now, clerk, grant, used, dropped, tokenVars>>

Tick ==
  /\ now < MaxNow
  /\ now' = now + 1
  /\ UNCHANGED <<clerk, codeVars, tokenVars>>

\* a new process has empty Maps; tokens of the old one still verify, because
\* the secret is the same
Restart ==
  /\ codes' = {}
  /\ tokens' = {}
  /\ dropped' = dropped \cup codes
  /\ UNCHANGED <<now, clerk, grant, used, minted, revoked>>

Authorize ==
  \E c \in Codes, client \in AnyClient, uri \in AnyUri :
    AuthorizeIssuesCode(c, client, uri)

Token ==
  \/ \E c \in Codes, client \in AnyClient :
       \/ \E uri \in AnyUri, v \in Verifiers :
            ExchangeGrants(c, client, uri, v) \/ ExchangeRefused(c, client, uri, v)
       \/ ExchangeFindsExpired(c, client)
  \/ \E client \in AnyClient, scope \in Scopes, secretOK \in BOOLEAN :
       ClientCredentials(client, scope, secretOK)

OAuthNext ==
  \/ Authorize \/ Token
  \/ \E t \in Tokens, client \in AnyClient : Revoke(t, client)
  \/ Sweep \/ Tick \/ Restart

OAuthSpec == OAuthInit /\ [][OAuthNext]_oauthVars

(* The timer fires again and again; nobody is obliged to send a request.   *)
OAuthFairSpec == OAuthSpec /\ WF_oauthVars(Sweep)

-----------------------------------------------------------------------------
Grant == INSTANCE OneTimeGrant WITH
  CodeIds <- Codes, Unbound <- NoCode, Lifetime <- CodeTTL, Proof <- Derive,
  Bindings <- Grants, Requests <- Requests,
  clock <- now, binding <- grant, exchanged <- used

\* Every exchange is one that the promise of a code allows: once, in time, by
\* the client, redirect URI and verifier the code is bound to; refused
\* requests, sweeps, restarts and their order change nothing about that
\* (routes/oauth.ts:176-224, plugins/oauth.ts:108-114).
ImplementsOneTimeGrant == Grant!GrantSpec

\* A code that has neither been exchanged nor expired nor been lost with a
\* process can still be exchanged: no refused attempt and no sweep takes it
\* from its owner, not even at the tick it expires at (routes/oauth.ts:189-208).
OpenCodeIsStored ==
  \A c \in Codes :
    grant[c] # NoCode /\ used[c] = {} /\ ~Expired(c) => c \in codes \cup dropped

\* An expired code leaves the Map, though nobody presents it again
\* (plugins/oauth.ts:108-114).
ExpiredCodesAreSwept ==
  \A c \in Codes : (c \in codes /\ Expired(c)) ~> (c \notin codes)

\* "revoke an access token (RFC 7009)" (routes/oauth.ts:273): a revoked token
\* is not accepted any more.
RevokedIsRefused == \A t \in revoked : ~Verifies(t)
=============================================================================
