---------------------------- MODULE OAuth_proofs ----------------------------
(***************************************************************************)
(* Proofs about module OAuth, for any clients, codes, challenges, lifetimes *)
(* and any derivation of challenges from verifiers.                        *)
(***************************************************************************)
EXTENDS OAuth, TLAPS

USE StrangersAssumption, DeriveAssumption, TimesAssumption, NoCodeAssumption

\* Rounding down to whole seconds is monotonic.
LEMMA DivMonotonic ==
  ASSUME NEW a \in Nat, NEW b \in Nat, a <= b, NEW s \in Nat \ {0}
  PROVE  a \div s \in 0 .. b \div s
OBVIOUS

-----------------------------------------------------------------------------
(* Type correctness.                                                       *)

\* A token signed now is one of Tokens.
LEMMA JWTType ==
  ASSUME now \in 0 .. MaxNow, NEW client \in Clients, NEW scope \in Scopes
  PROVE  JWT(client, scope) \in Tokens
<1>1. now \div Second \in 0 .. MaxNow \div Second
  BY DivMonotonic
<1>2. QED BY <1>1 DEF JWT, Tokens

(* The type of the token an exchange issues depends on the code having been *)
(* issued, and that it is issued once on the code not having been used.     *)
CodeInv ==
  /\ \A c \in codes : grant[c] # NoCode /\ used[c] = {}
  /\ \A c \in Codes : grant[c] = NoCode => used[c] = {}

OAuthInv == OAuthTypeOK /\ CodeInv /\ OpenCodeIsStored

LEMMA OAuthInvInit == OAuthInit => OAuthInv
BY DEF OAuthInit, OAuthTypeOK, CodeInv, OpenCodeIsStored, OAuthInv

LEMMA OAuthTypeNext == OAuthTypeOK /\ CodeInv /\ [OAuthNext]_oauthVars => OAuthTypeOK'
<1> SUFFICES ASSUME OAuthTypeOK, CodeInv, [OAuthNext]_oauthVars PROVE OAuthTypeOK'
  OBVIOUS
<1> USE DEF OAuthTypeOK, codeVars, tokenVars
<1>1. ASSUME NEW c \in Codes, NEW client \in AnyClient, NEW uri \in AnyUri,
             AuthorizeIssuesCode(c, client, uri)
      PROVE  OAuthTypeOK'
  <2>1. client \in Clients /\ uri \in Uris
    BY <1>1 DEF AuthorizeIssuesCode, Authorizable
  <2>2. grant' \in [Codes -> Grants \cup {NoCode}]
    BY <1>1, <2>1 DEF AuthorizeIssuesCode, Grants
  <2>3. QED BY <1>1, <2>2 DEF AuthorizeIssuesCode
<1>2. ASSUME NEW c \in Codes, NEW client \in AnyClient, NEW uri \in AnyUri,
             NEW v \in Verifiers, ExchangeGrants(c, client, uri, v)
      PROVE  OAuthTypeOK'
  <2>1. client \in Clients /\ grant[c].scope \in Scopes
    BY <1>2 DEF ExchangeGrants, BoundTo, Grants, CodeInv
  <2>2. JWT(client, grant[c].scope) \in Tokens
    BY <2>1, JWTType
  <2>3. [client |-> client, uri |-> uri, verifier |-> v, at |-> now] \in Requests
    BY DEF Requests
  <2>4. used' \in [Codes -> SUBSET Requests]
    BY <1>2, <2>3 DEF ExchangeGrants
  <2>5. QED BY <1>2, <2>2, <2>4 DEF ExchangeGrants, Issue
<1>3. ASSUME NEW c \in Codes, NEW client \in AnyClient,
             ExchangeFindsExpired(c, client)
      PROVE  OAuthTypeOK'
  BY <1>3 DEF ExchangeFindsExpired
<1>4. ASSUME NEW client \in AnyClient, NEW scope \in Scopes, NEW secretOK,
             ClientCredentials(client, scope, secretOK)
      PROVE  OAuthTypeOK'
  <2>1. JWT(client, scope) \in Tokens
    BY <1>4, JWTType DEF ClientCredentials
  <2>2. QED BY <1>4, <2>1 DEF ClientCredentials, Issue
<1>5. ASSUME NEW t \in Tokens, NEW client \in AnyClient, Revoke(t, client)
      PROVE  OAuthTypeOK'
  BY <1>5 DEF Revoke
<1>6. CASE Sweep
  BY <1>6 DEF Sweep
<1>7. CASE Tick
  BY <1>7 DEF Tick
<1>8. CASE Restart
  BY <1>8 DEF Restart
<1>9. CASE UNCHANGED oauthVars
  BY <1>9 DEF oauthVars
<1>10. QED
  BY <1>1, <1>2, <1>3, <1>4, <1>5, <1>6, <1>7, <1>8, <1>9
     DEF OAuthNext, Authorize, Token, ExchangeRefused

-----------------------------------------------------------------------------
(* Codes in the Map.                                                       *)

LEMMA CodeInvNext == OAuthTypeOK /\ CodeInv /\ [OAuthNext]_oauthVars => CodeInv'
<1> SUFFICES ASSUME OAuthTypeOK, CodeInv, [OAuthNext]_oauthVars PROVE CodeInv'
  OBVIOUS
<1> USE DEF OAuthTypeOK, CodeInv, codeVars, tokenVars
<1>1. ASSUME NEW c \in Codes, NEW client \in AnyClient, NEW uri \in AnyUri,
             AuthorizeIssuesCode(c, client, uri)
      PROVE  CodeInv'
  <2>1. PICK g \in Grants : grant' = [grant EXCEPT ![c] = g]
    BY <1>1 DEF AuthorizeIssuesCode, Authorizable, Grants
  <2>2. QED BY <1>1, <2>1 DEF AuthorizeIssuesCode
<1>2. ASSUME NEW c \in Codes, NEW client \in AnyClient, NEW uri \in AnyUri,
             NEW v \in Verifiers, ExchangeGrants(c, client, uri, v)
      PROVE  CodeInv'
  BY <1>2 DEF ExchangeGrants
<1>3. ASSUME NEW c \in Codes, NEW client \in AnyClient,
             ExchangeFindsExpired(c, client)
      PROVE  CodeInv'
  BY <1>3 DEF ExchangeFindsExpired
<1>4. ASSUME UNCHANGED <<grant, used>>, codes' \subseteq codes PROVE CodeInv'
  BY <1>4
<1>5. QED
  BY <1>1, <1>2, <1>3, <1>4
     DEF OAuthNext, Authorize, Token, ExchangeRefused, ClientCredentials, Revoke,
         Sweep, Tick, Restart, oauthVars

LEMMA OpenNext ==
  OAuthTypeOK /\ CodeInv /\ OpenCodeIsStored /\ [OAuthNext]_oauthVars => OpenCodeIsStored'
<1> SUFFICES ASSUME OAuthTypeOK, CodeInv, OpenCodeIsStored, [OAuthNext]_oauthVars,
                    NEW d \in Codes,
                    grant'[d] # NoCode, used'[d] = {}, ~Expired(d)'
             PROVE  d \in codes' \cup dropped'
  BY DEF OpenCodeIsStored
<1> USE DEF OAuthTypeOK, codeVars, tokenVars
<1>a. ASSUME grant'[d] = grant[d], used'[d] = used[d], now' >= now
      PROVE  d \in codes \cup dropped /\ ~Expired(d)
  <2>1. grant[d] \in Grants
    BY <1>a
  <2>2. grant[d].issuedAt \in Nat
    BY <2>1 DEF Grants
  <2>3. ~Expired(d)
    BY <1>a, <2>2, OAuthTypeNext DEF Expired
  <2>4. QED BY <1>a, <2>3 DEF OpenCodeIsStored
<1>1. ASSUME NEW c \in Codes, NEW client \in AnyClient, NEW uri \in AnyUri,
             AuthorizeIssuesCode(c, client, uri)
      PROVE  d \in codes' \cup dropped'
  <2>1. CASE d = c
    BY <1>1, <2>1 DEF AuthorizeIssuesCode
  <2>2. CASE d # c
    <3>1. PICK g : grant' = [grant EXCEPT ![c] = g]
      BY <1>1 DEF AuthorizeIssuesCode
    <3>2. QED BY <1>1, <1>a, <2>2, <3>1 DEF AuthorizeIssuesCode
  <2>3. QED BY <2>1, <2>2
<1>2. ASSUME NEW c \in Codes, NEW client \in AnyClient, NEW uri \in AnyUri,
             NEW v \in Verifiers, ExchangeGrants(c, client, uri, v)
      PROVE  d \in codes' \cup dropped'
  <2>1. d # c /\ used'[d] = used[d]
    BY <1>2 DEF ExchangeGrants
  <2>2. QED BY <1>2, <1>a, <2>1 DEF ExchangeGrants
<1>3. ASSUME NEW c \in Codes, NEW client \in AnyClient,
             ExchangeFindsExpired(c, client)
      PROVE  d \in codes' \cup dropped'
  BY <1>3, <1>a DEF ExchangeFindsExpired
<1>4. ASSUME UNCHANGED <<now, codes, grant, used, dropped>>
      PROVE  d \in codes' \cup dropped'
  BY <1>4, <1>a
<1>5. CASE Sweep
  BY <1>5, <1>a DEF Sweep
<1>6. CASE Tick
  BY <1>6, <1>a DEF Tick
<1>7. CASE Restart
  BY <1>7, <1>a DEF Restart
<1>8. QED
  BY <1>1, <1>2, <1>3, <1>4, <1>5, <1>6, <1>7
     DEF OAuthNext, Authorize, Token, ExchangeRefused, ClientCredentials, Revoke, oauthVars

LEMMA OAuthInvNext == OAuthInv /\ [OAuthNext]_oauthVars => OAuthInv'
BY OAuthTypeNext, CodeInvNext, OpenNext DEF OAuthInv

LEMMA OAuthInvHolds == OAuthSpec => []OAuthInv
BY OAuthInvInit, OAuthInvNext, PTL DEF OAuthSpec

\* Every reachable state of the OAuth endpoints has the declared types.
THEOREM OAuthTypeCorrect == OAuthSpec => []OAuthTypeOK
BY OAuthInvHolds, PTL DEF OAuthInv

\* A code nobody has used stays available until it expires or its process ends.
THEOREM OpenCodeIsStoredHolds == OAuthSpec => []OpenCodeIsStored
BY OAuthInvHolds, PTL DEF OAuthInv

-----------------------------------------------------------------------------
(* The endpoints implement one-time grants.                                *)

LEMMA GrantRefinesInit == OAuthInit => Grant!GrantInit
BY DEF OAuthInit, Grant!GrantInit

LEMMA GrantRefinesNext == OAuthInv /\ [OAuthNext]_oauthVars => [Grant!GrantNext]_(Grant!grantVars)
<1> SUFFICES ASSUME OAuthInv, [OAuthNext]_oauthVars
             PROVE  Grant!GrantNext \/ UNCHANGED Grant!grantVars
  OBVIOUS
<1> USE DEF OAuthInv, OAuthTypeOK, codeVars, tokenVars
<1>1. ASSUME NEW c \in Codes, NEW client \in AnyClient, NEW uri \in AnyUri,
             AuthorizeIssuesCode(c, client, uri)
      PROVE  Grant!GrantNext
  <2>1. client \in Clients /\ uri \in Uris
    BY <1>1 DEF AuthorizeIssuesCode, Authorizable
  <2>2. PICK b \in Grants : /\ b.issuedAt = now
                            /\ grant' = [grant EXCEPT ![c] = b]
    BY <1>1, <2>1 DEF AuthorizeIssuesCode, Grants
  <2>3. Grant!Bind(c, b)
    BY <1>1, <2>2 DEF AuthorizeIssuesCode, Grant!Bind
  <2>4. QED BY <2>3 DEF Grant!GrantNext
<1>2. ASSUME NEW c \in Codes, NEW client \in AnyClient, NEW uri \in AnyUri,
             NEW v \in Verifiers, ExchangeGrants(c, client, uri, v)
      PROVE  Grant!GrantNext
  <2> DEFINE r == [client |-> client, uri |-> uri, verifier |-> v, at |-> now]
  <2>1. r \in Requests
    BY DEF Requests
  <2>2. grant[c] \in Grants /\ grant[c] # NoCode /\ used[c] = {}
    BY <1>2 DEF ExchangeGrants, CodeInv
  <2>3. used' = [used EXCEPT ![c] = {r}]
    BY <1>2, <2>2 DEF ExchangeGrants
  <2>4. now <= grant[c].issuedAt + CodeTTL
    BY <1>2, <2>2 DEF ExchangeGrants, Expired, Grants
  <2>5. Grant!Exchange(c, r)
    BY <1>2, <2>2, <2>3, <2>4
       DEF ExchangeGrants, BoundTo, PKCEVerifies, Grant!Exchange
  <2>6. QED BY <2>1, <2>5 DEF Grant!GrantNext
<1>3. CASE Tick
  <2>1. Grant!Pass
    BY <1>3 DEF Tick, Grant!Pass
  <2>2. QED BY <2>1 DEF Grant!GrantNext
<1>4. ASSUME UNCHANGED <<now, grant, used>> PROVE UNCHANGED Grant!grantVars
  BY <1>4 DEF Grant!grantVars
<1>5. QED
  BY <1>1, <1>2, <1>3, <1>4
     DEF OAuthNext, Authorize, Token, ExchangeRefused, ExchangeFindsExpired,
         ClientCredentials, Revoke, Sweep, Restart, oauthVars

\* Codes are exchanged once, in time and by the request they are bound to,
\* whatever sweeps, refusals and restarts come in between.
THEOREM OAuthImplementsOneTimeGrant == OAuthSpec => ImplementsOneTimeGrant
<1>1. OAuthInit /\ [][OAuthNext]_oauthVars /\ []OAuthInv => Grant!GrantSpec
  BY GrantRefinesInit, GrantRefinesNext, PTL DEF Grant!GrantSpec
<1>2. QED BY <1>1, OAuthInvHolds, PTL DEF OAuthSpec, ImplementsOneTimeGrant
=============================================================================
