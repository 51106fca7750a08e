---------------------------- MODULE OneTimeGrant ----------------------------
(***************************************************************************)
(* What an authorization code promises, with no store, no sweep, no error  *)
(* answers and no process: a code is bound once; and at most once, not     *)
(* after its lifetime and only by a request that matches the binding, it   *)
(* is exchanged for a token.                                               *)
(***************************************************************************)
EXTENDS Naturals

CONSTANTS
  CodeIds, Unbound,
  Bindings, Requests,
  Lifetime,   \* how long a code can be exchanged
  Proof       \* Proof[v] is the challenge a verifier v answers

VARIABLES
  clock,
  binding,    \* what each code is bound to, with its time of binding
  exchanged   \* the requests that were given a token for each code

grantVars == <<clock, binding, exchanged>>

GrantInit ==
  /\ clock = 0
  /\ binding = [c \in CodeIds |-> Unbound]
  /\ exchanged = [c \in CodeIds |-> {}]

Bind(c, b) ==
  /\ binding[c] = Unbound
  /\ b.issuedAt = clock
  /\ binding' = [binding EXCEPT ![c] = b]
  /\ UNCHANGED <<clock, exchanged>>

Exchange(c, r) ==
  LET b == binding[c]
  IN /\ b # Unbound
     /\ exchanged[c] = {}
     /\ r.at = clock /\ clock <= b.issuedAt + Lifetime
     /\ r.client = b.client
     /\ r.uri = b.uri
     /\ Proof[r.verifier] = b.challenge
     /\ exchanged' = [exchanged EXCEPT ![c] = {r}]
     /\ UNCHANGED <<clock, binding>>

Pass == clock' = clock + 1 /\ UNCHANGED <<binding, exchanged>>

GrantNext ==
  \/ \E c \in CodeIds, b \in Bindings : Bind(c, b)
  \/ \E c \in CodeIds, r \in Requests : Exchange(c, r)
  \/ Pass

GrantSpec == GrantInit /\ [][GrantNext]_grantVars
=============================================================================
