----------------------------- MODULE AccessKeys -----------------------------
(***************************************************************************)
(* The contributor access keys of the gateway (src/routes/access.ts): a    *)
(* Map in memory, filled by POST /access/request, read by GET              *)
(* /access/validate, which deletes a key it finds expired, and emptied by  *)
(* DELETE /access/revoke and by a restart of the process.                  *)
(*                                                                         *)
(* Every handler runs in one turn of the event loop and is one action.     *)
(* Keys are 24 random bytes, so a key is never issued twice.               *)
(***************************************************************************)
EXTENDS Naturals, Functions

CONSTANTS
  Keys,       \* the random keys
  Spellings,  \* handles as clients write them
  Lower,      \* toLowerCase
  KeyLife,    \* 90 days
  EndOfTime,  \* bound: the last moment looked at
  Nobody

VARIABLES
  now,              \* Date.now()
  contributorKeys,  \* the Map: a function on the keys it holds
  issued,           \* history: for each key, when and for whom it was issued
  ended,            \* history: the keys revoked, or lost with the process
  said              \* the last answer of /access/validate

accessVars == <<now, contributorKeys, issued, ended, said>>

PreApproved == {"blackboxprogramming", "lucidia"}

AccessTimes == 0 .. EndOfTime
Issues      == [at : AccessTimes, handle : PreApproved]
KeyRecords  == [handle : PreApproved, issuedAt : AccessTimes, expiresAt : 0 .. EndOfTime + KeyLife]
KeyAnswers  == [key : Keys, holder : PreApproved \cup {Nobody}]

ASSUME AccessKeysAssumption ==
  /\ KeyLife \in Nat /\ EndOfTime \in Nat
  /\ Lower \in [Spellings -> STRING]
  /\ Nobody \notin Issues \cup PreApproved

AccessTypeOK ==
  /\ now \in AccessTimes
  /\ DOMAIN contributorKeys \subseteq Keys
  /\ \A k \in DOMAIN contributorKeys : contributorKeys[k] \in KeyRecords
  /\ issued \in [Keys -> Issues \cup {Nobody}]
  /\ ended \subseteq Keys
  /\ said \in KeyAnswers \cup {Nobody}

AccessInit ==
  /\ now = 0
  /\ contributorKeys = << >>
  /\ issued = [k \in Keys |-> Nobody]
  /\ ended = {}
  /\ said = Nobody

Held    == DOMAIN contributorKeys
Fresh   == {k \in Keys : issued[k] = Nobody}
Without(k) == [j \in Held \ {k} |-> contributorKeys[j]]

\* 201: only a pre-approved handle gets a key, whatever case it is written in.
\* A blocked user agent and an unapproved AI agent are answered 403, any other
\* unapproved handle 202, and nothing changes.
RequestKey(spelling, blockedAgent) ==
  LET handle == Lower[spelling] IN
  /\ ~blockedAgent
  /\ handle \in PreApproved
  /\ \E k \in Fresh :
       /\ contributorKeys' = [j \in Held \cup {k} |->
            IF j = k
            THEN [handle |-> handle, issuedAt |-> now, expiresAt |-> now + KeyLife]
            ELSE contributorKeys[j]]
       /\ issued' = [issued EXCEPT ![k] = [at |-> now, handle |-> handle]]
  /\ UNCHANGED <<now, ended, said>>

\* mutated form: a key is over at the very moment its life ends
ExpiredEarly(k) == contributorKeys[k].expiresAt <= now

Expired(k) == contributorKeys[k].expiresAt < now

\* 200 with the holder; 401 for an unknown key and for an expired one, which
\* is deleted on this occasion
Validate(k) ==
  /\ said' = [key |-> k, holder |-> IF k \in Held /\ ~Expired(k)
                                    THEN contributorKeys[k].handle ELSE Nobody]
  /\ contributorKeys' = IF k \in Held /\ Expired(k) THEN Without(k)
                                                    ELSE contributorKeys
  /\ UNCHANGED <<now, issued, ended>>

\* mutated form: every key of the handle is deleted
RevokeHandle(k) ==
  /\ contributorKeys' = [j \in {j \in Held : k \in Held =>
                            contributorKeys[j].handle # contributorKeys[k].handle} |->
                         contributorKeys[j]]
  /\ ended' = ended \cup ({k} \ Fresh)
  /\ UNCHANGED <<now, issued, said>>

\* 204, whether or not the key is there
Revoke(k) ==
  /\ contributorKeys' = Without(k)
  /\ ended' = ended \cup ({k} \ Fresh)
  /\ UNCHANGED <<now, issued, said>>

Tick ==
  /\ now < EndOfTime
  /\ now' = now + 1
  /\ UNCHANGED <<contributorKeys, issued, ended, said>>

\* a new process starts with an empty Map
Restart ==
  /\ contributorKeys' = << >>
  /\ ended' = Keys \ Fresh
  /\ UNCHANGED <<now, issued, said>>

AccessNext ==
  \/ \E s \in Spellings, blocked \in BOOLEAN : RequestKey(s, blocked)
  \/ \E k \in Keys : Validate(k) \/ Revoke(k)
  \/ Tick
  \/ Restart

AccessSpec == AccessInit /\ [][AccessNext]_accessVars

-----------------------------------------------------------------------------
Overdue == {k \in Keys \ Fresh : now > issued[k].at + KeyLife}

\* A key has ended when it was revoked or lost, or when its term is over: what is
\* in the Map plays no part.
Lease == INSTANCE Lease WITH
  Leases <- Keys, Holders <- PreApproved, Term <- KeyLife,
  clock <- now, grant <- issued, verdict <- said,
  None <- Nobody,
  ended <- ended \cup Overdue

\* The Map with its lazy deletion keeps the promise of a lease: an answer says
\* valid, and names the handle the key was issued to, exactly while the key's 90
\* days run and neither a revocation of this very key nor a restart has come,
\* whatever else was issued, validated, revoked or deleted before
\* (access.ts:118-198).
ImplementsLease == Lease!LeaseSpec
=============================================================================
