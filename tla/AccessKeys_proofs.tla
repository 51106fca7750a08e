-------------------------- MODULE AccessKeys_proofs --------------------------
(***************************************************************************)
(* Proofs about module AccessKeys, for any keys, spellings and key life.   *)
(***************************************************************************)
EXTENDS AccessKeys, TLAPS

USE AccessKeysAssumption

\* What ties the Map to the history: a record is of a key that was issued and has
\* not ended, to the handle and with the end it was issued with,
RecordsAreIssues ==
  \A k \in Held :
    /\ issued[k] # Nobody /\ k \notin ended
    /\ contributorKeys[k].expiresAt = issued[k].at + KeyLife
    /\ contributorKeys[k].handle = issued[k].handle

\* and a key that was issued is there until it has ended or is overdue.
IssuesAreHeld == \A k \in Keys \ (Fresh \cup ended \cup Overdue) : k \in Held

\* What ended had been issued.
EndedWereIssued == ended \cap Fresh = {}

AccessInv == AccessTypeOK /\ RecordsAreIssues /\ IssuesAreHeld /\ EndedWereIssued

LEMMA AccessInvInit == AccessInit => AccessInv
BY DEF AccessInit, AccessInv, AccessTypeOK, RecordsAreIssues, IssuesAreHeld, EndedWereIssued,
       AccessTimes, Held, Fresh

\* Taking a record out of the Map spoils nothing when its key ends with it or is
\* overdue.
LEMMA OneRecordLess ==
  ASSUME AccessInv, NEW k \in Keys, contributorKeys' = Without(k),
         ended' = ended \/ ended' = ended \cup ({k} \ Fresh),
         k \in Fresh \cup Overdue \cup ended', UNCHANGED <<issued, now>>, said' \in KeyAnswers \cup {Nobody}
  PROVE  AccessInv'
<1> USE DEF AccessInv, AccessTypeOK
<1>1. Held' = Held \ {k} /\ \A j \in Held' : contributorKeys'[j] = contributorKeys[j]
  BY DEF Without, Held
<1>2. AccessTypeOK'
  BY <1>1 DEF Held
<1>3. Fresh' = Fresh /\ Overdue' = Overdue
  BY DEF Fresh, Overdue
<1>4. RecordsAreIssues'
  BY <1>1 DEF RecordsAreIssues
<1>5. IssuesAreHeld'
  BY <1>1, <1>3 DEF IssuesAreHeld
<1>6. EndedWereIssued'
  BY <1>3 DEF EndedWereIssued
<1>7. QED BY <1>2, <1>4, <1>5, <1>6

LEMMA AccessInvNext == AccessInv /\ [AccessNext]_accessVars => AccessInv'
<1> SUFFICES ASSUME AccessInv, [AccessNext]_accessVars PROVE AccessInv'
  OBVIOUS
<1> USE DEF AccessInv, AccessTypeOK
<1>1. ASSUME NEW s \in Spellings, NEW blocked \in BOOLEAN, RequestKey(s, blocked)
      PROVE  AccessInv'
  <2> DEFINE h == Lower[s]
  <2>1. PICK k \in Fresh :
          /\ contributorKeys' = [j \in Held \cup {k} |->
               IF j = k THEN [handle |-> h, issuedAt |-> now, expiresAt |-> now + KeyLife]
               ELSE contributorKeys[j]]
          /\ issued' = [issued EXCEPT ![k] = [at |-> now, handle |-> h]]
    BY <1>1 DEF RequestKey
  <2>2. h \in PreApproved /\ k \in Keys /\ UNCHANGED <<now, ended, said>>
    BY <1>1, <2>1 DEF RequestKey, Fresh
  <2>3. now + KeyLife \in 0 .. EndOfTime + KeyLife
    BY DEF AccessTimes
  <2>4. [handle |-> h, issuedAt |-> now, expiresAt |-> now + KeyLife] \in KeyRecords
    BY <2>2, <2>3 DEF KeyRecords
  <2>5. [at |-> now, handle |-> h] \in Issues
    BY <2>2 DEF Issues
  <2>6. Held' = Held \cup {k}
    BY <2>1 DEF Held
  <2>7. AccessTypeOK'
    BY <2>1, <2>2, <2>4, <2>5, <2>6 DEF Held
  <2>8. k \notin ended
    BY <2>1 DEF EndedWereIssued
  <2>9. ASSUME NEW j \in Held' PROVE issued'[j] # Nobody /\ j \notin ended'
        /\ contributorKeys'[j].expiresAt = issued'[j].at + KeyLife
        /\ contributorKeys'[j].handle = issued'[j].handle
    <3>1. CASE j = k
      BY <3>1, <2>1, <2>2, <2>5, <2>6, <2>8
    <3>2. CASE j # k
      BY <3>2, <2>1, <2>2, <2>6 DEF RecordsAreIssues, Held
    <3>3. QED BY <3>1, <3>2
  <2>10. IssuesAreHeld'
    BY <2>1, <2>2, <2>6 DEF IssuesAreHeld, Fresh, Overdue
  <2>11. EndedWereIssued'
    BY <2>1, <2>2, <2>5 DEF EndedWereIssued, Fresh
  <2>12. QED BY <2>7, <2>9, <2>10, <2>11 DEF RecordsAreIssues
<1>2. ASSUME NEW k \in Keys, Validate(k) PROVE AccessInv'
  <2>1. k \in Held => contributorKeys[k].handle \in PreApproved
    BY DEF Held, KeyRecords
  <2>2. said' \in KeyAnswers /\ UNCHANGED <<now, issued, ended>>
    BY <1>2, <2>1 DEF Validate, KeyAnswers
  <2>3. CASE k \in Held /\ Expired(k)
    <3>1. k \in Overdue
      BY <2>3 DEF Expired, Overdue, Fresh, RecordsAreIssues
    <3>2. contributorKeys' = Without(k)
      BY <1>2, <2>3 DEF Validate
    <3>3. QED BY <2>2, <3>1, <3>2, OneRecordLess
  <2>4. CASE ~(k \in Held /\ Expired(k))
    BY <1>2, <2>2, <2>4 DEF Validate, RecordsAreIssues, IssuesAreHeld, EndedWereIssued, Held,
                            Fresh, Overdue
  <2>5. QED BY <2>3, <2>4
<1>3. ASSUME NEW k \in Keys, Revoke(k) PROVE AccessInv'
  BY <1>3, OneRecordLess DEF Revoke
<1>4. CASE Tick
  <2>1. now' \in AccessTimes /\ now' = now + 1 /\ now \in Nat
    BY <1>4 DEF Tick, AccessTimes
  <2>2. UNCHANGED <<contributorKeys, issued, ended, said>>
    BY <1>4 DEF Tick
  <2>3. Overdue \subseteq Overdue'
    BY <2>1, <2>2 DEF Overdue, Fresh, Issues, AccessTimes
  <2>4. QED BY <2>1, <2>2, <2>3 DEF RecordsAreIssues, IssuesAreHeld, EndedWereIssued, Held, Fresh
<1>5. CASE Restart
  BY <1>5 DEF Restart, RecordsAreIssues, IssuesAreHeld, EndedWereIssued, Held, Fresh
<1>6. CASE UNCHANGED accessVars
  BY <1>6 DEF accessVars, RecordsAreIssues, IssuesAreHeld, EndedWereIssued, Held, Fresh, Overdue
<1>7. QED BY <1>1, <1>2, <1>3, <1>4, <1>5, <1>6 DEF AccessNext

LEMMA AccessInvHolds == AccessSpec => []AccessInv
BY AccessInvInit, AccessInvNext, PTL DEF AccessSpec

\* The Map, the histories and the answers of the access routes keep their types.
THEOREM AccessTypeCorrect == AccessSpec => []AccessTypeOK
BY AccessInvHolds, PTL DEF AccessInv

-----------------------------------------------------------------------------
(* The Map keeps the promise of a lease.                                    *)

\* A record that is not expired is of a key that is good, and the other way
\* round.
LEMMA GoodIsHeld ==
  ASSUME AccessInv, NEW k \in Keys
  PROVE  Lease!Good(k) <=> k \in Held /\ ~Expired(k)
<1> USE DEF AccessInv, AccessTypeOK
<1>1. CASE k \in Held
  <2>1. issued[k] \in Issues /\ issued[k] # Nobody /\ k \notin ended
        /\ contributorKeys[k].expiresAt = issued[k].at + KeyLife
    BY <1>1 DEF RecordsAreIssues
  <2>2. issued[k].at + KeyLife \in Nat /\ now \in Nat
    BY <2>1 DEF Issues, AccessTimes
  <2>3. QED BY <1>1, <2>1, <2>2 DEF Lease!Good, Lease!Granted, Expired, Overdue, Fresh
<1>2. CASE k \notin Held
  BY <1>2 DEF Lease!Good, Lease!Granted, IssuesAreHeld, Fresh
<1>3. QED BY <1>1, <1>2

LEMMA LeaseRefinesInit == AccessInit => Lease!LeaseInit
BY DEF AccessInit, Lease!LeaseInit, Overdue, Fresh

LEMMA LeaseRefinesNext ==
  AccessInv /\ [AccessNext]_accessVars => [Lease!LeaseNext]_(Lease!leaseVars)
<1> SUFFICES ASSUME AccessInv, [AccessNext]_accessVars
             PROVE  Lease!LeaseNext \/ UNCHANGED Lease!leaseVars
  OBVIOUS
<1> USE DEF AccessInv, AccessTypeOK
<1>g. Lease!Granted = Keys \ Fresh
  BY DEF Lease!Granted, Fresh
<1>1. ASSUME NEW s \in Spellings, NEW blocked \in BOOLEAN, RequestKey(s, blocked)
      PROVE  Lease!LeaseNext
  <2> DEFINE h == Lower[s]
  <2>1. PICK k \in Fresh : issued' = [issued EXCEPT ![k] = [at |-> now, handle |-> h]]
    BY <1>1 DEF RequestKey
  <2>2. h \in PreApproved /\ k \in Keys /\ issued[k] = Nobody /\ UNCHANGED <<now, ended, said>>
    BY <1>1, <2>1 DEF RequestKey, Fresh
  <2>3. ASSUME NEW j \in Keys PROVE j \in Overdue' <=> j \in Overdue
    <3>1. CASE j = k
      BY <3>1, <2>1, <2>2 DEF Overdue, Fresh, AccessTimes
    <3>2. CASE j # k
      BY <3>2, <2>1, <2>2 DEF Overdue, Fresh
    <3>3. QED BY <3>1, <3>2
  <2>4. Overdue' = Overdue
    BY <2>3 DEF Overdue
  <2>5. Lease!Grant(k, h)
    BY <2>1, <2>2, <2>4 DEF Lease!Grant, Lease!Granted
  <2>6. QED BY <2>2, <2>5 DEF Lease!LeaseNext
<1>2. ASSUME NEW k \in Keys, Validate(k) PROVE Lease!LeaseNext
  <2>1. UNCHANGED <<now, issued, ended>>
    BY <1>2 DEF Validate
  <2>2. Overdue' = Overdue
    BY <2>1 DEF Overdue, Fresh
  <2>3. said' = [key |-> k, holder |-> IF Lease!Good(k) THEN issued[k].handle ELSE Nobody]
    BY <1>2, GoodIsHeld DEF Validate, RecordsAreIssues
  <2>4. Lease!Judge(k)
    BY <2>1, <2>2, <2>3 DEF Lease!Judge
  <2>5. QED BY <2>4 DEF Lease!LeaseNext
<1>3. ASSUME NEW k \in Keys, Revoke(k) PROVE Lease!LeaseNext \/ UNCHANGED Lease!leaseVars
  <2>1. /\ UNCHANGED <<now, issued, said>> /\ Overdue' = Overdue
        /\ ended' = ended \cup ({k} \ Fresh)
    BY <1>3 DEF Revoke, Overdue, Fresh
  <2>2. CASE k \in Fresh
    BY <2>1, <2>2 DEF Lease!leaseVars
  <2>3. CASE k \notin Fresh
    <3>1. (ended \cup Overdue)' = (ended \cup Overdue) \cup {k}
      BY <2>1, <2>3
    <3>2. Lease!End(k)
      BY <1>g, <2>1, <2>3, <3>1 DEF Lease!End
    <3>3. QED BY <3>2 DEF Lease!LeaseNext
  <2>4. QED BY <2>2, <2>3
<1>4. CASE Restart
  <2>1. UNCHANGED <<now, issued, said>> /\ Overdue' = Overdue /\ ended' = Keys \ Fresh
    BY <1>4 DEF Restart, Overdue, Fresh
  <2>2. (ended \cup Overdue)' = (ended \cup Overdue) \cup (Keys \ Fresh)
    BY <2>1 DEF EndedWereIssued, Overdue
  <2>3. Lease!EndAll
    BY <1>g, <2>1, <2>2 DEF Lease!EndAll
  <2>4. QED BY <2>3 DEF Lease!LeaseNext
<1>5. CASE Tick
  <2> DEFINE Over == {k \in Lease!Granted : ~Lease!InTerm(k, now + 1)}
  <2>1. UNCHANGED <<issued, ended, said>> /\ now' = now + 1
    BY <1>5 DEF Tick
  <2>2. ASSUME NEW k \in Keys PROVE k \in Overdue' <=> k \in Overdue \cup Over
    <3>1. CASE issued[k] = Nobody
      BY <3>1, <2>1 DEF Overdue, Fresh, Lease!Granted
    <3>2. CASE issued[k] # Nobody
      <4>1. now \in Nat /\ issued[k].at + KeyLife \in Nat
        BY <3>2 DEF Issues, AccessTimes
      <4>2. QED BY <3>2, <4>1, <2>1 DEF Overdue, Fresh, Lease!Granted, Lease!InTerm
    <3>3. QED BY <3>1, <3>2
  <2>3. Overdue' = Overdue \cup Over
    BY <2>2 DEF Overdue, Lease!Granted
  <2>4. (ended \cup Overdue)' = (ended \cup Overdue) \cup Over
    BY <2>1, <2>3
  <2>5. Lease!Pass
    BY <2>1, <2>4 DEF Lease!Pass
  <2>6. QED BY <2>5 DEF Lease!LeaseNext
<1>6. CASE UNCHANGED accessVars
  BY <1>6 DEF accessVars, Lease!leaseVars, Overdue, Fresh
<1>7. QED BY <1>1, <1>2, <1>3, <1>4, <1>5, <1>6 DEF AccessNext

\* Whatever is requested, validated, revoked or lost with the process, a key is
\* good from its issue until its 90 days are over, it is revoked itself or the
\* process restarts, and an answer of /access/validate says so and names its
\* holder.
THEOREM AccessImplementsLease == AccessSpec => ImplementsLease
<1>1. AccessInit /\ [][AccessNext]_accessVars /\ []AccessInv => Lease!LeaseSpec
  BY LeaseRefinesInit, LeaseRefinesNext, PTL DEF Lease!LeaseSpec
<1>2. QED BY <1>1, AccessInvHolds, PTL DEF AccessSpec, ImplementsLease
=============================================================================
