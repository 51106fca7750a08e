------------------------------- MODULE Lease -------------------------------
(***************************************************************************)
(* What a contributor access key promises: it is granted once, to an       *)
(* approved handle; it is good from that moment until its term is over or  *)
(* until it is ended, whichever comes first; it never comes back; and every *)
(* verdict on it says whether it is good at the moment it is given.        *)
(***************************************************************************)
EXTENDS Naturals

CONSTANTS
  Leases,   \* the keys that can be granted
  Holders,  \* the handles they can be granted to
  Term,     \* how long a key is good
  None

VARIABLES
  clock,
  grant,    \* for each key, None or when it was granted and to whom
  ended,    \* the keys that are no longer good
  verdict   \* the last verdict given

leaseVars == <<clock, grant, ended, verdict>>

InTerm(k, t) == t <= grant[k].at + Term
Granted      == {k \in Leases : grant[k] # None}
Good(k)      == k \in Granted \ ended

LeaseInit ==
  /\ clock = 0
  /\ grant = [k \in Leases |-> None]
  /\ ended = {}
  /\ verdict = None

Grant(k, h) ==
  /\ k \notin Granted
  /\ grant' = [grant EXCEPT ![k] = [at |-> clock, handle |-> h]]
  /\ UNCHANGED <<clock, ended, verdict>>

\* one key is taken back, or all of them at once
End(k) ==
  /\ k \in Granted
  /\ ended' = ended \cup {k}
  /\ UNCHANGED <<clock, grant, verdict>>

EndAll ==
  /\ ended' = ended \cup Granted
  /\ UNCHANGED <<clock, grant, verdict>>

\* the clock moves on, and the keys whose term is over end
Pass ==
  /\ clock' = clock + 1
  /\ ended' = ended \cup {k \in Granted : ~InTerm(k, clock + 1)}
  /\ UNCHANGED <<grant, verdict>>

Judge(k) ==
  /\ verdict' = [key |-> k, holder |-> IF Good(k) THEN grant[k].handle ELSE None]
  /\ UNCHANGED <<clock, grant, ended>>

LeaseNext ==
  \/ \E k \in Leases : (\E h \in Holders : Grant(k, h)) \/ Judge(k) \/ End(k)
  \/ EndAll
  \/ Pass

LeaseSpec == LeaseInit /\ [][LeaseNext]_leaseVars
=============================================================================
