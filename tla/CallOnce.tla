------------------------------ MODULE CallOnce ------------------------------
(***************************************************************************)
(* What a method of a remote service's client promises its caller: the     *)
(* service does what was asked at most once, never for a call that was     *)
(* refused, and has done it when the caller is told so.  A caller who is   *)
(* told nothing (an error, a rejected promise, the end of the process)     *)
(* knows nothing: the service may have done it, or may do it yet.          *)
(***************************************************************************)
EXTENDS Naturals

CONSTANT Asked  \* the calls

VARIABLES
  knows,  \* what the caller of each call knows
  times   \* how often the service did what the call asked

callOnceVars == <<knows, times>>

CallOnceInit ==
  /\ knows = [c \in Asked |-> "unasked"]
  /\ times = [c \in Asked |-> 0]

Ask(c) ==
  /\ knows[c] = "unasked"
  /\ \E outcome \in {"asked", "refused"} : knows' = [knows EXCEPT ![c] = outcome]
  /\ UNCHANGED times

Do(c) ==
  /\ knows[c] \in {"asked", "unsure"} /\ times[c] = 0
  /\ times' = [times EXCEPT ![c] = 1]
  /\ UNCHANGED knows

Tell(c) ==
  /\ knows[c] = "asked" /\ times[c] = 1
  /\ knows' = [knows EXCEPT ![c] = "done"]
  /\ UNCHANGED times

GiveUp(C) ==
  /\ \A c \in C : knows[c] = "asked"
  /\ knows' = [c \in Asked |-> IF c \in C THEN "unsure" ELSE knows[c]]
  /\ UNCHANGED times

CallOnceNext ==
  \/ \E c \in Asked : Ask(c) \/ Do(c) \/ Tell(c)
  \/ \E C \in SUBSET Asked : GiveUp(C)

CallOnceSpec == CallOnceInit /\ [][CallOnceNext]_callOnceVars
=============================================================================
