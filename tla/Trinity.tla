------------------------------ MODULE Trinity ------------------------------
(***************************************************************************)
(* The Trinity compliance scripts (.trinity/system): a recorder that adds  *)
(* a test result and then, in a second call of sqlite3, a compliance row   *)
(* computed from all results of the entity, and a checker that reads the   *)
(* latest compliance row.  Recorders are processes of their own; a call of *)
(* sqlite3 happens at once or, the database being locked, not at all, and  *)
(* the recorder minds neither outcome.                                     *)
(***************************************************************************)
EXTENDS Naturals, Sequences, Functions, FiniteSets

CONSTANTS
  Recorders,    \* runs of trinity-record-test.sh
  Entities,
  LightTypes,   \* what is given as the light type: no one checks it
  EndOfSeconds  \* bound: the last second looked at

VARIABLES
  second,       \* CURRENT_TIMESTAMP
  results,      \* trinity_test_results
  compliance,   \* trinity_compliance
  recorder      \* what each run records and where it stands

trinityVars == <<second, results, compliance, recorder>>

ASSUME TrinityAssumption == EndOfSeconds \in Nat

\* the lights a compliance row has a column for
Lights   == {"greenlight", "yellowlight", "redlight"}
Seconds  == 0 .. EndOfSeconds
Results  == [entity : Entities, light : LightTypes, passed : BOOLEAN]
Verdicts == {"full", "partial", "failed"}
Phases   == {"idle", "inserted", "updated", "missed", "ended"}

ComplianceRows == [entity : Entities, passes : SUBSET Lights, status : Verdicts, last_checked : Seconds]

\* until is the second of the compliance row a recorder that updated has added
TrinityTypeOK ==
  /\ second \in Seconds
  /\ Range(results) \subseteq Results
  /\ Range(compliance) \subseteq ComplianceRows
  /\ recorder \in [Recorders -> [phase : Phases, result : Results, until : Seconds]]

TrinityInit ==
  /\ second = 0 /\ results = << >> /\ compliance = << >>
  /\ recorder \in [Recorders -> [phase : {"idle"}, result : Results, until : {0}]]

\* WHERE entity_name = entity: the ids of its rows
Of(entity) == {i \in DOMAIN results : results[i].entity = entity}

\* mutated form: only the newest result of a light counts
PassedNewest(entity) ==
  {l \in Lights : \E i \in Of(entity) :
     /\ results[i].light = l /\ results[i].passed
     /\ \A j \in Of(entity) : results[j].light = l => j <= i}

\* the MAX columns: no rows make them NULL, which counts as a failure
Passed(entity) ==
  {results[i].light : i \in {j \in Of(entity) : results[j].passed}} \cap Lights

Passes(entity) == Cardinality({i \in Of(entity) : results[i].passed})

\* mutated form: the lights of failed tests are not counted
StatusOfPassed(entity) ==
  IF Passes(entity) = Cardinality(Passed(entity)) THEN "full"
  ELSE IF Passes(entity) > 0 THEN "partial" ELSE "failed"

\* as many passes as there are light types tested, whatever they are called; SUM
\* over no rows is NULL
Status(entity) ==
  LET lights == {results[i].light : i \in Of(entity)}
  IN IF lights # {} /\ Passes(entity) = Cardinality(lights) THEN "full"
     ELSE IF Passes(entity) > 0 THEN "partial" ELSE "failed"

InsertResult(r) ==
  /\ recorder[r].phase = "idle"
  /\ results' = Append(results, recorder[r].result)
  /\ recorder' = [recorder EXCEPT ![r].phase = "inserted"]
  /\ UNCHANGED <<second, compliance>>

\* the database is locked: the recorder goes on to its second statement
InsertMissed(r) ==
  /\ recorder[r].phase = "idle"
  /\ recorder' = [recorder EXCEPT ![r].phase = "missed"]
  /\ UNCHANGED <<second, results, compliance>>

\* no two rows are of one key, so OR REPLACE replaces nothing
UpdateCompliance(r) ==
  LET entity == recorder[r].result.entity IN
  /\ recorder[r].phase \in {"inserted", "missed"}
  /\ compliance' = Append(compliance,
       [entity |-> entity, passes |-> Passed(entity), status |-> Status(entity),
        last_checked |-> second])
  /\ recorder' = IF recorder[r].phase = "missed"
                 THEN [recorder EXCEPT ![r].phase = "ended"]
                 ELSE [recorder EXCEPT ![r].phase = "updated", ![r].until = second]
  /\ UNCHANGED <<second, results>>

NextSecond ==
  /\ second < EndOfSeconds
  /\ second' = second + 1
  /\ UNCHANGED <<results, compliance, recorder>>

\* a recorder that takes no step any more has died, or missed its update
TrinityNext ==
  \/ \E r \in Recorders : InsertResult(r) \/ InsertMissed(r) \/ UpdateCompliance(r)
  \/ NextSecond

TrinitySpec == TrinityInit /\ [][TrinityNext]_trinityVars

-----------------------------------------------------------------------------
RowsOf(entity) == {row \in Range(compliance) : row.entity = entity}

\* what the checker may read: of rows of one second, any
LatestRows(entity) ==
  {row \in RowsOf(entity) : \A other \in RowsOf(entity) : other.last_checked <= row.last_checked}

\* The verdict counts every pass whose recorder finished before the second the
\* verdict is of, and no light that has not passed: recorders that overlap, miss
\* a statement or die in between cost at most their own result, and a later
\* failure takes no pass back (trinity-record-test.sh:18-39,
\* trinity-check-compliance.sh:44-58).
VerdictIsCurrent ==
  \A entity \in Entities : \A row \in LatestRows(entity) :
    /\ row.passes \subseteq Passed(entity)
    /\ \A r \in Recorders :
         LET result == recorder[r].result
         IN recorder[r].phase = "updated" /\ recorder[r].until < row.last_checked
            /\ result.entity = entity /\ result.passed /\ result.light \in Lights
              => result.light \in row.passes

\* The stored status counts passes of every light type and the checker reads three
\* columns.  They disagree on what has failed in one way only: a row that is not
\* 'failed' and that the checker calls non-compliant counts a pass recorded under
\* something that is none of the three lights (trinity-record-test.sh:23-36,
\* trinity-check-compliance.sh:46-50).
OnlyStrayPassesDisagree ==
  \A row \in Range(compliance) :
    /\ row.status = "failed" => row.passes = {}
    /\ row.status # "failed" /\ row.passes = {} =>
         \E result \in Range(results) :
           result.entity = row.entity /\ result.passed /\ result.light \notin Lights
=============================================================================
