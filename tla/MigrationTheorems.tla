-------------------------- MODULE MigrationTheorems --------------------------
(***************************************************************************)
(* Theorems about Migration, for any processes, tables and rows.           *)
(***************************************************************************)
EXTENDS Migration, TLAPS

\* Of the types, what the argument needs.
RefsType ==
  /\ columns \subseteq Columns
  /\ refs \in [Rows -> {Null, Absent} \cup SUBSET References]
  /\ at \in [Processes -> Steps]

\* Without the table there is no row that the UPDATE could have missed.
MigrationInv ==
  /\ RefsType
  /\ Events \notin tables => \A r \in Rows : refs[r] # Null
  /\ NullsAreExplained

LEMMA InitMigration == Init => MigrationInv
BY MigrationAssumption DEF Init, MigrationInv, RefsType, NullsAreExplained, Columns, Steps

LEMMA NextMigration == MigrationInv /\ [Next]_vars => MigrationInv'
<1> SUFFICES ASSUME MigrationInv, [Next]_vars PROVE MigrationInv'
    OBVIOUS
<1> USE DEF MigrationInv, RefsType, NullsAreExplained, Goto, dbVars, Steps
<1>1. CASE UNCHANGED vars
  BY <1>1 DEF vars
<1>2. ASSUME NEW p \in Processes,
             LookForTables(p) \/ TablesCreated(p) \/ InspectColumns(p) \/ Restart(p) \/ Kill(p)
      PROVE  MigrationInv'
  BY <1>2 DEF LookForTables, TablesCreated, InspectColumns, Restart, Kill
<1>3. ASSUME NEW p \in Processes, NEW t \in Tables, CreateTable(p, t) \/ CreateFails(p, t)
      PROVE  MigrationInv'
  BY <1>3 DEF CreateTable, CreateFails, Columns
<1>4. ASSUME NEW p \in Processes, AddImage(p)
      PROVE  MigrationInv'
  BY <1>4 DEF AddImage, Alter, Columns
<1>5. ASSUME NEW p \in Processes, AddSources(p)
      PROVE  MigrationInv'
  <2>1. RefsType'
    BY <1>5 DEF AddSources, Alter, Columns
  <2>2. (Events \notin tables => \A r \in Rows : refs[r] # Null)'
    BY <1>5 DEF AddSources, Alter
  <2>3. NullsAreExplained'
    <3>1. CASE "corroborating_sources" \in columns
      BY <1>5, <3>1 DEF AddSources, Alter
    <3>2. CASE at' = [at EXCEPT ![p] = "fill"]
      BY <3>2
    <3>3. CASE columns' = columns /\ "corroborating_sources" \notin columns
      BY <3>3
    <3>4. QED
      BY <1>5, <3>1, <3>2, <3>3 DEF AddSources, Alter
  <2>4. QED
    BY <2>1, <2>2, <2>3
<1>6. ASSUME NEW p \in Processes, Fill(p)
      PROVE  MigrationInv'
  BY <1>6, MigrationAssumption DEF Fill
<1>7. ASSUME NEW p \in Processes, NEW r \in Rows, AddRow(p, r)
      PROVE  MigrationInv'
  BY <1>7, MigrationAssumption DEF AddRow
<1>8. ASSUME NEW p \in Processes, NEW r \in Rows, NEW s \in References, RecordReference(p, r, s)
      PROVE  MigrationInv'
  BY <1>8, MigrationAssumption DEF RecordReference
<1>9. QED
  BY <1>1, <1>2, <1>3, <1>4, <1>5, <1>6, <1>7, <1>8 DEF Next, Initialize

LEMMA MigrationInvariance == Spec => []MigrationInv
BY InitMigration, NextMigration, PTL DEF Spec

\* With the column there, NULL is left in it only by a process that is about
\* to run initialize's UPDATE or was killed just before it, whatever the
\* number of programs that start together.
THEOREM NullsComeFromKills == Spec => []NullsAreExplained
BY MigrationInvariance, PTL DEF MigrationInv

\* No step of any program erases a reference another has recorded, or a row.
THEOREM MigrationErasesNothing == Spec => NothingIsErased
<1>1. ASSUME MigrationInv, [Next]_vars, NEW r \in Rows
      PROVE  /\ refs[r] # Absent => refs'[r] # Absent
             /\ refs[r] \notin {Null, Absent} => refs[r] \subseteq refs'[r]
  <2> USE <1>1 DEF MigrationInv, RefsType, dbVars
  <2>1. CASE UNCHANGED refs
    BY <2>1
  <2>2. ASSUME NEW p \in Processes, Fill(p)
        PROVE  /\ refs[r] # Absent => refs'[r] # Absent
               /\ refs[r] \notin {Null, Absent} => refs[r] \subseteq refs'[r]
    BY <2>2, MigrationAssumption DEF Fill
  <2>3. ASSUME NEW p \in Processes, NEW q \in Rows, AddRow(p, q)
        PROVE  /\ refs[r] # Absent => refs'[r] # Absent
               /\ refs[r] \notin {Null, Absent} => refs[r] \subseteq refs'[r]
    BY <2>3, MigrationAssumption DEF AddRow
  <2>4. ASSUME NEW p \in Processes, NEW q \in Rows, NEW s \in References,
               RecordReference(p, q, s)
        PROVE  /\ refs[r] # Absent => refs'[r] # Absent
               /\ refs[r] \notin {Null, Absent} => refs[r] \subseteq refs'[r]
    BY <2>4, MigrationAssumption DEF RecordReference
  <2>5. QED
    BY <2>1, <2>2, <2>3, <2>4
       DEF Next, Initialize, vars, LookForTables, TablesCreated, InspectColumns, CreateTable,
           CreateFails, AddImage, AddSources, Alter, Restart, Kill
<1>2. MigrationInv /\ [Next]_vars =>
        [\A r \in Rows :
           /\ refs[r] # Absent => refs'[r] # Absent
           /\ refs[r] \notin {Null, Absent} => refs[r] \subseteq refs'[r]]_vars
  BY <1>1
<1>3. QED
  BY <1>2, MigrationInvariance, PTL DEF Spec, NothingIsErased
=============================================================================
