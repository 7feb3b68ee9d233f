------------------------------ MODULE Migration ------------------------------
(***************************************************************************)
(* database.py, EventStore.initialize: fetch and digest each bring an      *)
(* older database up to date when they start.  They may start together,    *)
(* and either may be killed.  SQLite's driver commits every CREATE TABLE   *)
(* and ALTER TABLE by itself, so the begin() of the code spans none of     *)
(* them.  A row is here what its column corroborating_sources holds.       *)
(***************************************************************************)
EXTENDS Integers, FiniteSets

CONSTANTS
  Processes,
  Tables, Events,        \* the tables, events among them
  Rows, OldRows,         \* rows of events, and those of the older database
  References,            \* what a row may record
  Null, Absent,          \* of a row: NULL in the column; no such row
  MaxKills               \* bound: processes killed

Columns == {"image_url", "corroborating_sources"}

ASSUME MigrationAssumption ==
  /\ Events \in Tables /\ OldRows \subseteq Rows /\ MaxKills \in Nat
  /\ Null # Absent /\ \A ss \in SUBSET References : ss # Null /\ ss # Absent

VARIABLES
  tables, columns,  \* the tables there are, and the columns of events
  refs,             \* corroborating_sources, per row
  at,               \* what each process does next
  missing,          \* the tables it has to create
  known,            \* the columns it saw
  kills,
  torn              \* history: a process was killed before its UPDATE

dbVars == <<tables, columns, refs>>
vars   == <<tables, columns, refs, at, missing, known, kills, torn>>

Steps == {"start", "create", "inspect", "image", "sources", "fill", "ready", "failed"}

TypeOK ==
  /\ tables \subseteq Tables /\ columns \subseteq Columns
  /\ DOMAIN refs = Rows
  /\ \A r \in Rows : refs[r] \in {Null, Absent} \/ refs[r] \subseteq References
  /\ at \in [Processes -> Steps]
  /\ missing \in [Processes -> SUBSET Tables] /\ known \in [Processes -> SUBSET Columns]
  /\ kills \in 0..MaxKills /\ torn \in BOOLEAN

\* No database yet, or the one of an older version with its rows.
Init ==
  /\ \/ tables = {} /\ columns = {} /\ refs = [r \in Rows |-> Absent]
     \/ /\ tables \in {ts \in SUBSET Tables : Events \in ts}
        /\ columns \in {{}, {"image_url"}}
        /\ refs = [r \in Rows |-> IF r \in OldRows THEN Null ELSE Absent]
  /\ at = [p \in Processes |-> "start"]
  /\ missing = [p \in Processes |-> {}] /\ known = [p \in Processes |-> {}]
  /\ kills = 0 /\ torn = FALSE

Goto(p, step) == at' = [at EXCEPT ![p] = step]

---------------------------------------------------------------------------
\* create_all looks which tables are missing, and then creates them.
LookForTables(p) ==
  /\ at[p] = "start"
  /\ missing' = [missing EXCEPT ![p] = Tables \ tables]
  /\ Goto(p, "create")
  /\ UNCHANGED <<dbVars, known, kills, torn>>

CreateTable(p, t) ==
  /\ at[p] = "create" /\ t \in missing[p] /\ t \notin tables
  /\ tables' = tables \cup {t}
  /\ columns' = IF t = Events THEN Columns ELSE columns
  /\ missing' = [missing EXCEPT ![p] = @ \ {t}]
  /\ UNCHANGED <<refs, at, known, kills, torn>>

\* "table already exists": the other process was quicker.
CreateFails(p, t) ==
  /\ at[p] = "create" /\ t \in missing[p] /\ t \in tables
  /\ missing' = [missing EXCEPT ![p] = {}]
  /\ Goto(p, "failed")
  /\ UNCHANGED <<dbVars, known, kills, torn>>

TablesCreated(p) ==
  /\ at[p] = "create" /\ missing[p] = {}
  /\ Goto(p, "inspect")
  /\ UNCHANGED <<dbVars, missing, known, kills, torn>>

\* The columns are never looked at.
InspectColumns_Skipped(p) ==
  /\ at[p] = "inspect"
  /\ known' = [known EXCEPT ![p] = {}]
  /\ Goto(p, "image")
  /\ UNCHANGED <<dbVars, missing, kills, torn>>

InspectColumns(p) ==
  /\ at[p] = "inspect"
  /\ known' = [known EXCEPT ![p] = columns]
  /\ Goto(p, "image")
  /\ UNCHANGED <<dbVars, missing, kills, torn>>

\* One guarded ALTER TABLE; "duplicate column name" if the other process has
\* added the column since.
Alter(p, step, column, altered, next) ==
  /\ at[p] = step
  /\ IF column \in known[p] THEN Goto(p, next) /\ columns' = columns
     ELSE IF column \in columns THEN Goto(p, "failed") /\ columns' = columns
     ELSE Goto(p, altered) /\ columns' = columns \cup {column}
  /\ UNCHANGED <<tables, refs, missing, known, kills, torn>>

AddImage(p) == Alter(p, "image", "image_url", "sources", "sources")

\* The second column without the UPDATE that goes with it.
AddSources_Unfilled(p) == Alter(p, "sources", "corroborating_sources", "ready", "ready")

AddSources(p) == Alter(p, "sources", "corroborating_sources", "fill", "ready")

\* UPDATE without its WHERE clause.
Fill_AllRows(p) ==
  /\ at[p] = "fill"
  /\ refs' = [r \in Rows |-> IF refs[r] = Absent THEN Absent ELSE {}]
  /\ Goto(p, "ready")
  /\ UNCHANGED <<tables, columns, missing, known, kills, torn>>

Fill(p) ==
  /\ at[p] = "fill"
  /\ refs' = [r \in Rows |-> IF refs[r] = Null THEN {} ELSE refs[r]]
  /\ Goto(p, "ready")
  /\ UNCHANGED <<tables, columns, missing, known, kills, torn>>

---------------------------------------------------------------------------
\* What a process does with the column once it is ready: EventStore.add and
\* add_corroborating_source, which raises at a NULL and changes nothing.
AddRow(p, r) ==
  /\ at[p] = "ready" /\ refs[r] = Absent
  /\ refs' = [refs EXCEPT ![r] = {}]
  /\ UNCHANGED <<tables, columns, at, missing, known, kills, torn>>

RecordReference(p, r, s) ==
  /\ at[p] = "ready" /\ refs[r] \notin {Null, Absent}
  /\ refs' = [refs EXCEPT ![r] = @ \cup {s}]
  /\ UNCHANGED <<tables, columns, at, missing, known, kills, torn>>

\* The run ends, or an error ended it; the scheduler starts the next.
Restart(p) ==
  /\ at[p] \in {"ready", "failed"}
  /\ Goto(p, "start")
  /\ UNCHANGED <<dbVars, missing, known, kills, torn>>

\* The time limit, or a shutdown.
Kill(p) ==
  /\ at[p] # "start" /\ kills < MaxKills
  /\ kills' = kills + 1
  /\ torn' = (torn \/ at[p] = "fill")
  /\ Goto(p, "start")
  /\ UNCHANGED <<dbVars, missing, known>>

Initialize(p) ==
  \/ LookForTables(p) \/ TablesCreated(p) \/ InspectColumns(p)
  \/ \E t \in Tables : CreateTable(p, t) \/ CreateFails(p, t)
  \/ AddImage(p) \/ AddSources(p) \/ Fill(p)

Next ==
  \E p \in Processes :
    \/ Initialize(p) \/ Restart(p) \/ Kill(p)
    \/ \E r \in Rows : AddRow(p, r) \/ \E s \in References : RecordReference(p, r, s)

Spec == Init /\ [][Next]_vars

\* The scheduler starts a program again, and it keeps running.
FairSpec == Spec /\ \A p \in Processes : WF_vars(Initialize(p)) /\ WF_vars(Restart(p))

---------------------------------------------------------------------------
\* With the column there, a row has NULL in it only while some process is
\* about to run its UPDATE, or after one was killed just before it.
NullsAreExplained ==
  "corroborating_sources" \in columns /\ (\E r \in Rows : refs[r] = Null)
    => torn \/ \E p \in Processes : at[p] = "fill"

\* The UPDATE of the one program erases nothing the other, which may be ready
\* before it, has recorded by then; and no row is lost.
NothingIsErased ==
  [][\A r \in Rows :
       /\ refs[r] # Absent => refs'[r] # Absent
       /\ refs[r] \notin {Null, Absent} => refs[r] \subseteq refs'[r]]_vars

\* A program whose start failed because the other was quicker gets ready in
\* one of its next starts.
StartsRecover ==
  \A p \in Processes : at[p] = "failed" ~> at[p] = "ready"
=============================================================================
