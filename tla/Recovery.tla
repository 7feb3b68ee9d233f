------------------------------- MODULE Recovery -------------------------------
(***************************************************************************)
(* `backup` beside the deployed system, and the owner putting a backup in  *)
(* the place of the database (docs/windows-deployment.md, Restore).  The   *)
(* chat and the sources do not go back with it: messages of the meantime   *)
(* are there, and the restored database knows nothing of them.             *)
(***************************************************************************)
EXTENDS RadarInvariant, FiniteSets

CONSTANTS MaxBackups, MaxRestores   \* bounds

VARIABLES
  saved,     \* the contents of the backup files
  restores   \* how often one was restored

recoveryVars == <<vars, saved, restores>>

\* The database as a whole; of the histories, the one that goes with it.
Contents ==
  [status |-> status, about |-> about, score |-> score, corroborating |-> corroborating,
   snapshots |-> snapshots, baselines |-> baselines, seen |-> seen, baselined |-> baselined]

RecoveryInit == Init /\ saved = {} /\ restores = 0

\* A file copied while it is written: pages of two moments.
Backup_Torn ==
  /\ Cardinality(saved) < MaxBackups
  /\ saved' = saved \cup {[Contents EXCEPT !.status = old.status, !.about = old.about,
                                           !.corroborating = old.corroborating] :
                          old \in saved \cup {Contents}}
  /\ UNCHANGED <<vars, restores>>

\* backup_sqlite, at any moment, into a file of a new name: the backup API
\* copies one committed state.
Backup ==
  /\ Cardinality(saved) < MaxBackups
  /\ saved' = saved \cup {Contents}
  /\ UNCHANGED <<vars, restores>>

\* With the tasks disabled, so that no program runs.  The sends the restored
\* database does not record are now sends nobody recorded.
Restore(c) ==
  /\ pc = "idle" /\ dpc = "idle"
  /\ restores < MaxRestores /\ restores' = restores + 1
  /\ status' = c.status /\ about' = c.about /\ score' = c.score
  /\ corroborating' = c.corroborating
  /\ snapshots' = c.snapshots /\ baselines' = c.baselines /\ seen' = c.seen
  /\ baselined' = c.baselined
  /\ lost' = [k \in Keys |-> copies[k] - IF c.status[k] = "SENT" THEN 1 ELSE 0]
  /\ UNCHANGED <<pc, runVars, workVars, itemVars, digestVars, sourceVars, copies,
                 faults, saved>>

RecoveryNext ==
  \/ Next /\ UNCHANGED <<saved, restores>>
  \/ Backup
  \/ \E c \in saved : Restore(c)

RecoverySpec == RecoveryInit /\ [][RecoveryNext]_recoveryVars

---------------------------------------------------------------------------
\* What is delivered beyond the messages the database records is what the
\* database cannot know: a restored database says SENT only of messages in the
\* chat, and repeats only those it has no record of.
RestoredIsHonest ==
  \A k \in Keys :
    /\ status[k] = "SENT" => copies[k] > 0
    /\ copies[k] <= lost[k] + 1

\* In a restored database too, whatever the programs were doing when it was
\* copied, a settled row stands for each seen item, and news has one row.
RestoredIsConsistent == SeenIsAccounted /\ UniqueIdentity

---------------------------------------------------------------------------
(* Why: every copy has the invariant of the database it was taken from.    *)

\* What is said of the database, said of a copy of it.
Of(c) == INSTANCE RadarInvariant WITH
  status <- c.status, about <- c.about, score <- c.score,
  corroborating <- c.corroborating, snapshots <- c.snapshots,
  baselines <- c.baselines, seen <- c.seen, baselined <- c.baselined

\* What every copy has from the moment it was taken.
CopyInv(c) ==
  /\ Of(c)!StoreTypeOK /\ Of(c)!TableInv /\ Of(c)!RecordsInv
  /\ c.baselined \subseteq FeedItems

\* The messages it records stay in the chat.
SavedInv ==
  \A c \in saved :
    CopyInv(c) /\ \A k \in Keys : c.status[k] = "SENT" => copies[k] > 0

RecoveryInv == IInv /\ SourceInv /\ SavedInv
=============================================================================
