-------------------------------- MODULE Overlap --------------------------------
(***************************************************************************)
(* Two `fetch` processes at once over one store, one started by the task   *)
(* scheduler and one by hand: the scheduler ignores a task that is already *)
(* running, but nothing in the program does.  Each is the process of       *)
(* Pipeline; the second has local variables of its own.  The digest        *)
(* process of Radar stays idle here.                                       *)
(***************************************************************************)
EXTENDS Radar, FetchReliance

VARIABLES
  pc2, cfg2, follow2, backfill2,
  todo2, sighted2, fetched2, groups2, feed2, queue2,
  item2, key2, event2, rec2, read2, known2

localVars  == <<pc, runVars, workVars, itemVars>>
localVars2 == <<pc2, cfg2, follow2, backfill2, todo2, sighted2, fetched2,
                groups2, feed2, queue2, item2, key2, event2, rec2, read2, known2>>

Other == INSTANCE FetchProofs WITH
  pc <- pc2, cfg <- cfg2, follow <- follow2, backfill <- backfill2,
  todo <- todo2, sighted <- sighted2, fetched <- fetched2, groups <- groups2,
  feed <- feed2, queue <- queue2, item <- item2, key <- key2, event <- event2,
  rec <- rec2, read <- read2, known <- known2

overlapVars == <<vars, localVars2>>

\* The baselines were made by earlier runs, of feeds since emptied.
OverlapInit ==
  /\ EnvInit /\ FetchInit /\ DigestInit /\ Other!FetchInit
  /\ status = [k \in Keys |-> "ABSENT"] /\ about = [k \in Keys |-> None]
  /\ score = [k \in Keys |-> 0] /\ corroborating = [k \in Keys |-> {}]
  /\ snapshots = [v \in VNs |-> None] /\ seen = {}
  /\ baselines = Baselines

OverlapNext ==
  \/ FetchNext /\ UNCHANGED <<digestVars, localVars2>>
  \/ Other!FetchNext /\ UNCHANGED <<digestVars, localVars>>
  \/ EnvNext /\ UNCHANGED <<storeVars, fetchVars, digestVars, localVars2>>

OverlapSpec == OverlapInit /\ [][OverlapNext]_overlapVars

---------------------------------------------------------------------------
\* Why: each process relies on what the other owes it.
OverlapInv == SharedInv /\ LocalInv /\ Other!LocalInv
=============================================================================
