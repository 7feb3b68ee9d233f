--------------------------- MODULE DigestService ---------------------------
(***************************************************************************)
(* services/digest.py: the daily `digest` process.  It lists the events    *)
(* waiting for a digest, drops stale releases and sends the others in      *)
(* batches, best score first.  It shares the store, and nothing else, with *)
(* the fetch process.                                                      *)
(***************************************************************************)
EXTENDS EventStore, Environment

CONSTANT BatchSize   \* MAX_EVENTS_PER_BATCH

ASSUME DigestAssumption == BatchSize \in Nat \ {0}

VARIABLES
  dpc,       \* what the process does next
  stale,     \* the stale releases it found
  pending,   \* the events it listed and has not tried to send yet
  batch      \* the batch Telegram confirmed and it has not marked yet

digestVars == <<dpc, stale, pending, batch>>

DigestTypeOK ==
  /\ dpc \in {"idle", "prune", "send", "mark"}
  /\ stale \subseteq Keys
  /\ pending \subseteq Keys
  /\ batch \subseteq Keys

DigestInit == dpc = "idle" /\ stale = {} /\ pending = {} /\ batch = {}

DigestExit == dpc' = "idle" /\ stale' = {} /\ pending' = {} /\ batch' = {}

---------------------------------------------------------------------------
\* A digest that picks up failed deliveries as well.
StartDigest_FailedToo ==
  LET waiting == WithStatus("DIGEST") \cup WithStatus("FAILED")
      old     == {k \in waiting : IsStaleRelease(about[k], settings, today)}
  IN /\ dpc = "idle" /\ waiting # {}
     /\ stale' = old /\ pending' = waiting \ old /\ batch' = {}
     /\ dpc' = IF old = {} THEN "send" ELSE "prune"
     /\ UNCHANGED <<storeVars, envVars>>

\* run_digest loads the configuration; send_digest lists the DIGEST rows and
\* sorts out the stale ones.
StartDigest ==
  LET waiting == WithStatus("DIGEST")
      old     == {k \in waiting : IsStaleRelease(about[k], settings, today)}
  IN /\ dpc = "idle" /\ waiting # {}
     /\ stale' = old /\ pending' = waiting \ old /\ batch' = {}
     /\ dpc' = IF old = {} THEN "send" ELSE "prune"
     /\ UNCHANGED <<storeVars, envVars>>

Prune ==
  /\ dpc = "prune"
  /\ SetStatus(stale, "SKIPPED")
  /\ dpc' = "send" /\ stale' = {}
  /\ UNCHANGED <<pending, batch, about, score, corroborating, snapshots,
                 baselines, seen, envVars>>

\* Batches that are always full: a last, shorter one is forgotten.
Batches_FullOnly ==
  {b \in SUBSET pending :
     /\ Cardinality(b) = BatchSize
     /\ \A k \in b, j \in pending \ b : score[k] >= score[j]}

\* The next batch: as many as fit, none of them outscored by one left out.
\* Rows of one score go by age, which the model leaves open.
Batches ==
  {b \in SUBSET pending :
     /\ b # {}
     /\ Cardinality(b) = IF Cardinality(pending) < BatchSize
                         THEN Cardinality(pending) ELSE BatchSize
     /\ \A k \in b, j \in pending \ b : score[k] >= score[j]}

DigestConfirmed(b) ==
  /\ dpc = "send" /\ b \in Batches
  /\ pending' = pending \ b /\ batch' = b
  /\ Reach(b)
  /\ dpc' = "mark"
  /\ UNCHANGED <<stale, storeVars, sourceVars, lost, faults>>

\* A batch that is not confirmed stays DIGEST for a later run.
DigestRefused(b) ==
  /\ dpc = "send" /\ b \in Batches
  /\ pending' = pending \ b
  /\ UNCHANGED <<dpc, stale, batch, storeVars, envVars>>

DigestUnconfirmed(b) ==
  /\ dpc = "send" /\ b \in Batches
  /\ pending' = pending \ b
  /\ Reach(b) /\ Forget(b) /\ Fault
  /\ UNCHANGED <<dpc, stale, batch, storeVars, sourceVars>>

\* The first confirmed batch marks the whole digest.
MarkBatch_WholeDigest ==
  /\ dpc = "mark"
  /\ SetStatus(batch \cup pending, "SENT")
  /\ dpc' = "send" /\ batch' = {}
  /\ UNCHANGED <<stale, pending, about, score, corroborating, snapshots,
                 baselines, seen, envVars>>

MarkBatch ==
  /\ dpc = "mark"
  /\ SetStatus(batch, "SENT")
  /\ dpc' = "send" /\ batch' = {}
  /\ UNCHANGED <<stale, pending, about, score, corroborating, snapshots,
                 baselines, seen, envVars>>

DigestDone ==
  /\ dpc = "send" /\ pending = {}
  /\ DigestExit
  /\ UNCHANGED <<storeVars, envVars>>

---------------------------------------------------------------------------
\* A database error ends the run before the first batch, and costs one batch
\* its SENT marks afterwards.
DigestStoreError ==
  /\ Fault
  /\ \/ dpc = "prune" /\ DigestExit
     \/ dpc = "mark" /\ dpc' = "send" /\ batch' = {} /\ UNCHANGED <<stale, pending>>
  /\ Forget(batch)
  /\ UNCHANGED <<storeVars, sourceVars, copies>>

DigestCrash ==
  /\ dpc # "idle"
  /\ Fault
  /\ DigestExit
  /\ Forget(batch)
  /\ UNCHANGED <<storeVars, sourceVars, copies>>

DigestStep ==
  \/ StartDigest \/ Prune \/ MarkBatch \/ DigestDone
  \/ \E b \in Batches :
       DigestConfirmed(b) \/ DigestRefused(b) \/ DigestUnconfirmed(b)

DigestNext == DigestStep \/ DigestStoreError \/ DigestCrash
=============================================================================
