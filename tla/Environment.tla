----------------------------- MODULE Environment -----------------------------
(***************************************************************************)
(* Everything outside the two programs: the feeds and VNDB, the calendar,  *)
(* the configuration file, the Telegram chat, and the failures that can    *)
(* hit a program.  Modelled from what the code reads of it.                *)
(***************************************************************************)
EXTENDS ChangeDetection, Scoring

CONSTANTS
  ItemEvents,   \* the contents a feed item may have, over its life
  Configs,      \* the contents the configuration file may have
  MaxFaults,    \* bound on crashes, database errors and lost confirmations
  MaxChanges    \* bound on the changes of the sources and the configuration

ASSUME EnvironmentAssumption ==
  /\ ItemEvents \in [FeedItems -> SUBSET {e \in SourceEvents : e.source = "feed"}]
  /\ \A c \in Configs : ValidConfig(c)
  /\ MaxFaults \in Nat /\ MaxChanges \in Nat

VARIABLES
  listing,    \* what each feed item says now, None when the feed lacks it
  vnDate,     \* the release date VNDB has for each VN
  today,      \* the calendar day
  settings,   \* the configuration file
  changes,    \* how often the sources or the configuration changed
  copies,     \* how many sends about each event put a message into the chat
  lost,       \* how many of those sends the program could not record
  faults      \* crashes, database errors and lost confirmations so far

sourceVars == <<listing, vnDate, today, settings, changes>>
chatVars   == <<copies, lost, faults>>
envVars    == <<listing, vnDate, today, settings, changes, copies, lost, faults>>

EnvTypeOK ==
  /\ listing \in [FeedItems -> SourceEvents \cup {None}]
  /\ vnDate \in [VNs -> Days \cup {NoDate}]
  /\ today \in Days
  /\ settings \in Configs
  /\ changes \in 0..MaxChanges
  /\ copies \in [Keys -> Nat]
  /\ lost \in [Keys -> Nat]
  /\ faults \in 0..MaxFaults

EnvInit ==
  /\ listing \in [FeedItems -> {None}]
  /\ vnDate \in [VNs -> {NoDate}]
  /\ today = 1
  /\ settings \in Configs
  /\ changes = 0
  /\ copies = [k \in Keys |-> 0]
  /\ lost = [k \in Keys |-> 0]
  /\ faults = 0

---------------------------------------------------------------------------
Change == changes < MaxChanges /\ changes' = changes + 1

\* A feed gains an item, or rewrites one under the same guid.
Publish(i) ==
  /\ Change
  /\ \E e \in ItemEvents[i] \ {listing[i]} :
       listing' = [listing EXCEPT ![i] = e]
  /\ UNCHANGED <<vnDate, today, settings, chatVars>>

\* An item ages out of its feed.
Drop(i) ==
  /\ Change
  /\ listing[i] # None
  /\ listing' = [listing EXCEPT ![i] = None]
  /\ UNCHANGED <<vnDate, today, settings, chatVars>>

\* VNDB's editors give a VN a date, move it or withdraw it.
Reschedule(v) ==
  /\ Change
  /\ \E d \in (Days \cup {NoDate}) \ {vnDate[v]} :
       vnDate' = [vnDate EXCEPT ![v] = d]
  /\ UNCHANGED <<listing, today, settings, chatVars>>

\* Midnight, up to the bound.
Tick ==
  /\ today < MaxDay
  /\ today' = today + 1
  /\ UNCHANGED <<listing, vnDate, settings, changes, chatVars>>

\* The owner edits config.yaml; a running program keeps what it loaded.
EditConfig ==
  /\ Change
  /\ \E c \in Configs \ {settings} : settings' = c
  /\ UNCHANGED <<listing, vnDate, today, chatVars>>

---------------------------------------------------------------------------
\* The messages about the events ks reach the chat.
Reach(ks) ==
  copies' = [k \in Keys |-> IF k \in ks THEN copies[k] + 1 ELSE copies[k]]

\* Messages about ks are in the chat and the program will never know.
Forget(ks) ==
  lost' = [k \in Keys |-> IF k \in ks THEN lost[k] + 1 ELSE lost[k]]

\* One more failure.
Fault ==
  /\ faults < MaxFaults
  /\ faults' = faults + 1

EnvNext ==
  \/ \E i \in FeedItems : Publish(i) \/ Drop(i)
  \/ \E v \in VNs : Reschedule(v)
  \/ Tick
  \/ EditConfig
=============================================================================
