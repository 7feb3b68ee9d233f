# Gal/VN Radar: a TLA+ model, its checks and its proofs

Gal/VN Radar (`src/gal_radar/`) follows visual novels for one owner. A task
scheduler starts two short programs over one SQLite file:

- `fetch`, every half hour: asks VNDB and the feeds (Steam, itch.io, RSS) for
  news, decides how relevant each piece is, and sends the important ones to a
  Telegram chat at once;
- `digest`, once a day: sends what was put off as a summary.

What makes this hard is not any one function. It is that the database, the chat
and the sources are three records of the same progress that no transaction
spans, that a run can be killed or fail between any two calls, that two programs
write the same status column unconditionally, and that configuration, sources and
calendar move in between. The model is about that.

## Inventory

| Part (source) | State it keeps | Operations | Module |
| --- | --- | --- | --- |
| Fetch pipeline (`services/pipeline.py`, `main.py: run_fetch`) | locals of one run: adapter, group, item, the row found and the status read | run the adapters; baselines; find duplicate, corroborate, add, choose, deliver, mark, acknowledge | `Pipeline` |
| Event store (`database.py`) | `events`, `source_snapshots`, `source_baselines`, `source_seen_items` | `add`, `find_equivalent`, `add_corroborating_source`, `update_notification_status(es)`, `save_snapshot`, `mark_*` | `EventStore` |
| Event model, normalization, deduplication (`models/event.py`, `services/normalize.py`, `deduplicate.py`) | none | identity of an event, source keys | `Events` |
| Change detection (`services/change_detection.py`) | none (snapshots are in the store) | `detect_change` | `ChangeDetection` |
| Ranking and policy (`services/ranking.py`, `notification_policy.py`) | none | `score_event`, `choose_notification_status`, `is_stale_snapshot_release` | `Scoring` |
| Digest (`services/digest.py`, `main.py: run_digest`) | locals of one run: stale ids, rows left, current batch | list, prune, send a batch, mark it | `DigestService` |
| VNDB adapter (`adapters/vndb.py`, `config.py: add_discovered_*`) | locals of one `fetch_events`; the follow lists it extends | queries of titles, developers and discovery; repetition after a 429; paging of `/release`; merging of links into the configuration | `VndbAdapter`; its outcome in `Pipeline` |
| Feed adapters (`adapters/steam.py`, `itch.py`, `rss.py`) | the answer being built | request a feed, convert its items, pass over what fails | `FeedAdapter`; its outcome in `Pipeline` |
| Backfill (`services/backfill.py`) | none | select items by their day | `FeedAdapter`; its effect in `Pipeline` |
| Telegram notifier (`notifications/telegram.py`) | the form being tried | `send`: document, photo, text | `TelegramSend`, `SendContract`; its outcomes in `Pipeline` and `DigestService` |
| Limited fetch (`services/http_safety.py`) | redirects made, bytes read | redirects, validation, size limits | `LimitedFetch` |
| Configuration (`config.py`) | `config.yaml` | load, validate, merge discovered feeds | `Scoring`, `Environment`, `VndbAdapter` |
| Dry-run preview (`pipeline.py: _preview_one`) | none | the same decisions without writes | `DryRun` |
| Start of a program (`database.py: initialize`) | the schema | create tables, add columns, fill them | `Migration` |
| Backup (`services/runtime.py: backup_sqlite`) | the backup files | copy; restored by the owner | `Recovery` |
| Classifier, rendering, status, logging | none the others read | | not modelled |

Interactions. The pipeline calls adapters, store and notifier, one after the
other; the digest calls store and notifier. The two programs share the store
and the chat and nothing else, and neither knows that the other runs. A second
`fetch`, a dry run or a backup started by hand joins them over the same file.

Hard behaviours, each listed with its line in `PROJECT.json` under `hazards`:
crashes between the insert of a row and its verdict, and between a confirmed send
and its `SENT` mark; confirmations that are lost; unconditional status writes by
two programs; decisions taken on a status read earlier; acknowledging a source too
early (news lost) or never (news repeated); several changes of a VN between two
observations; empty first answers; configuration edited between a failed send
and its retry; two fetches at once; a backup taken in the middle of things and
restored later; two programs that migrate one database; a request that fails in the
middle of a fetch of many; a send that is posted three times to be confirmed once.

What makes each part correct, and the property that says so, is under
"Properties" below.

## Modules

    Events            types, keys, identity                     no state
     |-- ChangeDetection   detect_change                        no state
     |    `-- EventStore        the tables                      status, about, ...
     |-- Scoring           score and verdict                    no state
     `-- Environment       sources, calendar, chat, failures    listing, vnDate, ...
    Pipeline       = EventStore + Environment, the fetch process
     `-- FetchReliance     what a fetch relies on and owes  (FetchProofs)
    DigestService  = EventStore + Environment, the digest process
    Radar          = Pipeline + DigestService: Spec, fairness, properties
     |-- NotificationLedger   the abstract specification Radar implements
     |-- RadarInvariant       the inductive invariants IInv and SourceInv
     |    `-- RadarProofs                                          (RadarTheorems)
     |-- Overlap              two Pipelines over the same store    (OverlapTheorems)
     |-- DryRun               Radar and `fetch --dry-run`          (CommandTheorems)
     |-- Recovery             Radar, backups and a restoration     (CommandTheorems)
     `-- DocumentedBehaviour  what the documents say where the code differs

    What Pipeline and DigestService take as one step, in detail:
    LimitedFetch -- TelegramSend   a send; implements SendContract  (SendTheorems)
    VndbAdapter                    a fetch from VNDB                (AdapterTheorems)
    FeedAdapter                    a fetch from feeds, backfill     (AdapterTheorems)
    Migration                      the start of a program           (MigrationTheorems)

    MCRadar, MCDryRun, MCOverlap, MCRecovery, MCDocumented, MCSources, MCMigration
                                   instances for TLC

### How the state corresponds to the code

- `status`, `about`, `score`, `corroborating` are the columns of `events` that
  decisions read, indexed by `(source, source_event_id)`, which is unique in the
  table. `ABSENT` means that there is no row. `about` is the content as it was
  first stored; later reports never change it.
- `snapshots`, `baselines`, `seen` are the three source tables.
- `pc` and the other variables of `Pipeline` are the locals of one run. An
  action reaches from one store or network call to the next, so a step of
  `digest`, of a source or of the clock, a crash or a database error can come
  between any two calls. A method of `EventStore` is one transaction and
  therefore one step. `dpc`, `stale`, `pending`, `batch` are the same for the digest.
- `rec` and `read` are the row `find_duplicate` returned and the status it had
  then: the code works on a detached copy, so `Retriable` uses `read` where the
  second lookup (`Recheck`) uses `status`.
- `copies` counts the sends about an event that put a message in the chat;
  `lost` counts those whose success the program had no way to record (the confirmation was
  lost, the write of `SENT` failed, the process was killed before it). Both are
  history: no guard reads them. So is `baselined`, the items a feed baseline marked.
- `known` is the list of corroborating reports as read: `add_corroborating_source`
  reads it, appends and writes it back, which matters only in `Overlap`.
- In `Overlap` the locals of the second fetch are a second copy of those of the
  first (`INSTANCE FetchProofs WITH pc <- pc2, ...`, which brings its actions and
  what is proved of them); the store and the chat are shared.
- `VndbAdapter.stage`, `FeedAdapter.apc`, `TelegramSend`'s form and
  `Migration.at[p]` are where the code stands between two requests or statements.
  `told`, `broken`, `torn` and the counts of messages are histories.
- In `Recovery` a restoration replaces the five tables and leaves the chat and the
  sources; `lost` is set anew, to the messages the restored tables do not know of.
- `StoreError` is an exception in a store call; its disjuncts are the four
  handlers that can catch it. `Crash` is the end of the process at any step.

### Abstractions

- Titles, tags, names, texts are model values; a date is a day in `1..MaxDay`
  or unknown. UTC and local days are one calendar. Times of day are not modelled.
- The content hash of `find_equivalent` adds nothing to key and identity (it
  covers the source's guid, or a transition's date) and is left out. The query has
  no `ORDER BY`; `FindDuplicate` takes any matching row. `Recheck` reads the row found
  before, as the same query over the same rows returns it.
- Feed items and VNs of one answer are handled in any order; the code uses the
  order of the answer.
- `Collect` says which VNs `_collect_vns` adds and in what order, in place of its loop.
- An event carries the names and the ids of its developers. Ids are compared when the
  run has resolved some and the event has some, names otherwise. What VNDB finds first
  for a followed name is fixed (`SearchHit`), and so is the order of its answer
  (`FirstOf`). A VN is one entity key. Scores use the default weights.
- `follow` is what the VNDB adapter left in the run's configuration: discovered VNs,
  resolved ids, and the VNs whose links were merged. The report of a Steam app takes its
  VN and developers from it (`Mapped`). No link changes the mapping of an itch.io page or
  RSS feed, which is part of what the feed lists; one that only links name has the
  same VN in all runs, where the code takes the first VN of the run's answer. An answer
  that fails in the merge leaves the links of any of the VNs.
- The scheduler runs one `fetch` and one `digest` at a time (`IgnoreNew`). A
  second fetch, by hand, is in `Overlap` only.
- In `Radar` a send is one step with four outcomes: confirmed, refused or
  unreachable, posted but unconfirmed, and killed midway (posted, then `Crash`).
  `TelegramSend` shows how the real one comes to them; a send that loses several
  confirmations counts several messages there and one in `copies`.
- A dry run reads everything in one step, and VNDB and all feeds answer it. It writes
  nothing, and a preview is dropped when the sources or the settings change before the
  fetch it is for. Whether VNDB answers that fetch, and all feeds do, is left open.
- How long a wait or a download takes is left out, so the wait a server asks for
  with a 429, which nothing bounds, is a step like another.

## Properties, runs and bounds

| Run | Question | Properties |
| --- | --- | --- |
| `feeds` | Do two programs, failures, duplicates, a backfill and edits of the configuration ever record or repeat a message wrongly, or unsettle what is settled? | `SentWasDelivered`, `CopiesAccounted`, `SeenIsAccounted`, `NeverResent`, `TerminalStable` |
| `live` | Is each listed item settled in the end, and what was put off sent or dropped, whatever sends fail? | `TypeOK`, `ItemsAreSettled`, `DigestDrains` |
| `snapshots` | Can a change of a VN be dropped when its snapshot moves, and does the snapshot catch up? | `TransitionIsRecorded`, `ReleaseIsTold`, `SnapshotsCatchUp` |
| `cross` | Two sources, one release, fetch and digest at once, staleness overnight: who owns the row, and does a dry run foretell what is sent? | `OneSender`, `UniqueIdentity`, `IInv`, `LedgerKept`, `SendsAreForetold` |
| `overlap` | What survives two fetches at once? | `SentWasDelivered`, `SeenIsTold` |
| `recovery` | What does a restored backup repeat, and is it consistent? | `RestoredIsHonest`, `RestoredIsConsistent`, `BaselineIsSilent` |
| `migration` | Do two programs that start at once on an old database, one of them killed, get ready, and lose nothing? | `NullsAreExplained`, `NothingIsErased`, `StartsRecover` |
| `send` | Is a send what its callers take it for? | `DownloadBounded`, `TextIsLastResort`, `MessagesPerSend`, `ContractKept`, `SendEnds` |
| `sources` | Is an answer of an adapter what the pipeline takes it for, whatever request fails? | `AnswerIsWhole`, `ResolvedTogether`, `ManualIsKept`, `LinksAreFollowed`, `AnswerIsByFeed`, `BackfillWithinADay`, `FetchEnds`, `ReleasesAreOptional` |
| `doc_*` | Three sentences of the documents that the code does not keep | see "Findings" |

What they show together:

- a row is `SENT` only with a message in the chat (`SentWasDelivered`), and
  messages are repeated only by failures nobody could record
  (`CopiesAccounted`, `NeverResent`), although both programs write statuses without
  looking: the digest touches only `DIGEST` rows and fetch sends only `PENDING`
  and `FAILED` ones (`OneSender`, `TerminalStable`);
- one piece of news has one row, whoever reports it first (`UniqueIdentity`);
- a source is acknowledged only when its news is settled (`SeenIsAccounted`,
  `TransitionIsRecorded`, `ReleaseIsTold`), so undelivered news comes back;
- and it comes back until it is settled (`ItemsAreSettled`, `SnapshotsCatchUp`,
  `DigestDrains`), except for rows that are `Stranded`;
- two fetches at once may repeat a message or put `FAILED` over `SENT`, but they
  pass over nothing on which they agree (`SeenIsTold`); a restored backup repeats
  only what it has no record of (`RestoredIsHonest`);
- what a dry run does not show, the fetch after it does not send when VNDB resolves the
  developers and maps the feeds as it did in the dry run (`SendsAreForetold`), though
  that fetch decides on rows it has written meanwhile;
- a send is confirmed only for a message Telegram confirmed, and the forms it
  tries first cost at most one more message for each lost confirmation
  (`ContractKept`, `MessagesPerSend`); a failed image leads to the text except
  for exceptions the notifier does not expect (`TextIsLastResort`);
- no failing request for the releases costs the answered queries, but what an answer
  says may: a malformed link or an impossible date (`ReleasesAreOptional`);
- an answer of VNDB is whole or a failure (`AnswerIsWhole`), an answer of a feed
  adapter is whole for each feed that did not fail (`AnswerIsByFeed`), and what is
  discovered on the way never replaces what the owner mapped (`ManualIsKept`).

Bounds. `MaxFaults` bounds crashes, database errors and lost confirmations (one is
enough to separate every pair of calls, and the property of copies is stated
relative to them); refused sends are not bounded. It is 0 in `cross`, `overlap` and
`recovery`, which are about other interleavings. `MaxChanges` bounds what the feeds,
VNDB and the owner do: 2 to 4, which covers a baseline item, a new item, a second
report or a rewrite, and a withdrawal or an edit. `MaxDay = 2` is enough for a date
to lie in the future, be reached and be stale. `BatchSize` is 1, so that two waiting
rows already make two batches, and 2 in `live`, where a full and a short batch meet.
One feed with one or two items, one VN: feeds share nothing but the table, and two
reports of one event, in one feed or from VNDB and a feed, are what the table is
about. `live` and `cross` always run with a backfill of the first item, which the
baseline would otherwise swallow. In `cross` VNDB links to the Steam app, and finds
another producer first for the followed name, so that the same item is worth a message
in a fetch without VNDB's answer and not in one with it.

`recovery` has two backups and one restoration: an old state and a recent one.
`migration` has one kill, two programs, an old row and a new one. In `send` two
redirects, a body of up to three units in chunks of up to two, and five addresses
(two that answer, one that httpx cannot request, a private one, one that cannot be
joined) reach each limit and each way to break it. In `sources` VNDB has four VNs:
two share a Steam game, the third has a malformed link, and the fourth an impossible
date and releases that name Steam's app 0; there are two repetitions and two pages of
releases. The followed title stands for the first two, so that a fetch may find only
well-formed VNs, and any others through its developers and the discovery. An
adapter has a feed of two items and one of one, days of three hours and every offset
below a day. A behaviour of `sources` is one call of one adapter, since the pipeline
calls them one after the other and they share no state.

No symmetry is used: the items have different roles. The radar never stops (the
scheduler starts it again), and a send or a start is followed by another, so deadlock
is checked there; `sources` ends when the call returns, and only there it is not.

Fairness. `FetchFairness` and `DigestFairness` state what the scheduler gives: the
programs are started again and keep running (weak fairness of their own steps).
Crashes, errors and source changes are not fair and are bounded, as they must be for
anything to settle. Strong fairness says that a source that is asked again and again
answers in full once, and that a message tried again and again is confirmed once;
without it Telegram may be down for ever and nothing is owed. Each `SF` is stated per
item, per adapter and per event, since a retry is per item. In `VndbAdapter` and
`TelegramSend` every request is answered or fails in the end, because the HTTP clients
have time-outs. In `Migration` a program keeps running and is started again; kills
are bounded.

Each property of a passing run has a mutant: the definitions with a suffix
(`TakeItem_SeenToo`, `MarkFailed_Acked`, ...) are plausible mistakes in the code
they stand beside, and each breaks the property it is listed with.

## Findings

| Run | The documents say | The code does |
| --- | --- | --- |
| `doc_entries` | later entries are processed exactly once (`README.md:48`) | A stop, or a database error, between `store.add` and the verdict (`pipeline.py:364-375`) leaves an unimportant event `PENDING`. Its score is below the retry's threshold, so no fetch settles it and its item is looked up again in every run. |
| `doc_baseline` | the first successful fetch is the baseline (`README.md:48`) | Baselines are made per feed key among the items returned (`pipeline.py:149,175`). A first answer without items makes none; the entries that come later are taken for old ones. |
| `doc_fallback` | image failures fall back to text (`README.md:172`) | Only `httpx.HTTPError`, `UnsafeUrlError` and `ResponseTooLargeError` are expected (`telegram.py:137`). `httpx.InvalidURL` and the `ValueError` of `urljoin` on a bad `Location` leave `send` before a photo or a text is tried. |

The first weakens what can be promised elsewhere: `ItemsAreSettled` and
`SnapshotsCatchUp` except `Stranded` rows, and those only.

Other divergences met while modelling. They are why the properties named here
are no stronger than they are:

- The enabled types control Telegram and digest (`docs/phase4-product-polish.md:9`),
  but the digest sends all `DIGEST` rows (`digest.py:32`), also of types disabled
  since, and a row that was `FAILED` when its type was disabled stays so, its item
  never seen (`pipeline.py:347`).
- Failed feeds do not initialize baselines (`README.md:177`), but the Steam adapter
  keeps the items it converted before one failed (`steam.py:86`), and the pipeline
  makes a baseline of them. `AnswerIsByFeed` and `Pipeline.Piecemeal` allow for it.
- `--backfill-since` takes what was published on or after a day (`main.py:45`), but
  `mktime` takes the UTC times of RSS and itch.io for local ones (`rss.py:111`), so
  `BackfillWithinADay` is off by a day.
- No duplicate notifications (`docs/phase3-soak-checklist.md:16`), and every
  additional reference recorded (`README.md:160`): with two fetches at once both find
  the event undelivered and both send it, and of two reference lists written back
  the later one wins (`database.py:154`). `SeenIsTold` is what is left, and not of
  every row: when the configuration is edited, or midnight passes, between the
  starts of the two, one may put off or skip a row that the other is sending. On that
  verdict the item is marked seen, and a failure of the send then sets the row to
  `FAILED` (`pipeline.py:409`), which no report will retry. `SeenIsTold` excepts
  rows that two runs may judge differently (`Disputed`); the proof attempt showed
  that without it the property does not hold in general.
- A dry run repeats the decisions of a fetch (`pipeline.py:248`), but these
  depend on whether VNDB answers: developers are compared by id once VNDB has
  resolved some and the app's mapping has gained some (`ranking.py:60`, `config.py:100`),
  and by name before. If VNDB takes another producer for the followed name
  (`vndb.py:375`), the dry run shows nothing and a fetch without VNDB sends. The
  VN and the developer that a link adds to an app without one (`config.py:107`) differ
  likewise. `SendsAreForetold` is therefore about fetches with the dry run's answer
  (`SameAnswer`).
- A failed search of the releases continues with the links of the VNs (`vndb.py:199`),
  but a link of a release that gives no positive app number (`vndb.py:477`) is
  refused by `SteamAppConfig` (`config.py:24`) in the merge, outside that handler, and costs
  the whole fetch. So does a date such as 2026-02-31, which `date.fromisoformat`
  refuses (`vndb.py:528`) after the merge. `QueriesAnswered` asks for well-formed VNs.
- A kill between the `ALTER TABLE` and the `UPDATE` of the migration
  (`database.py:105`) leaves rows in which no reference can be recorded, and later
  starts do not fill them. `NullsAreExplained` says that nothing else does.

## What is proved

Thirty-five theorems, for any sources, feeds, configurations, dates, offsets, servers and
bounds that satisfy the assumptions of the modules: finite tags, valid configurations,
well-typed constants, distinct keys, and (`FeedsAssumption`) one adapter of each kind
(`main.py:98`) with feed keys that begin with the kind (`steam.py:140`, `rss.py:118`,
`itch.py:126`), and (`LinksAssumption`) feeds that are configured or found through a
link, in an order of VNDB's answer that is the same for fewer VNs. They state every
invariant, action property and refinement that a
passing run checks.

| Module | Theorem | States |
| --- | --- | --- |
| `RadarTheorems` | `Invariance`, `SourceInvariance` | `IInv`, `SourceInv` always hold |
| | `TypeCorrect`, `SentIsDelivered`, `NoOtherDuplicates`, `SendersAreDisjoint`, `NewsIsUnique`, `NoItemIsLost` | `TypeOK`, `SentWasDelivered`, `CopiesAccounted`, `OneSender`, `UniqueIdentity`, `SeenIsAccounted` always hold |
| | `Refinement` | `Spec => LedgerKept`: Radar implements `NotificationLedger` |
| | `SettledForGood`, `NothingIsResent` | `TerminalStable`, `NeverResent`: no step breaks them |
| | `BaselinesAreSilent`, `NoChangeIsDropped`, `NoReleaseIsMissed` | `BaselineIsSilent`, `TransitionIsRecorded`, `ReleaseIsTold` |
| `OverlapTheorems` | `OverlapInvariance` | `OverlapSpec => []OverlapInv` |
| | `OverlapLosesNoItem`, `OverlapSendsForReal` | `SeenIsTold`, `SentWasDelivered` with two fetches |
| `CommandTheorems` | `RecoveryInvariance` | `RecoverySpec => []RecoveryInv` |
| | `RestoreIsHonest`, `RestoreIsConsistent`, `RestoreIsSilent` | `RestoredIsHonest`, `RestoredIsConsistent`, `BaselineIsSilent` through backups and restorations |
| | `PreviewInvariance`, `DryRunForetells` | `PreviewInv`, `SendsAreForetold` with dry runs |
| `SendTheorems` | `DownloadIsBounded`, `MessagesAreBounded`, `TextIsTried` | `DownloadBounded`, `MessagesPerSend`, `TextIsLastResort` |
| | `ContractImplemented` | `ContractKept`: a send implements `SendContract` |
| `AdapterTheorems` | `AnswersAreByFeed`, `BackfillsWithinADay` | `AnswerIsByFeed`, `BackfillWithinADay` |
| | `ProducersResolveTogether`, `ManualMappingsAreKept`, `AnswersAreWhole`, `AllLinksAreFollowed` | `ResolvedTogether`, `ManualIsKept`, `AnswerIsWhole`, `LinksAreFollowed` |
| `MigrationTheorems` | `NullsComeFromKills`, `MigrationErasesNothing` | `NullsAreExplained`, `NothingIsErased` |

The argument for Radar. None of these is inductive as it stands: what protects a row that
fetch is about to mark is not in the table but in where both programs are.
`IInv` says it:

- `ControlInv`: at each `pc`, the locals the next step reads are proper values;
- `RowInv`: what fetch knows of the row it works on. Only `PENDING` and `FAILED`
  rows are on their way to the chat; the status read is still right if it was one of
  those, because the digest writes only rows that were `DIGEST`;
- `DigestInv`: what the digest holds is `DIGEST` and stays so until it writes it;
- `ChatInv`: copies equal losses, plus one if the row is `SENT` or a
  confirmed message waits for its mark. This is the accounting that
  `CopiesAccounted` and `SentWasDelivered` are read off;
- `TableInv`: one row per identity, and each acknowledged item has a settled row.

`RadarProofs` shows that each step of fetch, of digest and of the environment
keeps each part (`FetchKeepsInv`, `DigestKeepsInv`, `EnvKeepsInv`);
`RadarTheorems` adds that each step is a ledger step or a stutter.
`TerminalStable` is then a property of the ledger alone. The ledger also says that
there is no message about news that has no row; that is `FreshInv`, which is no part of
`IInv` since a restored database breaks it.

`SourceInv` adds what fetch relies on about its sources, which only it writes:
`FeedInv` (items become rows only after their feed's baseline), `SilentInv` (without
a backfill only unseen items are taken) and `ChangeInv` (the change in flight is the
one its snapshot is about to move past, and the row at hand has its identity, as
transition keys tell identities). `RadarTheorems` shows that each step keeps it,
given `IInv`; the three properties follow from the steps that move `seen` and
`snapshots`.

The argument for two fetches at once. `IInv` does not survive a second writer: two rows
may have one identity and a row may go from `SENT` to `FAILED`. What one fetch can
still rely on is `SharedInv`, of the database and the chat, and `LocalInv`, of the row
in its hands; what it owes the other is `Guarantee`: rows stay, with their content and
score, messages stay in the chat, and what is accounted for stays so. `FetchProofs`
shows, without saying who else runs, that a step of a fetch keeps all three
(`FetchRely`) and that whoever keeps `SharedInv` and `Guarantee` keeps the `LocalInv`
of one who does nothing (`LocalKept`). `OverlapTheorems` uses both twice, once for
each process, through the instance of the module. The argument does not depend on there being two.

The argument for a restoration. Every copy has the part of `IInv` and `SourceInv` that
is about the database (`CopyInv`: types, `TableInv`, and `RecordsInv` for the source
tables), because it is the copy of one committed state; it keeps it, since nothing
writes it, and the messages it records stay in the chat. The rest of the invariant is
about processes under way, and while none runs it says nothing. So putting a copy back
restores the invariant, with `lost` counted anew.

The argument for a dry run. What must be shown is about the moment of a send, and the
preview was made at the start; `PreviewInv` relates all moments between. `DueInv`: each
change and item the run has still to come to (`DueVn`, `DueItem`) would now be told only
if the preview told it. `FlightInv`: so it is for the one in hand, at each step. The rows a
run writes keep this, because a row with a verdict is not sent again unless its send was
foretold, and the run's score is never above the preview's. That is so only for equal
resolved ids and equal mappings, under which discovered VNs can but add to the score
(`ScoreGrows`); `PreviewInv` therefore promises something of a run only while VNDB's
answer is still to come, or once it is the dry run's (`Promised`). `RunInv` says that
adapters, feeds and VNs come up once, so that
what a baseline has just opened is not due in the same run; this is what needs
`FeedsAssumption`.

The argument for the rest. A send: the requests and bytes of a download are bounded at
each of its steps, messages are counted form by form, and each form's outcome is a
step of `SendContract`. A feed adapter: what is not yet in the answer of a feed is in hand,
so a feed that did not fail is whole; and times less than a day apart lie on the same or
on adjacent days (`AdjacentDays`). VNDB: producers are noted apart and handed over in
one assignment; `add_discovered_*` only add; the VNs found are those of the answers, once
each (`FoundInv`), and the links of the first `merged` of them are followed, each feed
mapped to the first VN that names it (`LinkInv`). A migration: `NULL` appears with the
column and goes with the `UPDATE`, and `UPDATE` touches `NULL` rows only.

Model-checked only: liveness (`ItemsAreSettled`, `SnapshotsCatchUp`, `DigestDrains`,
`SendEnds`, `FetchEnds`, `ReleasesAreOptional`, `StartsRecover`), since the prover has
neither fairness nor `ENABLED`. The three `doc_*` runs are counterexamples, for which
one instance is enough.

## Not modelled, and why

- The classifier is text matching without state: the model leaves an item's type
  open, so every property holds for whatever it answers.
- Rendering and the length of messages are layout. `DigestDrains` therefore assumes
  that a batch tried again and again is confirmed once; ten long events might never be.
- Parsing of YAML, `.env` and feeds: an input that does not parse is a failed
  load, fetch or item.
- Exit codes, `doctor`, status output and logging: no state the others read. A
  digest `--dry-run` writes and sends nothing.
- The branch of the limited fetch for clients without `stream()`: the same
  decisions on a whole body.
- Durations: time-outs and waits are steps that may come at any time.

## Running

    tlc -config MCFeeds.cfg MCRadar.tla           (feeds; MCLive, MCSnapshots likewise)
    tlc -config MCCross.cfg MCDryRun.tla          (cross)
    tlc -config Overlap.cfg MCOverlap.tla
    tlc -config Recovery.cfg MCRecovery.tla
    tlc -config Migration.cfg MCMigration.tla
    tlc -config Send.cfg TelegramSend.tla         (send; DocFallback likewise)
    tlc -config Sources.cfg MCSources.tla
    tlc -config DocBaseline.cfg MCDocumented.tla  (DocEntries likewise)
    tlapm RadarProofs.tla                         (FetchProofs and each *Theorems likewise)

Each run takes between a second and a few minutes with two workers.
