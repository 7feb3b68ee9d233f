----------------------------- MODULE MCSources -----------------------------
(***************************************************************************)
(* An instance of the source adapters for TLC.  A behaviour is one call of *)
(* fetch_events, of VNDB's adapter or of a feed adapter: Pipeline calls    *)
(* one after the other, and they share no state.                           *)
(*                                                                         *)
(* VNDB: four VNs, a followed title, two followed developers and the       *)
(* discovery.  Two VNs share a Steam game, one by a link of its own and    *)
(* one by its releases; the third has a malformed link, the releases of    *)
(* the fourth name Steam's app 0, and its date is impossible.  The         *)
(* configuration maps one of the Steam games and the blog, and names       *)
(* another game without its VN.  Feeds: two of two and one items, days of  *)
(* three hours, every offset of less than a day.                           *)
(***************************************************************************)
EXTENDS VndbAdapter, FeedAdapter, TLC

CONSTANTS v1, v2, v3, v4, p1, p2, game, sequel, bare, app0, blog, invalid, title, dev1, dev2

OneTitle == <<title>>
MCMatches == title :> {v1, v2}
TwoDevelopers == <<dev1, dev2>>
MCDevelopersOf == v1 :> {p1} @@ v2 :> {p1, p2} @@ v3 :> {p2} @@ v4 :> {}
MCLinks == v1 :> {game, blog} @@ v2 :> {} @@ v3 :> {sequel, invalid} @@
  v4 :> {blog}
MCReleaseLinks == v1 :> {} @@ v2 :> {game, sequel, bare} @@ v3 :> {} @@
  v4 :> {bare, app0}
MCConfigured ==
  sequel :> [vn |-> v1, devs |-> {p1}] @@ blog :> [vn |-> v2, devs |-> {}] @@
  bare :> [vn |-> None, devs |-> {}]

CONSTANTS f1, f2, a1, a2, b1

FeedOfItem == a1 :> f1 @@ a2 :> f1 @@ b1 :> f2
AnyOffset  == (1 - HoursPerDay)..(HoursPerDay - 1)
East       == {1}

sourcesVars == <<vndbVars, adapterVars>>

\* The adapter that is not called.
NoVndb ==
  /\ stage = "failed" /\ attempt = 0 /\ titles = <<>> /\ developers = <<>>
  /\ producer = None /\ producers = {} /\ found = <<>> /\ merged = 0
  /\ apps = NoApps /\ page = 1
  /\ followed = Configured /\ resolved = {} /\ discovered = {} /\ told = {}

NoAdapter ==
  /\ adapter = "rss" /\ published = [i \in Items |-> Undated] /\ offset = 1 /\ since = 0
  /\ apc = "done" /\ left = {} /\ feed = NoFeed
  /\ entries = {} /\ list = {} /\ result = {} /\ broken = Feeds

SourcesInit == (VndbInit /\ NoAdapter) \/ (NoVndb /\ AdapterInit)

SourcesNext ==
  \/ VndbNext /\ UNCHANGED adapterVars
  \/ AdapterNext /\ UNCHANGED vndbVars

SourcesSpec == SourcesInit /\ [][SourcesNext]_sourcesVars /\ VndbFairness
=============================================================================
