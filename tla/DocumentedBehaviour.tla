------------------------ MODULE DocumentedBehaviour ------------------------
(***************************************************************************)
(* What the repository's documents say of the deployed system, where the   *)
(* model of the code says otherwise, stated over Radar.  A history         *)
(* variable keeps the first answer of each feed.                           *)
(***************************************************************************)
EXTENDS Radar

VARIABLE firstAnswer   \* history: what each feed listed when it first answered

docVars == <<vars, firstAnswer>>

Listed(f) == {i \in FeedItems : FeedOf[i] = f /\ listing[i] # None}

\* A feed that answers for the first time, with items or without.
Answer(ok) ==
  firstAnswer' = [f \in Feeds |->
    IF f \in ok /\ firstAnswer[f] = None THEN Listed(f) ELSE firstAnswer[f]]

DocInit == Init /\ firstAnswer = [f \in Feeds |-> None]

DocNext ==
  \/ \E ok \in SUBSET Feeds, some \in SUBSET FeedItems :
       /\ FetchFeeds(ok, some) /\ UNCHANGED digestVars
       /\ Answer(ok)
  \/ /\ Next
     /\ ~(pc = "fetch" /\ pc' = "groups")
     /\ UNCHANGED firstAnswer

DocSpec     == DocInit /\ [][DocNext]_docVars
DocFairSpec == DocSpec /\ FetchFairness

---------------------------------------------------------------------------
\* README.md:48, "Their first successful fetch marks existing entries seen
\* without historical notification spam.  Later unseen entries are processed
\* exactly once.": the items a baseline swallows are those of the feed's
\* first answer.  An empty first answer makes no baseline.
BaselineIsFirstAnswer ==
  \A i \in baselined : firstAnswer[FeedOf[i]] # None /\ i \in firstAnswer[FeedOf[i]]

\* README.md:48 again, of a feed with a baseline: an item that stays in it is
\* processed to the end, that is, it is seen.  A process that stops between
\* the insert of an unimportant event and its verdict leaves a row that no
\* later fetch settles.
LaterEntriesAreProcessed ==
  \A i \in FeedItems :
    (listing[i] # None /\ FeedOf[i] \in baselines)
      ~> (listing[i] = None \/ i \in seen)
=============================================================================
