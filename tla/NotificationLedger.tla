------------------------- MODULE NotificationLedger -------------------------
(***************************************************************************)
(* What the radar promises about notifications, without processes, feeds   *)
(* or scores: every piece of news is entered once, whoever reports it; it  *)
(* is settled as sent, skipped or put off to the digest; it is called sent *)
(* only if a message about it is in the chat; and a settled entry changes  *)
(* no more, except that the digest settles what was put off to it.         *)
(***************************************************************************)
CONSTANTS Entries, News, NoNews

VARIABLES
  state,     \* the state of each entry
  news,      \* what each entry is about, NoNews before it is entered
  reached    \* the entries a message about which is in the chat

ledgerVars == <<state, news, reached>>

LedgerInit ==
  /\ state = [k \in Entries |-> "ABSENT"]
  /\ news = [k \in Entries |-> NoNews]
  /\ reached = {}

Become(ks, s) == state' = [k \in Entries |-> IF k \in ks THEN s ELSE state[k]]

\* Entered and not settled yet.
Open == {k \in Entries : state[k] \in {"PENDING", "FAILED", "DIGEST"}}

\* A piece of news that no entry is about yet.
Enter(k) ==
  /\ state[k] = "ABSENT"
  /\ Become({k}, "PENDING")
  /\ \E n \in News :
       /\ \A j \in Entries : state[j] # "ABSENT" => news[j] # n
       /\ news' = [news EXCEPT ![k] = n]
  /\ reached' = reached

\* Not worth an immediate message: for the digest, or for nobody.
PutOff(k) ==
  /\ state[k] = "PENDING" /\ k \notin reached
  /\ \E s \in {"DIGEST", "SKIPPED"} : Become({k}, s)
  /\ UNCHANGED <<news, reached>>

\* A message about the entries ks gets into the chat: one that waits for its
\* own message, or some of those that wait for the digest.
Post(ks) ==
  /\ \/ \E k \in Entries : ks = {k} /\ state[k] \in {"PENDING", "FAILED"}
     \/ \A k \in ks : state[k] = "DIGEST"
  /\ reached' = reached \cup ks
  /\ UNCHANGED <<state, news>>

\* They are settled as sent, which takes a message in the chat.
Settle(ks) ==
  /\ ks \subseteq reached
  /\ \/ \E k \in Entries : ks = {k} /\ state[k] \in {"PENDING", "FAILED"}
     \/ \A k \in ks : state[k] = "DIGEST"
  /\ Become(ks, "SENT")
  /\ UNCHANGED <<news, reached>>

Fail(k) ==
  /\ state[k] \in {"PENDING", "FAILED"}
  /\ Become({k}, "FAILED")
  /\ UNCHANGED <<news, reached>>

\* Releases too old for the digest.
Expire(ks) ==
  /\ \A k \in ks : state[k] = "DIGEST"
  /\ Become(ks, "SKIPPED")
  /\ UNCHANGED <<news, reached>>

LedgerNext ==
  \/ \E k \in Entries : Enter(k) \/ PutOff(k) \/ Fail(k)
  \/ \E ks \in SUBSET Open : Post(ks) \/ Settle(ks) \/ Expire(ks)

LedgerSpec == LedgerInit /\ [][LedgerNext]_ledgerVars
=============================================================================
