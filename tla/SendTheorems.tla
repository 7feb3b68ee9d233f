---------------------------- MODULE SendTheorems ----------------------------
(***************************************************************************)
(* What holds of every send, for any addresses, limits and server: proved  *)
(* from an invariant that follows the send through its forms.              *)
(***************************************************************************)
EXTENDS TelegramSend, TLAPS

\* While it follows redirects the download has read nothing yet, and it
\* only stops with an outcome.
HopsInv ==
  /\ redirects <= MaxRedirects
  /\ fpc = "request" => total = 0
  /\ fpc = "done" => outcome # "none"

\* What each form may still find in the chat, and what a verdict says.
SendInv ==
  /\ TypeOK
  /\ DownloadBounded /\ HopsInv
  /\ spc # "download" => fpc = "idle"
  /\ spc # "idle" => verdict = "none"
  /\ spc \in {"download", "document", "photo"} => image \in Public
  /\ spc \in {"download", "document"} => posted = 0
  /\ spc = "photo" => posted <= 1
  /\ spc = "text" => posted <= IF image \in Public THEN 2 ELSE 0
  /\ TextIsLastResort /\ MessagesPerSend

LEMMA InitSend == Init => SendInv
BY FetchAssumption
   DEF Init, SendInv, HopsInv, TypeOK, DownloadInit, DownloadTypeOK, Outcomes, DownloadBounded,
       TextIsLastResort, MessagesPerSend

\* A step of the download keeps its bounds, whatever the server answers.
LEMMA DownloadSteps ==
  ASSUME DownloadTypeOK, DownloadBounded, HopsInv, DownloadStep
  PROVE  DownloadTypeOK' /\ DownloadBounded' /\ HopsInv'
<1> USE FetchAssumption DEF DownloadTypeOK, Outcomes, DownloadBounded, HopsInv, Finish
<1>1. CASE RequestRefused BY <1>1 DEF RequestRefused
<1>2. CASE NetworkError BY <1>2 DEF NetworkError
<1>3. CASE EndOfBody BY <1>3 DEF EndOfBody
<1>4. ASSUME NEW loc \in Urls \cup {NoUrl}, Redirected(loc)
      PROVE  DownloadTypeOK' /\ DownloadBounded' /\ HopsInv'
  BY <1>4 DEF Redirected
<1>5. ASSUME NEW declared \in 0..(MaxBytes + MaxChunk), Answered(declared)
      PROVE  DownloadTypeOK' /\ DownloadBounded' /\ HopsInv'
  <2>1. total' = total /\ outcome' \in Outcomes /\ fpc' \in {"body", "done"}
    BY <1>5 DEF Answered
  <2> QED BY <1>5, <2>1 DEF Answered
<1>6. ASSUME NEW n \in 1..MaxChunk, Chunk(n)
      PROVE  DownloadTypeOK' /\ DownloadBounded' /\ HopsInv'
  BY <1>6 DEF Chunk
<1> QED BY <1>1, <1>2, <1>3, <1>4, <1>5, <1>6 DEF DownloadStep

LEMMA StepSend == SendInv /\ [Next]_vars => SendInv'
<1> SUFFICES ASSUME SendInv, [Next]_vars PROVE SendInv'
  OBVIOUS
<1> USE FetchAssumption DEF SendInv, HopsInv
<1>1. ASSUME NEW img \in Urls \cup {NoUrl}, NEW delivery \in {"document", "photo"},
             Send(img, delivery)
      PROVE  SendInv'
  <2> USE DEF TypeOK, DownloadTypeOK, Outcomes, Forms, DownloadBounded,
              TextIsLastResort, MessagesPerSend
  <2>1. CASE img \in Public /\ delivery = "document"
    BY <1>1, <2>1 DEF Send, BeginDownload
  <2>2. CASE ~(img \in Public /\ delivery = "document")
    BY <1>1, <2>2 DEF Send
  <2> QED BY <2>1, <2>2
<1>2. CASE spc = "download" /\ DownloadStep /\ UNCHANGED sendVars
  <2>1. DownloadTypeOK' /\ DownloadBounded' /\ HopsInv'
    BY <1>2, DownloadSteps DEF TypeOK
  <2> QED BY <1>2, <2>1 DEF sendVars, TypeOK, TextIsLastResort, MessagesPerSend
<1>3. CASE Downloaded
  <2>1. /\ spc = "download" /\ verdict = "none" /\ image \in Public /\ posted = 0
        /\ fpc' = "idle"
        /\ UNCHANGED <<current, redirects, asked, total, outcome, image, tried,
                       posted, lost>>
    BY <1>3 DEF Downloaded
  <2>2. \/ spc' \in {"document", "photo"} /\ verdict' = verdict
        \/ spc' = "idle" /\ verdict' = "failed" /\ outcome = "escaped"
    <3>1. outcome \in Outcomes \ {"none"}
      BY <1>3 DEF Downloaded, TypeOK, DownloadTypeOK
    <3> QED BY <1>3, <3>1 DEF Downloaded, Raise, Outcomes
  <2>3. TypeOK' BY <2>1, <2>2 DEF TypeOK, DownloadTypeOK, Forms
  <2>4. DownloadBounded' BY <2>1 DEF DownloadBounded
  <2> QED BY <2>1, <2>2, <2>3, <2>4 DEF TypeOK, TextIsLastResort, MessagesPerSend
<1>4. ASSUME NEW form \in Forms, Confirmed(form) \/ Refused(form) \/ Unconfirmed(form)
      PROVE  SendInv'
  BY <1>4 DEF Confirmed, Refused, Unconfirmed, FallBack, Raise, downloadVars, TypeOK,
              DownloadTypeOK, Outcomes, Forms, DownloadBounded, TextIsLastResort,
              MessagesPerSend
<1>5. CASE UNCHANGED vars
  BY <1>5 DEF vars, downloadVars, sendVars, TypeOK, DownloadTypeOK, DownloadBounded,
              TextIsLastResort, MessagesPerSend
<1> QED BY <1>1, <1>2, <1>3, <1>4, <1>5 DEF Next, SendStep

LEMMA SendInvariance == Spec => []SendInv
BY InitSend, StepSend, PTL DEF Spec

\* The download asks public addresses only, at most MaxRedirects + 1 times,
\* and never keeps more than MaxBytes, for any limits and any server.
THEOREM DownloadIsBounded == Spec => []DownloadBounded
<1>1. SendInv => DownloadBounded BY DEF SendInv
<1> QED BY <1>1, SendInvariance, PTL

\* One send leaves at most three messages in the chat, one if it has no
\* usable image, and exactly one more than it lost when it is confirmed.
THEOREM MessagesAreBounded == Spec => []MessagesPerSend
<1>1. SendInv => MessagesPerSend BY DEF SendInv
<1> QED BY <1>1, SendInvariance, PTL

\* Unless the download ends in an unexpected exception, no send fails before
\* the text was tried.
THEOREM TextIsTried == Spec => []TextIsLastResort
<1>1. SendInv => TextIsLastResort BY DEF SendInv
<1> QED BY <1>1, SendInvariance, PTL

\* Document, photo, text and the download are together one send of the
\* contract: every step is one of its steps or none.
THEOREM ContractImplemented == Spec => ContractKept
<1>1. Init => Contract!ContractInit
  BY DEF Init, Contract!ContractInit
<1>2. SendInv /\ [Next]_vars => [Contract!ContractNext]_(Contract!contractVars)
  <2> SUFFICES ASSUME SendInv, [Next]_vars
               PROVE  Contract!ContractNext \/ UNCHANGED Contract!contractVars
    OBVIOUS
  <2> USE DEF Contract!ContractNext, Contract!contractVars
  <2>1. ASSUME NEW img \in Urls \cup {NoUrl}, NEW delivery \in {"document", "photo"},
               Send(img, delivery)
        PROVE  Contract!Begin
    BY <2>1 DEF Send, Contract!Begin
  <2>2. CASE spc = "download" /\ DownloadStep /\ UNCHANGED sendVars
    BY <2>2 DEF sendVars
  <2>3. CASE Downloaded
    BY <2>3 DEF Downloaded, Raise, Contract!GiveUp, SendInv, TypeOK, DownloadTypeOK, Outcomes
  <2>4. ASSUME NEW form \in Forms, Confirmed(form)
        PROVE  Contract!Confirm
    BY <2>4 DEF Confirmed, Forms, Contract!Confirm
  <2>5. ASSUME NEW form \in Forms, Refused(form)
        PROVE  Contract!GiveUp \/ UNCHANGED Contract!contractVars
    BY <2>5 DEF Refused, FallBack, Raise, Forms, Contract!GiveUp
  <2>6. ASSUME NEW form \in Forms, Unconfirmed(form)
        PROVE  Contract!PostUnconfirmed
    BY <2>6 DEF Unconfirmed, FallBack, Raise, Forms, Contract!PostUnconfirmed
  <2>7. CASE UNCHANGED vars
    BY <2>7 DEF vars, sendVars
  <2> QED BY <2>1, <2>2, <2>3, <2>4, <2>5, <2>6, <2>7 DEF Next, SendStep
<1> QED
  BY <1>1, <1>2, SendInvariance, PTL DEF Spec, ContractKept, Contract!ContractSpec
=============================================================================
