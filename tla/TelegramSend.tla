---------------------------- MODULE TelegramSend ----------------------------
(***************************************************************************)
(* notifications/telegram.py: one send after another.  A message with a    *)
(* valid image goes out as a document (the image downloaded first), else   *)
(* as a photo, else as text; each form may be confirmed, refused, or       *)
(* posted without a confirmation, which the program cannot tell from a     *)
(* refusal and which leads it on to the next form.                         *)
(***************************************************************************)
EXTENDS LimitedFetch

VARIABLES
  spc,      \* what the send does next: idle, or the form it tries
  image,    \* image_url
  tried,    \* history: the forms this send has tried
  verdict,  \* whether the last send returned or raised
  posted,   \* history: the messages of this send in the chat
  lost      \* history: those of them whose confirmation never arrived

sendVars == <<spc, image, tried, verdict, posted, lost>>
vars     == <<downloadVars, sendVars>>

Forms == {"document", "photo", "text"}

TypeOK ==
  /\ DownloadTypeOK
  /\ spc \in {"idle", "download"} \cup Forms
  /\ image \in Urls \cup {NoUrl}
  /\ tried \subseteq Forms
  /\ verdict \in {"none", "confirmed", "failed"}
  /\ posted \in Nat /\ lost \in Nat

Init ==
  /\ DownloadInit
  /\ spc = "idle" /\ image = NoUrl /\ tried = {} /\ verdict = "none"
  /\ posted = 0 /\ lost = 0

---------------------------------------------------------------------------
\* send and the first lines of _send_with_fallback: a missing or invalid
\* image leaves the text; image_delivery chooses the first form otherwise.
Send(img, delivery) ==
  /\ spc = "idle"
  /\ image' = img /\ tried' = {} /\ verdict' = "none" /\ posted' = 0 /\ lost' = 0
  /\ IF img \in Public /\ delivery = "document" THEN
       spc' = "download" /\ BeginDownload(img)
     ELSE
       /\ spc' = IF img \in Public THEN "photo" ELSE "text"
       /\ outcome' = "none" /\ UNCHANGED <<fpc, current, redirects, asked, total>>

Raise == spc' = "idle" /\ verdict' = "failed"

\* _send_document has the bytes, a rejected download, which counts as a
\* failed document, or an exception that nothing in the notifier catches.
Downloaded ==
  /\ spc = "download" /\ fpc = "done"
  /\ fpc' = "idle"
  /\ CASE outcome = "bytes"    -> spc' = "document" /\ verdict' = verdict
       [] outcome = "rejected" -> spc' = "photo" /\ verdict' = verdict
       [] OTHER                -> Raise
  /\ UNCHANGED <<current, redirects, asked, total, outcome, image, tried,
                 posted, lost>>

\* A photo whose failure is not caught.
FallBack_PhotoRaises(form) ==
  CASE form = "document" -> spc' = "photo" /\ verdict' = verdict
    [] OTHER             -> Raise

\* TelegramDeliveryError of one form leads on to the next; of the text it is
\* the caller's.
FallBack(form) ==
  CASE form = "document" -> spc' = "photo" /\ verdict' = verdict
    [] form = "photo"    -> spc' = "text" /\ verdict' = verdict
    [] OTHER             -> Raise

\* A confirmed document after which the photo is sent as well.
Confirmed_GoesOn(form) ==
  /\ spc = form
  /\ tried' = tried \cup {form} /\ posted' = posted + 1
  /\ IF form = "document" THEN spc' = "photo" /\ verdict' = verdict
                          ELSE spc' = "idle" /\ verdict' = "confirmed"
  /\ UNCHANGED <<lost, image, downloadVars>>

Confirmed(form) ==
  /\ spc = form
  /\ tried' = tried \cup {form} /\ posted' = posted + 1
  /\ spc' = "idle" /\ verdict' = "confirmed"
  /\ UNCHANGED <<lost, image, downloadVars>>

Refused(form) ==
  /\ spc = form
  /\ tried' = tried \cup {form}
  /\ FallBack(form)
  /\ UNCHANGED <<posted, lost, image, downloadVars>>

Unconfirmed(form) ==
  /\ spc = form
  /\ tried' = tried \cup {form}
  /\ posted' = posted + 1 /\ lost' = lost + 1
  /\ FallBack(form)
  /\ UNCHANGED <<image, downloadVars>>

SendStep ==
  \/ spc = "download" /\ DownloadStep /\ UNCHANGED sendVars
  \/ Downloaded
  \/ \E form \in Forms : Confirmed(form) \/ Refused(form) \/ Unconfirmed(form)

Next ==
  \/ \E img \in Urls \cup {NoUrl}, delivery \in {"document", "photo"} :
       Send(img, delivery)
  \/ SendStep

Spec == Init /\ [][Next]_vars

\* Each request and each read of a chunk has a time limit of its own.
FairSpec == Spec /\ WF_vars(SendStep)

---------------------------------------------------------------------------
\* A send that fails gave the text a try, unless the download ended in an
\* exception the notifier does not expect.
TextIsLastResort ==
  verdict = "failed" => "text" \in tried \/ outcome = "escaped"

\* A send without a usable image, as all of the digest's are, leaves at most
\* one message in the chat, and none besides the confirmed one; with an image
\* there may be two more, one for each form that lost its confirmation.
MessagesPerSend ==
  /\ posted = lost + IF verdict = "confirmed" THEN 1 ELSE 0
  /\ posted <= IF image \in Public THEN 3 ELSE 1

Contract == INSTANCE SendContract WITH sending <- spc # "idle"

\* The three forms and the download together are one send of the contract
\* the fetch and the digest processes rely on.
ContractKept == Contract!ContractSpec

\* Every send ends: redirects, chunks and forms are all bounded.
SendEnds == spc # "idle" ~> spc = "idle"

---------------------------------------------------------------------------
\* README.md:172, "When a source provides a stable HTTP(S) image URL,
\* Telegram uses `sendPhoto`; failures fall back to text": no send fails
\* before its text was tried.
FailuresFallBackToText == verdict = "failed" => "text" \in tried
=============================================================================
