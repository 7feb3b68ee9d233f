---------------------------- MODULE LimitedFetch ----------------------------
(***************************************************************************)
(* services/http_safety.py: the download of an image.  Redirects are       *)
(* followed by hand, each target validated before it is asked, and the     *)
(* body is read in chunks up to a limit.  The server answers as it likes.  *)
(* What the caller sees is the bytes, one of the three exceptions it       *)
(* expects ("rejected"), or an exception it does not ("escaped").          *)
(***************************************************************************)
EXTENDS Naturals

CONSTANTS
  Urls,           \* addresses: the image's, and what Location headers hold
  Public,         \* those validate_public_http_url accepts
  Unjoinable,     \* Location values urljoin cannot parse: ValueError
  Unrequestable,  \* public addresses httpx refuses: httpx.InvalidURL
  NoUrl,          \* no image, or no Location header
  MaxRedirects,   \* max_redirects
  MaxBytes,       \* max_bytes
  MaxChunk        \* bound on a chunk, and on how far a declared length exceeds

ASSUME FetchAssumption ==
  /\ Public \subseteq Urls /\ Unjoinable \subseteq Urls
  /\ Unrequestable \subseteq Public
  /\ NoUrl \notin Urls
  /\ MaxRedirects \in Nat /\ MaxBytes \in Nat /\ MaxChunk \in Nat \ {0}

VARIABLES
  fpc,        \* what the download does next
  current,    \* the address it asks
  redirects,  \* redirect_count
  asked,      \* history: the number of requests made
  total,      \* the bytes read
  outcome     \* how the last download ended

downloadVars == <<fpc, current, redirects, asked, total, outcome>>

Outcomes == {"none", "bytes", "rejected", "escaped"}

DownloadTypeOK ==
  /\ fpc \in {"idle", "request", "body", "done"}
  /\ current \in Urls \cup {NoUrl}
  /\ redirects \in Nat /\ asked \in Nat /\ total \in Nat
  /\ outcome \in Outcomes

DownloadInit ==
  /\ fpc = "idle" /\ current = NoUrl
  /\ redirects = 0 /\ asked = 0 /\ total = 0 /\ outcome = "none"

---------------------------------------------------------------------------
Finish(o) == fpc' = "done" /\ outcome' = o

\* The first address is validated like every other.
BeginDownload(u) ==
  /\ redirects' = 0 /\ asked' = 0 /\ total' = 0 /\ current' = u
  /\ IF u \in Public THEN fpc' = "request" /\ outcome' = "none"
                     ELSE Finish("rejected")

\* httpx refuses the address itself: InvalidURL is no httpx.HTTPError.
RequestRefused ==
  /\ fpc = "request" /\ current \in Unrequestable
  /\ Finish("escaped")
  /\ UNCHANGED <<current, redirects, asked, total>>

\* A redirect whose count is checked after it is taken.
Redirected_OneMore(loc) ==
  /\ fpc = "request" /\ current \notin Unrequestable
  /\ asked' = asked + 1
  /\ IF loc = NoUrl \/ redirects > MaxRedirects \/ loc \notin Public THEN
       Finish("rejected") /\ UNCHANGED <<current, redirects>>
     ELSE
       /\ current' = loc /\ redirects' = redirects + 1
       /\ UNCHANGED <<fpc, outcome>>
  /\ total' = total

\* A redirect that is followed without being counted.
Redirected_Uncounted(loc) ==
  /\ fpc = "request" /\ loc \in Public /\ current' = loc
  /\ UNCHANGED <<fpc, redirects, asked, total, outcome>>

\* A redirect: raise_for_status when it has no target, too many of them, a
\* target that cannot be parsed, one that is not public, or on to the next.
Redirected(loc) ==
  /\ fpc = "request" /\ current \notin Unrequestable
  /\ asked' = asked + 1
  /\ IF loc = NoUrl \/ redirects >= MaxRedirects THEN
       Finish("rejected") /\ UNCHANGED <<current, redirects>>
     ELSE IF loc \in Unjoinable THEN
       Finish("escaped") /\ UNCHANGED <<current, redirects>>
     ELSE IF loc \notin Public THEN
       Finish("rejected") /\ UNCHANGED <<current, redirects>>
     ELSE
       /\ current' = loc /\ redirects' = redirects + 1
       /\ UNCHANGED <<fpc, outcome>>
  /\ total' = total

\* A body begins; it need not declare its length, nor tell the truth.
Answered(declared) ==
  /\ fpc = "request" /\ current \notin Unrequestable
  /\ asked' = asked + 1
  /\ IF declared > MaxBytes THEN Finish("rejected")
                            ELSE fpc' = "body" /\ outcome' = outcome
  /\ UNCHANGED <<current, redirects, total>>

\* An error status, a time-out, a broken connection: httpx.HTTPError.
NetworkError ==
  /\ \/ fpc = "request" /\ current \notin Unrequestable /\ asked' = asked + 1
     \/ fpc = "body" /\ asked' = asked
  /\ Finish("rejected")
  /\ UNCHANGED <<current, redirects, total>>

Chunk(n) ==
  /\ fpc = "body"
  /\ total' = total + n
  /\ IF total' > MaxBytes THEN Finish("rejected") ELSE UNCHANGED <<fpc, outcome>>
  /\ UNCHANGED <<current, redirects, asked>>

EndOfBody ==
  /\ fpc = "body"
  /\ Finish("bytes")
  /\ UNCHANGED <<current, redirects, asked, total>>

DownloadStep ==
  \/ RequestRefused \/ NetworkError \/ EndOfBody
  \/ \E loc \in Urls \cup {NoUrl} : Redirected(loc)
  \/ \E declared \in 0..(MaxBytes + MaxChunk) : Answered(declared)
  \/ \E n \in 1..MaxChunk : Chunk(n)

---------------------------------------------------------------------------
\* However the server redirects and whatever length it declares, it is asked
\* at most MaxRedirects + 1 times, only public addresses are asked, and no
\* more than MaxBytes are handed to the caller or kept while reading.
DownloadBounded ==
  /\ asked <= MaxRedirects + 1
  /\ fpc = "request" => current \in Public /\ asked = redirects
  /\ fpc = "body" \/ outcome = "bytes" => total <= MaxBytes
=============================================================================
