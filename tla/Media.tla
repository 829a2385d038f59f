------------------------------- MODULE Media ---------------------------------
(***************************************************************************)
(* Pictures, documents, voice notes and places customers send: what the    *)
(* bot makes of a message, the bounded download into files named by their  *)
(* content, the transcription, the row that remembers it, the refusal of   *)
(* what cannot be used (src/src/whatsapp/media-input.ts,                   *)
(* media-input-store.ts, connection.ts), and the removal of a customer's   *)
(* files (src/src/admin/customer-data.ts).  A message is worked on again   *)
(* after a crash or a passing failure; how often is InboundQueue's matter. *)
(***************************************************************************)
EXTENDS Naturals, FiniteSets

CONSTANTS
  Posts,       \* the messages: [from, kind, content, size, allowed]
  MaxSent,     \* bound: how many of them are sent
  MaxTroubles  \* bound: crashes and passing failures

Post == DOMAIN Posts
Sender == {Posts[p].from : p \in Post}
Content == {Posts[p].content : p \in Post}

VARIABLES
  handling,  \* per message: how far its handling is; "gone" when it is not there
  partial,   \* messages whose temporary file was left behind
  folder,    \* the contents in the media folder
  media,     \* per message: its row, "none", "failed", "downloaded" or "transcribed"
  refused,   \* messages recorded as failed for good
  apologies, \* messages whose sender is sent the apology
  alerts,    \* messages the operator is alerted of
  handed,    \* customers handed over to a human for it
  removing,  \* per customer: the contents still to be removed with the customer's data
  erased,    \* customers whose data was deleted
  unmarked,  \* ghost: messages refused while the insertion of their row failed
  troubles   \* crashes and passing failures so far

mediaVars ==
  <<handling, partial, folder, media, refused, apologies, alerts, handed, removing, erased, unmarked,
    troubles>>

MediaInit ==
  /\ handling \in [Post -> {"queued", "gone"}]
  /\ Cardinality({p \in Post : handling[p] = "queued"}) <= MaxSent
  /\ partial = {} /\ folder = {}
  /\ media = [p \in Post |-> "none"] /\ refused = {} /\ apologies = {} /\ alerts = {} /\ handed = {}
  /\ removing = [c \in Sender |-> {}] /\ erased = {} /\ unmarked = {} /\ troubles = 0

Filed(p) == Posts[p].kind \in {"image", "document", "voice"}

\* A voice note is a push-to-talk recording; a place needs coordinates that exist.
Understood(p) == Posts[p].kind # "odd" /\ (Posts[p].kind = "place" => Posts[p].allowed)

-----------------------------------------------------------------------------
(* Handling a message.                                                     *)

\* The content is read, its format and declared size checked; a text or a place needs no file.
Take(p) ==
  /\ handling[p] = "queued"
  /\ handling' = [handling EXCEPT ![p] =
       IF ~Understood(p) THEN "recording"
       ELSE IF ~Filed(p) THEN "answering"
       ELSE IF ~Posts[p].allowed \/ Posts[p].size = "declared too large" THEN "recording"
       ELSE "downloading"]
  /\ UNCHANGED <<partial, folder, media, refused, apologies, alerts, handed, removing, erased, unmarked, troubles>>

\* A download past the limit is given up and its temporary file removed; one that ends is put in place whole.
Fetch(p) ==
  /\ handling[p] = "downloading"
  /\ IF Posts[p].size = "too large" THEN handling' = [handling EXCEPT ![p] = "recording"] /\ UNCHANGED folder
     ELSE /\ folder' = folder \union {Posts[p].content}
          /\ handling' = [handling EXCEPT ![p] = IF Posts[p].kind = "voice" THEN "transcribing" ELSE "saving"]
  /\ UNCHANGED <<partial, media, refused, apologies, alerts, handed, removing, erased, unmarked, troubles>>

\* The transcriber reads the file; what it hears may be nothing.
Transcribe(p) ==
  /\ handling[p] = "transcribing" /\ Posts[p].content \in folder
  /\ \E next \in {"saving", "recording"} : handling' = [handling EXCEPT ![p] = next]
  /\ UNCHANGED <<partial, folder, media, refused, apologies, alerts, handed, removing, erased, unmarked, troubles>>

\* A plausible slip: the message counts as answered although nothing is on record.
InsertedNever(p, status) == media

\* The row of a message is written once.
Inserted(p, status) == [media EXCEPT ![p] = IF @ = "none" THEN status ELSE @]

Save(p) ==
  /\ handling[p] = "saving"
  /\ media' = Inserted(p, IF Posts[p].kind = "voice" THEN "transcribed" ELSE "downloaded")
  /\ handling' = [handling EXCEPT ![p] = "answering"]
  /\ UNCHANGED <<partial, folder, refused, apologies, alerts, handed, removing, erased, unmarked, troubles>>

\* The rest of the conversation, which may fail and be tried again.
Answered(p) ==
  /\ handling[p] = "answering" /\ handling' = [handling EXCEPT ![p] = "done"]
  /\ UNCHANGED <<partial, folder, media, refused, apologies, alerts, handed, removing, erased, unmarked, troubles>>

-----------------------------------------------------------------------------
(* Refusing a message for good: the steps in their order.                  *)

RefusalSteps == {"recording", "marking", "apologising", "handing over", "alerting"}

After(step) ==
  CASE step = "recording" -> "marking" [] step = "marking" -> "apologising"
    [] step = "apologising" -> "handing over" [] step = "handing over" -> "alerting"
    [] step = "alerting" -> "failed"

Refuse(p) ==
  /\ handling[p] \in RefusalSteps
  /\ handling' = [handling EXCEPT ![p] = After(@)]
  /\ refused' = IF handling[p] = "recording" THEN refused \union {p} ELSE refused
  /\ media' = IF handling[p] = "marking" /\ Filed(p) THEN Inserted(p, "failed") ELSE media
  /\ apologies' = IF handling[p] = "apologising" THEN apologies \union {p} ELSE apologies
  /\ handed' = IF handling[p] = "handing over" THEN handed \union {Posts[p].from} ELSE handed
  /\ alerts' = IF handling[p] = "alerting" THEN alerts \union {p} ELSE alerts
  /\ UNCHANGED <<partial, folder, removing, erased, unmarked, troubles>>

\* The row of a refused message cannot be written: the failure is ignored and the refusal goes on.
RefuseUnmarked(p) ==
  /\ handling[p] = "marking" /\ Filed(p) /\ troubles < MaxTroubles /\ troubles' = troubles + 1
  /\ handling' = [handling EXCEPT ![p] = After(@)] /\ unmarked' = unmarked \union {p}
  /\ UNCHANGED <<partial, folder, media, refused, apologies, alerts, handed, removing, erased>>

\* A passing failure of any other step: the message waits to be tried again.
Stumble(p) ==
  /\ handling[p] \notin {"queued", "marking", "done", "failed", "gone"} /\ troubles < MaxTroubles
  /\ troubles' = troubles + 1 /\ handling' = [handling EXCEPT ![p] = "queued"]
  /\ UNCHANGED <<partial, folder, media, refused, apologies, alerts, handed, removing, erased, unmarked>>

\* The process dies: a download leaves its temporary file, and a removal what it had not removed.
Die ==
  /\ troubles < MaxTroubles /\ troubles' = troubles + 1
  /\ partial' = partial \union {p \in Post : handling[p] = "downloading"}
  /\ handling' = [p \in Post |-> IF handling[p] \in {"done", "failed", "gone"} THEN handling[p] ELSE "queued"]
  /\ removing' = [c \in Sender |-> {}]
  /\ UNCHANGED <<folder, media, refused, apologies, alerts, handed, erased, unmarked>>

-----------------------------------------------------------------------------
(* Deleting a customer's data: the rows in one transaction, then the files *)
(* the rows named, whoever else's rows name them.                          *)

EraseRows(c) ==
  /\ c \notin erased /\ erased' = erased \union {c}
  /\ LET own == {p \in Post : Posts[p].from = c}
     IN  /\ removing' = [removing EXCEPT ![c] =
              {Posts[p].content : p \in {q \in own : media[q] \in {"downloaded", "transcribed"}}}]
         /\ media' = [p \in Post |-> IF p \in own THEN "none" ELSE media[p]]
         /\ refused' = refused \ own
         /\ apologies' = apologies \ own
         /\ handling' = [p \in Post |-> IF p \in own /\ handling[p] = "queued" THEN "gone" ELSE handling[p]]
  /\ handed' = handed \ {c}
  /\ UNCHANGED <<partial, folder, alerts, unmarked, troubles>>

RemoveFile(c) ==
  /\ \E content \in removing[c] :
       folder' = folder \ {content} /\ removing' = [removing EXCEPT ![c] = @ \ {content}]
  /\ UNCHANGED <<handling, partial, media, refused, apologies, alerts, handed, erased, unmarked, troubles>>

MediaNext ==
  \/ \E p \in Post : Take(p) \/ Fetch(p) \/ Transcribe(p) \/ Save(p) \/ Answered(p) \/ Refuse(p) \/ RefuseUnmarked(p) \/ Stumble(p)
  \/ Die
  \/ \E c \in Sender : EraseRows(c) \/ RemoveFile(c)

-----------------------------------------------------------------------------
(* Correctness.                                                            *)

\* A message's row names a file that is there, unless a deletion removed the same
\* content; one answered has its row; one refused for good is recorded as failed, has told
\* its sender and the operator and is handed over, whatever failed on the way, and has its
\* row too unless the insertion of it failed; and the only temporary files left are those
\* of a download a crash cut off.
MediaIsKept ==
  \A p \in Post :
    LET senders == {Posts[q].from : q \in {q \in Post : Posts[q].content = Posts[p].content}}
    IN  /\ media[p] \in {"downloaded", "transcribed"} /\ senders \cap erased = {} => Posts[p].content \in folder
        /\ handling[p] = "done" /\ Filed(p) /\ Posts[p].from \notin erased => media[p] # "none"
        /\ handling[p] = "failed" /\ Posts[p].from \notin erased =>
             /\ p \in refused \cap apologies \cap alerts /\ Posts[p].from \in handed
             /\ Filed(p) => media[p] # "none" \/ p \in unmarked
        /\ p \in partial => troubles > 0
=============================================================================
