--------------------------- MODULE SessionBackup ---------------------------
(***************************************************************************)
(* Copies of the credentials of a WhatsApp session                         *)
(* (src/src/whatsapp/session-backup.ts) and their storage                  *)
(* (LocalBackupStorage in src/src/config/backup-storage.ts): a bundle of   *)
(* the session's files, in a coat of encryption with the caller's key, is  *)
(* written to the output directory and then uploaded, where it may get a   *)
(* second coat with the key of the storage.  Nothing in the program calls  *)
(* these functions yet; the caller here does so in any legal order, while  *)
(* the session goes on writing its files.                                  *)
(*                                                                         *)
(* Abstractions:                                                           *)
(*  - a text is the bundle it holds, its coats and whether it is all       *)
(*    there; what is not all there parses under no key (the padding of the *)
(*    cipher, or the JSON, is wrong);                                      *)
(*  - the keys given are the right ones, and one backup is made;           *)
(*  - names, sizes, list() and the checksums of the storage are left out.  *)
(***************************************************************************)
EXTENDS Naturals, Sequences

CONSTANTS
  SessionFile, \* the .json files of the session directory
  MaxWrites    \* bound: versions of each

ASSUME SessionBackupAssumption == MaxWrites \in Nat \ {0}

VARIABLES
  chosen,   \* encrypt; BACKUP_ENCRYPTION_KEY; the provider; whether the
            \* storage has a directory of its own; more than one chunk of data
  session,  \* the version of each file
  read,     \* the versions backupWhatsAppSession has read, 0 if not yet
  saving, fetching, putting, \* how far backup, download and restore are
  local, remote, fetched,    \* the texts in the three places
  put       \* the files still to be written back

sessionBackupVars == <<chosen, session, read, saving, fetching, putting, local, remote, fetched, put>>

NoText == [of |-> << >>, coats |-> << >>, whole |-> FALSE]

SessionBackupInit ==
  /\ chosen \in [encrypt : BOOLEAN, storageKey : BOOLEAN, provider : {"local", "s3"}, apart : BOOLEAN, chunks : BOOLEAN]
  /\ session = [f \in SessionFile |-> 1] /\ read = [f \in SessionFile |-> 0]
  /\ saving = "no" /\ fetching = "no" /\ putting = "no" /\ put = {}
  /\ local = NoText /\ remote = NoText /\ fetched = NoText

Saved == <<chosen, session, read, saving, local>>
Fetching == <<fetching, fetched>>
Putting == <<putting, put>>

SessionWrites(f) ==
  /\ session[f] < MaxWrites /\ session' = [session EXCEPT ![f] = @ + 1]
  /\ UNCHANGED <<chosen, read, saving, local, remote, Fetching, Putting>>

-----------------------------------------------------------------------------
(* backupWhatsAppSession: one file after the other, then the bundle        *)

ReadSessionFile(f) ==
  /\ saving \in {"no", "reading"} /\ saving' = "reading"
  /\ read[f] = 0 /\ read' = [read EXCEPT ![f] = session[f]]
  /\ UNCHANGED <<chosen, session, local, remote, Fetching, Putting>>

SaveBundle ==
  /\ saving = "reading" /\ \A f \in SessionFile : read[f] # 0
  /\ saving' = "saved"
  /\ local' = [of |-> read, coats |-> IF chosen.encrypt THEN <<"bundle">> ELSE << >>, whole |-> TRUE]
  /\ UNCHANGED <<chosen, session, read, remote, Fetching, Putting>>

-----------------------------------------------------------------------------
(* upload: an option without a key encrypts nothing                        *)

Coated(text) ==
  IF chosen.encrypt /\ chosen.storageKey THEN [text EXCEPT !.coats = Append(@, "storage")] ELSE text

(* The copy is a stream into a stream.  In the same directory they are the *)
(* same file, which opening it for writing empties, before it is read, or  *)
(* while, or after.                                                        *)
Upload ==
  /\ saving = "saved" /\ saving' = "offered" /\ chosen.provider = "local"
  /\ IF chosen.apart
     THEN remote' = Coated(local) /\ UNCHANGED local
     ELSE \E w \in BOOLEAN : local' = [Coated(local) EXCEPT !.whole = w] /\ remote' = local'
  /\ UNCHANGED <<chosen, session, read, Fetching, Putting>>

(* not implemented for s3, or failing on the way: a warning                *)
UploadFails ==
  /\ saving = "saved" /\ saving' = "not offered"
  /\ IF chosen.provider = "local"
     THEN /\ remote' = [Coated(local) EXCEPT !.whole = FALSE]
          /\ local' = IF chosen.apart THEN local ELSE remote'
     ELSE UNCHANGED <<local, remote>>
  /\ UNCHANGED <<chosen, session, read, Fetching, Putting>>

-----------------------------------------------------------------------------
(* download with decrypt: it resolves once sixteen bytes have arrived, and *)
(* of an empty file never                                                  *)

\* a plausible mistake: what was encrypted is copied as it is
Copied(text) == text

Peeled(text) ==
  IF text.coats # << >> /\ text.coats[Len(text.coats)] = "storage"
  THEN [text EXCEPT !.coats = SubSeq(@, 1, Len(@) - 1)] ELSE [text EXCEPT !.whole = FALSE]

Decrypts == chosen.encrypt /\ chosen.storageKey

Download ==
  /\ fetching = "no" /\ remote # NoText
  /\ IF Decrypts
     THEN fetching' = "streaming" /\ fetched' = [Peeled(remote) EXCEPT !.whole = FALSE]
     ELSE fetching' = "done" /\ fetched' = remote
  /\ UNCHANGED <<remote, Saved, Putting>>

(* from the second chunk on each is handled twice, by two deciphers        *)
DownloadEnds ==
  /\ fetching = "streaming" /\ fetching' = "done"
  /\ fetched' = [fetched EXCEPT !.whole = Peeled(remote).whole /\ ~chosen.chunks]
  /\ UNCHANGED <<remote, Saved, Putting>>

-----------------------------------------------------------------------------
(* verifySessionBackup with the checksum of the bundle, and what a         *)
(* restoration must be able to read                                        *)

Readable(text) == text.whole /\ text.coats = IF chosen.encrypt THEN <<"bundle">> ELSE << >>

Verified(text) == Readable(text) /\ text.of = read

RestoreSession(text) ==
  /\ putting = "no" /\ Readable(text) /\ putting' = "writing" /\ put' = DOMAIN text.of
  /\ UNCHANGED <<remote, Saved, Fetching>>

RestoreFile(f) ==
  /\ putting = "writing" /\ f \in put /\ put' = put \ {f}
  /\ session' = [session EXCEPT ![f] = read[f]]
  /\ putting' = IF put' = {} THEN "done" ELSE "writing"
  /\ UNCHANGED <<chosen, read, saving, local, remote, Fetching>>

SessionBackupNext ==
  \/ \E f \in SessionFile : SessionWrites(f) \/ ReadSessionFile(f) \/ RestoreFile(f)
  \/ SaveBundle \/ Upload \/ UploadFails \/ Download \/ DownloadEnds
  \/ RestoreSession(local) \/ RestoreSession(fetched)

-----------------------------------------------------------------------------
(* A backup that was made can be restored: from the output directory if    *)
(* the storage has another; from the storage, through all coats, if the    *)
(* upload ended and what is encrypted twice is no more than a chunk.       *)
CopiesAreRestorable ==
  /\ saving \in {"saved", "offered", "not offered"} /\ (chosen.apart \/ chosen.provider = "s3") => Verified(local)
  /\ saving = "offered" /\ chosen.apart /\ fetching = "done" /\ (Decrypts => ~chosen.chunks) => Verified(fetched)
=============================================================================
