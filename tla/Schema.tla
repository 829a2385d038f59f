------------------------------- MODULE Schema --------------------------------
(***************************************************************************)
(* The tables of the program and how an older database becomes this one    *)
(* (src/src/config/schema.ts): the migrations, each in the transaction     *)
(* that records it, and the repairs of every start.  A start may fail or   *)
(* die at any step and is tried again; between starts the program serves.  *)
(*                                                                         *)
(* A table is the set of its columns; their types, the indexes that only   *)
(* make queries faster and the triggers of the append-only tables are left *)
(* out.  Of the rows kept here, chats are told apart as a migration does:  *)
(* by the ending of their JID.                                             *)
(***************************************************************************)
EXTENDS Naturals, Sequences, FiniteSets

CONSTANTS
  KindOf,      \* per chat: "person", "hidden" (@lid) or "group"
  MaxRequests, \* bound: rows of handoff_log
  MaxStarts    \* bound: starts of the program

ASSUME SchemaAssumption == MaxRequests \in Nat

Chat == DOMAIN KindOf
LastVersion == 11

VARIABLES
  tables,   \* the tables that exist, with their columns
  recorded, \* versions in schema_migrations
  edited,   \* a version whose recorded checksum is not the code's, 0 for none
  unique,   \* uq_handoff_log_active_jid exists
  requests, \* handoff_log
  letters,  \* inbound_messages: per chat "pending" or "completed"
  phone,    \* leads.phone: per chat "none", "own" (digits of the JID) or "given"; "absent" without a lead
  server,   \* how far the program is
  starts,   \* its starts
  awaited,  \* ghost: per chat, the latest request it waits on, 0 for none
  owed      \* ghost: chats with a message to be answered when the upgrade began

schemaVars == <<tables, recorded, edited, unique, requests, letters, phone, server, starts, awaited, owed>>

-----------------------------------------------------------------------------
(* What each version creates and adds.                                     *)

Queue ==
  {"id", "jid", "payload", "status", "attempts", "max_attempts", "available_at", "lease_until",
   "lease_token", "last_error", "created_at", "updated_at"}

PostgresBaseline ==
  [auth_keys |-> {"id", "data"},
   chat_history |-> {"id", "jid", "role", "content", "created_at"},
   leads |-> {"jid", "name", "phone", "address", "preferences", "status", "notes", "created_at", "updated_at"},
   handoff_log |-> {"id", "jid", "reason", "resolved", "created_at"},
   chat_state |-> {"jid", "stage", "data", "updated_at"},
   orders |-> {"id", "jid", "aroma", "variant", "quality", "size_ml", "quantity", "product_price", "customer_name",
               "phone", "address", "shipping_option", "shipping_cost", "status", "created_at", "updated_at"},
   lookup_cache |-> {"query_hash", "query_text", "result", "provider", "created_at"},
   inbound_messages |-> Queue \union {"provider_message_id", "completed_at"},
   outbound_messages |-> Queue \union {"dedupe_key", "provider_message_id", "sent_at"}]

OrderDetails == {"product_name", "package_size", "options", "customer_data"}

SqliteBaseline == [PostgresBaseline EXCEPT !["orders"] = @ \union OrderDetails]

Lifecycle ==
  [audit_events |-> {"id", "event_type", "aggregate_type", "aggregate_id", "actor", "data", "created_at"},
   payment_events |-> {"id", "provider_event_id", "order_id", "event_type", "status", "payload", "created_at"},
   outbound_intents |-> {"id", "dedupe_key", "jid", "intent_type", "payload", "created_at"}]

BackupRuns ==
  [backup_runs |-> {"id", "driver", "trigger_type", "status", "backup_path", "checksum_sha256", "size_bytes",
                    "started_at", "completed_at", "error_message"}]

MediaInput ==
  [inbound_media |-> {"id", "provider_message_id", "jid", "media_kind", "purpose", "mime_type", "original_file_name",
                      "size_bytes", "checksum_sha256", "storage_path", "status", "caption", "transcription",
                      "error_code", "created_at", "updated_at"},
   inbound_media_failures |-> {"id", "provider_message_id", "jid", "error_code", "customer_response", "created_at"}]

PackageD ==
  [communication_preferences |-> {"jid", "marketing_opt_in", "consented_at", "opted_out_at", "source", "updated_at"}]

HandoffColumns ==
  {"status", "priority", "assigned_operator", "accepted_at", "first_response_at", "resolved_at", "resolution_note",
   "sla_due_at", "updated_at"}

PackageE ==
  [knowledge_corpus_versions |-> {"id", "status", "source_checksum", "document_count", "chunk_count", "error_message",
                                  "created_at", "activated_at"},
   knowledge_documents |-> {"id", "corpus_version_id", "file_name", "media_type", "checksum", "byte_size", "content",
                            "extracted_chars", "metadata"},
   knowledge_chunks |-> {"id", "corpus_version_id", "document_id", "chunk_index", "content", "char_start", "char_end",
                         "token_count", "metadata"},
   knowledge_ingestion_jobs |-> (Queue \ {"jid", "payload"}) \union {"reason", "corpus_version_id", "completed_at"},
   knowledge_active_corpus |-> {"singleton_id", "corpus_version_id", "updated_at"}]

PostSendColumns == {"post_send_action", "post_send_status"}
DeliveryColumns == {"processed_at", "last_error"}
FulfillmentColumns ==
  {"tracking_number", "shipping_carrier", "shipped_at", "completed_at", "cancelled_at", "cancellation_reason"}

\* CREATE TABLE IF NOT EXISTS: a table that is there stays as it is.
Created(v) ==
  CASE v = 1 -> {PostgresBaseline, SqliteBaseline} [] v = 2 -> {Lifecycle} [] v = 3 -> {BackupRuns}
    [] v = 4 -> {MediaInput} [] v = 5 -> {PackageD} [] v = 6 -> {PackageE} [] OTHER -> {<< >>}

\* addColumnIfMissing
Added(v) ==
  CASE v = 1 -> [orders |-> OrderDetails] [] v = 5 -> [handoff_log |-> HandoffColumns]
    [] v = 8 -> [outbound_messages |-> PostSendColumns] [] v = 9 -> [outbound_intents |-> DeliveryColumns]
    [] v = 10 -> [orders |-> FulfillmentColumns] [] OTHER -> << >>

Columns(db, t) == IF t \in DOMAIN db THEN db[t] ELSE {}

Migrated(db, v, new) ==
  [t \in DOMAIN db \union DOMAIN new |->
     (IF t \in DOMAIN db THEN db[t] ELSE new[t]) \union Columns(Added(v), t)]

-----------------------------------------------------------------------------
(* What versions do to the rows.                                           *)

Active(log, c) == {i \in DOMAIN log : log[i].of = c /\ ~log[i].resolved}
Newest(rows) == IF rows = {} THEN 0 ELSE CHOOSE i \in rows : \A k \in rows : k <= i
Settled(row) == [row EXCEPT !.resolved = TRUE, !.status = "resolved"]

\* A plausible slip: the rows are ranked the other way round.
SupersededByFirst(log) ==
  UNION {{i \in Active(log, c) : \E k \in Active(log, c) : k < i} : c \in Chat}

\* Of the active rows of a chat all but the newest are resolved.
Superseded(log) == UNION {Active(log, c) \ {Newest(Active(log, c))} : c \in Chat}

Rewritten(log, v) ==
  CASE v = 5 -> [i \in DOMAIN log |-> [log[i] EXCEPT !.status = "waiting"]]
    [] v = 7 -> [i \in DOMAIN log |-> IF i \in Superseded(log) THEN Settled(log[i]) ELSE log[i]]
    [] v = 11 -> [i \in DOMAIN log |->
                    IF KindOf[log[i].of] = "group" /\ ~log[i].resolved THEN Settled(log[i]) ELSE log[i]]
    [] OTHER -> log

-----------------------------------------------------------------------------
(* The database an older release left, or none, or one from before the     *)
(* versions were recorded.                                                 *)

\* Every table has the columns it was created with and those added to it since.
LeftBy(v, base) ==
  LET new(w) == IF w = 1 THEN base ELSE CHOOSE new \in Created(w) : TRUE
  IN  [t \in UNION {DOMAIN new(w) : w \in 1..v} |->
         UNION {Columns(new(w), t) \union Columns(Added(w), t) : w \in 1..v}]

LeftRow(v) ==
  {[of |-> c, resolved |-> r,
    status |-> IF v < 5 THEN "unknown" ELSE IF r THEN "resolved" ELSE "waiting"] : c \in Chat, r \in BOOLEAN}

SchemaInit ==
  \E v \in 0..LastVersion, base \in {PostgresBaseline, SqliteBaseline} :
    /\ recorded = 1..v /\ edited \in {0, v} /\ unique = (v >= 7)
    /\ tables \in IF v = 0 THEN {<< >>, base} ELSE {LeftBy(v, base)}
    /\ requests \in IF tables = << >> THEN {<< >>} ELSE UNION {[1..n -> LeftRow(v)] : n \in 0..(MaxRequests - 1)}
    /\ unique => \A c \in Chat : Cardinality(Active(requests, c)) <= 1
    /\ letters \in [Chat -> {"pending", "completed"}]
    /\ phone \in [Chat -> {"absent", "none", "own", "given"}]
    /\ \A c \in Chat :
         /\ KindOf[c] = "person" => phone[c] # "given"
         /\ KindOf[c] = "hidden" => phone[c] # "none"
         /\ KindOf[c] = "group" => phone[c] = "absent"
         /\ tables = << >> \/ (KindOf[c] = "group" /\ v = LastVersion) => letters[c] = "completed"
         /\ tables = << >> => phone[c] = "absent"
         /\ KindOf[c] = "group" /\ v = LastVersion => Active(requests, c) = {}
    /\ server = "down" /\ starts = 0
    /\ awaited = [c \in Chat |-> Newest(Active(requests, c))]
    /\ owed = {c \in Chat : letters[c] = "pending"}

-----------------------------------------------------------------------------
(* initSchema.                                                             *)

Moves(from, to) == server = from /\ server' = to
Due == {v \in 1..LastVersion : v \notin recorded}

Launch ==
  /\ Moves("down", "migrating") /\ starts < MaxStarts /\ starts' = starts + 1
  /\ UNCHANGED <<tables, recorded, edited, unique, requests, letters, phone, awaited, owed>>

\* The earliest version that is not recorded, if no earlier one was recorded otherwise.
ApplyMigration ==
  /\ server = "migrating" /\ edited = 0 /\ Due # {}
  /\ LET v == CHOOSE v \in Due : \A w \in Due : v <= w
     IN  /\ \E new \in Created(v) : tables' = Migrated(tables, v, new)
         /\ requests' = Rewritten(requests, v)
         /\ unique' = (unique \/ v = 7)
         /\ letters' = [c \in Chat |-> IF v = 11 /\ KindOf[c] = "group" THEN "completed" ELSE letters[c]]
         /\ recorded' = recorded \union {v}
  /\ UNCHANGED <<edited, phone, server, starts, awaited, owed>>

\* The phone of a lead is the number of its JID, where it has none.
Backfill ==
  /\ Moves("migrating", "backfilled") /\ edited = 0 /\ Due = {}
  /\ phone' = [c \in Chat |-> IF KindOf[c] = "person" /\ phone[c] = "none" THEN "own" ELSE phone[c]]
  /\ UNCHANGED <<tables, recorded, edited, unique, requests, letters, starts, awaited, owed>>

\* Numbers of leads with a hidden JID are cleared.
ClearHidden ==
  /\ Moves("backfilled", "serving")
  /\ phone' = [c \in Chat |-> IF KindOf[c] = "hidden" /\ phone[c] # "absent" THEN "none" ELSE phone[c]]
  /\ UNCHANGED <<tables, recorded, edited, unique, requests, letters, starts, awaited, owed>>

\* Another checksum is recorded, a statement fails, the process is stopped or dies.
GoDown ==
  /\ server # "down" /\ server' = "down"
  /\ UNCHANGED <<tables, recorded, edited, unique, requests, letters, phone, starts, awaited, owed>>

-----------------------------------------------------------------------------
(* The program serves; group chats are not answered.                       *)

Serves(c) == server = "serving" /\ KindOf[c] # "group"

\* ON CONFLICT DO NOTHING: the index is what finds the conflict.
AskForHuman(c) ==
  /\ Serves(c)
  /\ IF unique /\ Active(requests, c) # {} THEN UNCHANGED <<requests, awaited>>
     ELSE /\ Len(requests) < MaxRequests
          /\ requests' = Append(requests, [of |-> c, resolved |-> FALSE, status |-> "waiting"])
          /\ awaited' = [awaited EXCEPT ![c] = Len(requests')]
  /\ UNCHANGED <<tables, recorded, edited, unique, letters, phone, server, starts, owed>>

ResolveRequest(c) ==
  /\ Serves(c) /\ Active(requests, c) # {}
  /\ requests' = [requests EXCEPT ![Newest(Active(requests, c))] = Settled(@)]
  /\ awaited' = [awaited EXCEPT ![c] = 0]
  /\ UNCHANGED <<tables, recorded, edited, unique, letters, phone, server, starts, owed>>

\* The number of the JID, or one that the customer gave, or none.
SaveLead(c) ==
  /\ Serves(c)
  /\ \E p \in IF KindOf[c] = "person" THEN {"own"}
             ELSE {"given", IF phone[c] = "absent" THEN "none" ELSE phone[c]} :
       phone' = [phone EXCEPT ![c] = p]
  /\ UNCHANGED <<tables, recorded, edited, unique, requests, letters, server, starts, awaited, owed>>

SchemaNext ==
  \/ Launch \/ ApplyMigration \/ Backfill \/ ClearHidden \/ GoDown
  \/ \E c \in Chat : AskForHuman(c) \/ ResolveRequest(c) \/ SaveLead(c)

-----------------------------------------------------------------------------
(* What the program's statements name.                                     *)

MessageStoreNames ==
  [inbound_messages |-> Queue \union {"provider_message_id", "completed_at"},
   outbound_messages |-> Queue \union {"dedupe_key", "provider_message_id", "sent_at"} \union PostSendColumns]

OrderNames ==
  [orders |-> {"id", "jid", "product_name", "aroma", "variant", "quality", "size_ml", "package_size", "quantity",
               "product_price", "options", "customer_data", "customer_name", "phone", "address", "shipping_option",
               "shipping_cost", "status", "updated_at"} \union FulfillmentColumns,
   chat_state |-> {"jid", "stage", "data", "updated_at"}]

EventNames ==
  [audit_events |-> {"event_type", "aggregate_type", "aggregate_id", "actor", "data"},
   outbound_intents |-> {"id", "dedupe_key", "jid", "intent_type", "payload", "processed_at", "last_error"},
   payment_events |-> {"provider_event_id", "order_id", "event_type", "status", "payload"}]

HandoffNames ==
  [handoff_log |-> {"id", "jid", "reason", "resolved", "created_at", "status", "priority", "sla_due_at", "updated_at",
                    "assigned_operator", "accepted_at", "first_response_at", "resolved_at", "resolution_note"}]

LeadNames == [leads |-> {"jid", "name", "phone", "address", "preferences", "status", "notes", "updated_at"}]

StatementNames == {MessageStoreNames, OrderNames, EventNames, HandoffNames, LeadNames}

-----------------------------------------------------------------------------
(* Correctness.                                                            *)

\* Whatever database it starts on and however often a start fails, the program serves
\* on one that has every column its statements name, never two active requests of a
\* chat, each one waiting for an operator, the number of every lead whose JID has it, and
\* nothing of a group left to do; what a customer waits on stays the newest of the
\* requests and is not resolved by any migration; and customers' messages that were to
\* be answered still are (applyActiveHandoffInvariant, cleanupUnsupportedGroupPipelineRows).
UpgradesAreSound ==
  /\ server = "serving" =>
       /\ \A names \in StatementNames : \A t \in DOMAIN names : t \in DOMAIN tables /\ names[t] \subseteq tables[t]
       /\ \A c \in Chat : Cardinality(Active(requests, c)) <= 1
       /\ \A i \in DOMAIN requests : ~requests[i].resolved => requests[i].status = "waiting"
       /\ \A c \in Chat : KindOf[c] = "person" => phone[c] # "none"
       /\ \A c \in Chat : KindOf[c] = "group" => Active(requests, c) = {} /\ letters[c] = "completed"
  /\ \A c \in {c \in Chat : KindOf[c] # "group"} :
       /\ awaited[c] # 0 => Newest(Active(requests, c)) = awaited[c]
       /\ letters[c] = "pending" <=> c \in owed
=============================================================================
