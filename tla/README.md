# Voidlark, specified

Voidlark is a customer-service bot for WhatsApp: it keeps sockets to several
WhatsApp numbers, stores every message it receives, answers it with the help of
a language model, and sends its answers from a durable outbox; an admin panel
lets operators look after customers, orders, catalogue and knowledge. This
directory holds TLA+ specifications of the program under `src/`, configurations
that model-check them with TLC, and proofs that TLAPS checks.

## The system

The parts of the program, the state each keeps, and what makes it correct.
Paths are below `src/src/`.

| part | state | operations | what must hold |
|---|---|---|---|
| inbound queue (`whatsapp/message-store.ts`, `message-worker.ts`) | table `inbound_messages`; per worker: `running`, `active`, `activeJids`, `stopped` | enqueue, claim, complete, fail, dead-letter, retry by an operator, poll, stop | a row has one owner at a time; no attempt is lost or invented; every message settles; order per customer |
| outbox (`message-store.ts`, `message-worker.ts`, `connection.ts`) | table `outbound_messages`; the shared worker | enqueue, claim, mark sent, fail, receipt, post-send action, retry by an operator, drain | nothing that is known to be sent is sent again; actions follow the send; every message settles |
| WhatsApp sessions (`connection.ts`, `auth.ts`, `status.ts`) | maps `activeSockets`, `sessionAliases`, `startingSessions`, `reconnectTimers`, `generations`; table of credentials | start, adopt a pending number, stop, reconnect, shutdown; socket events | one live socket per number; a replaced socket is silent; a lost session comes back |
| customer conversation (`connection.ts`, `ai/agent.ts`, `admin/customer-data.ts`) | chat history, leads, media rows, handoffs, the outbox rows of a turn | answer a message, call tools, hand over, delete a customer | an operator hears of every order and handoff; the bot is silent during one; what was deleted stays so |
| memory of a choice (`ai/agent.ts`, `ai/conversation-policy.ts`, `chat/orders.ts`) | the draft order, what the bot remembers of a customer, the simulator's state | absorb a message, apply the first rule that answers, run a tool | the product of an order is one the customer was talking about |
| answers of the model (`ai/agent.ts`, claim checks) | rounds, repairs and evidence of one answer | call, sanitise, continue, repair, replace | no unfounded claim reaches a customer; an answer costs a bounded number of calls |
| orders, payments, intents (`chat/orders.ts`, `payments/webhook.ts`, `whatsapp/outbound-intent-worker.ts`) | `orders`, `audit_events`, `payment_events`, `outbound_intents` | draft, confirm, pay, advance, cancel; signed webhooks; projection | legal transitions only, one payment, one notice per transition |
| catalogue (`catalog/product-catalog.ts`, `admin/server.ts`) | price schemes and their versions, the selection of a customer | edit, quote, confirm | a price that is quoted or confirmed is the catalogue's for that combination |
| recommendations (`ai/catalog-matcher.ts`) | the table of perfumes read from the knowledge, lookups in progress | recommend, match, describe, judge | names are of the shop, and verified where they were to be |
| knowledge (`ai/knowledge-store.ts`, `knowledge-worker.ts`, `knowledge.ts`) | the folder; tables of jobs, versions and the active one; the cache in memory | upload, delete, restore, reload, retry; claim, build, activate, fail; refresh | one active version, made from the files a finished job promised; the bot answers from it |
| texts (`ai/knowledge-chunking.ts`, `knowledge-retrieval.ts`, `conversation-policy.ts`, `response-plan.ts`) | none | chunk, choose evidence, keep one question, split into bubbles | nothing is lost or longer than allowed |
| AI protection (`ai/circuit-breaker.ts`, `token-limiter.ts`, `health.ts`) | state of the breaker, usage of the last hours, cached probe | admit, record, probe, invalidate | spending is bounded; the breaker recovers; the panel's picture catches up |
| external lookups (`ai/external-lookup.ts`, `api/rajaongkir.ts`) | places in the key lists, a cache | search, check a cost | every key is tried |
| numbers (`whatsapp/whatsapp-manager.ts`, `per-number-queue.ts`) | the pool, its file, sticky assignments, daily counts; a chain of sends per number | register, assign, count, rotate, remove; enqueue a send | quotas hold; sends of one number do not overlap |
| handoffs (`chat/handoff.ts`) | `handoff_log`, `audit_events` | create, assign, start, reassign, resolve | one unresolved handoff per customer, in agreement with its trail |
| media (`whatsapp/media-input.ts`, `media-input-store.ts`, `connection.ts`) | media folder, `inbound_media` | download, transcribe, save, refuse, delete | a row names a file that is there; a refusal is recorded and told |
| database (`config/db.ts`, `config/schema.ts`) | connection, mutex of SQLite, savepoints; tables and migrations | query, transaction, end; migrate, repair | transactions are whole and exclude each other; every older database becomes this one |
| process, backups, settings (`index.ts`, `config/instance-lock.ts`, `database-backup.ts`, `backup-storage.ts`, `admin/server.ts`) | lock file, start and shutdown; backup files; files of the settings | start, stop; publish, retain, restore; save, restore | one instance; a crash leaves a usable backup; a restore is all or nothing |
| admin panel (`admin/`) | login sessions | some two hundred HTTP handlers | each calls an operation above |

How they interact: a socket's `messages.upsert` stores messages and wakes its
`DurableInboundWorker`; the worker runs the handler, which calls the agent and
enqueues the answer in the outbox, perhaps with a post-send action; the one
`DurableOutboundWorker` of the process sends it through the socket of the number
the manager chooses, marks the row, and runs the action, which logs a handoff and
enqueues a notice to the operator; receipts come back as `messages.update`. The
admin panel and the payment webhook write the same tables.

What is hard here: several workers and processes share tables guarded only by
leases and tokens; JavaScript interleaves at every `await`; messages leave the
system before that is recorded; processes die, drain and restart; sockets close
and are replaced while their handlers still run; the agent's rules read a state
that its tools write. `PROJECT.json` lists these hazards, each at its line.

## The modules

| module | models | state and the code it stands for |
|---|---|---|
| `LeasedQueue` | what a queue promises, whatever its columns | `phase`, `owner`, `lapsed` of each item |
| `InboundQueue` | inbound queue | columns `status`, `attempts`, `lease`, `token`; the order of `available_at` as `rank`, `due` and `fresh`; of each worker `loop` (where its loop stands), `run` (where the handling of each message stands) and `seen` (what `failInbound` has read) |
| `Outbox` | outbox and post-send actions | columns `status`, `attempts`, `limit`, `lease`, `token`, `post`, `due`; of the process `pc`, `cur`, `seen`, `boot`, `stopped`; `wire` and `acted` count what the outside has seen |
| `Sessions` | WhatsApp sessions | the maps of `connection.ts` (`gen`, `active`, `alias`, `timer`), starts and clean-ups in progress, one record for each socket with the name and generation its handlers close over, the credentials, the numbers on the list, the commands in progress |
| `Orders` | orders, payments, webhook, intents | the tables `orders`, `audit_events`, `outbound_intents`, `payment_events`, the intents' rows in the outbox, and for each request in progress what it has read (`job`); `batch` of the intent worker |
| `Knowledge` | knowledge jobs, versions, cache | the columns of the jobs, the versions as a sequence `corpus`, the singleton row as `current`, the cache as `served`; where the worker stands (`pc`, `cur`, `read`, `mine`) and what each request waits for (`ask`) |
| `Conversation` | the turn that answers a message, with the loop of model and tools, handoffs, retries, crashes and deletion | where each turn stands, what is `kept` of the customer, the rows it put in the outbox by dedupe key, the handoff |
| `Turns` | which rule of `askAgentRaw` answers and what is remembered | the draft, what the bot remembers, the simulator's own state |
| `Answers` | the ends of `askAgentRaw` and `previewAgentReplyRaw` | the text as the set of what is wrong with it, the calls spent |
| `Catalogue` | prices, forms of the catalogue, selection of a customer | the schemes with their prices, what the turn has read, the selection and the confirmed order |
| `Recommendations` | `catalog-matcher.ts` | the table with its version, the reply under way, what each lookup bore out |
| `AiGateway`, `AiHealth` | cost limits and circuit breaker; the cached probe | ages of failures and costs, callers; the configuration each probe has read |
| `Numbers`, `SendChain` | pool of numbers with its file; chain of sends | counts and dates, sticky assignments; tails and depths |
| `Handoff` | `handoff_log` under several operators | rows with their audit trail, what each operator's transaction has read |
| `Lookups` | key rotation of searches and shipping costs | the shared places, each request's own |
| `Process` | lock file, migrations, start and shutdown | how far each process is, the lock, the backup under way |
| `Backups`, `SessionBackup` | database backups and restoration; copies of sessions | files under their temporary and final names; the texts in the three places with the coats of encryption |
| `Settings` | files of the settings, restoration of a backup | what each target holds, what was displaced, the job that activates the knowledge |
| `Transactions` | the database layer | the line of SQLite, layers of savepoints, connections |
| `Schema` | migrations and repairs | the set of columns of each table, the rows a migration moves |
| `Media` | messages with media | how far each is, the folder, the rows, what is told to whom |
| `Texts` | chunks, evidence, the one question, bubbles | the text and its pieces |
| `InboundQueueProofs`, `OutboxProofs`, `SessionsProofs`, `OrdersProofs`, `KnowledgeProofs`, `ConversationProofs`, `ServicesProofs`, `HostProofs` | theorems | |
| `MCInboundQueue`, `MCOrders`, `MCKnowledge` | constants for TLC | |
| `MCServices`, `MCHost` | the smaller modules side by side | a variable `part` says which of them a behaviour is about |

One action stands for one stretch of the program that nothing else can
interrupt: an SQL statement or transaction, or what the event loop runs between
two `await`s. An operation that awaits is therefore several actions, and what it
has read in the first is kept until the last: `FailRead` and `FailWrite` are
`failInbound`; `ReadForPayment` and `MarkOrderPaid` are `markOrderPaid`;
`Start`, `ReadCreds` and `FinishStart` are `startWhatsAppConnection`. Everything
else may happen in between, as it may in the program. Each definition's lines
are in the `map` of `PROJECT.json`.

The modules meet where the code does. `InboundQueue` and `Outbox` implement
`LeasedQueue`. `Conversation` starts where `InboundQueue` has claimed a message
(turns of one customer one after the other, which `ClaimsExclude` shows for one
worker), puts rows where `Outbox` takes them, and knows of a handoff what
`Handoff` keeps; `Turns` and `Answers` are the inside of one of its turns,
`Catalogue` and `Recommendations` the inside of two of its rules. The parts in
`MCServices` and in `MCHost` share no state, so one is run at a time: with
variables of their own they would only multiply their states.

Small predicates such as `HoldsToken`, `Claimable`, `Available`, `LastOne` or
`Beyond` are the conditions of the code under a name. Beside some of them stands
one that is wrong in a way a programmer could have written (`AnyToken`,
`ClaimableOnce`, `RoomForOneMore`, `Empties`, `BeyondOne`); no specification
uses these. They are the `mutants` of `PROJECT.json`: with each of them in the
place of the right one TLC finds the property violated that is named there,
which shows that the property depends on that line of the code.

## What the runs show

Each run is a `.cfg`; `PROJECT.json` says which module it is for. A property
that joins several is a conjunction of the named ones in its module.

**Inbound queue** (`Inbound.cfg`): two workers with two runs each, two messages
of one customer, two attempts, the textual clock of SQLite, and one disruption (a
stop, a crash) and one incident (a lease that expires under a running handler, a
retry by an operator). `ClaimsExclude`: while leases last a message has one run
(`LeaseIsLock`), tokens keep what `failInbound` wrote from being based on an old
read (`SeenIsCurrent`), a worker keeps its own limits (`WorkerDiscipline`).
`SettledOnce`: attempts stay within the limit (`AttemptsBudget`), settled rows do
not change (`SettledIsFinal`), a message is given up by its owner with its attempts
spent or for a permanent error (`DeadLetterEarned`). A worker alone and undisturbed
keeps the order of arrival until a message fails (`FifoUntilFailure`). Every message
is answered or given up (`EveryMessageSettles`). Every behaviour is one of
`LeasedQueue`. `InboundJidSerial.cfg` fails, as the code does: the promise of
`docs/operations.md:86`, one message of a customer at a time, is kept by a set
that belongs to one worker, and every socket has its own worker. For the same
reason `concurrency` is per worker and not global (`CHANGELOG.md:182`).

**Outbox** (`Outbox.cfg`): two messages, one with an action, two attempts, one death
of the process (crash or drain), two incidents (a lost outcome, a failed action, a
retry). `EffectsArePaidFor`: a message is transmitted once, and once more for
every crash or outcome that was lost; the effect of an action once, and once more
for every failure; nothing counts as sent and nobody is handed over before the
message has left. `SettledForGood`: what has left is never queued again, receipts
only advance it, and attempts are spent before a row is given up. `OutboxCompletes`:
every message is sent or given up, and the action of one that was sent completes
unless the process dies under it. The outbox implements `LeasedQueue`.
`OutboxActionRecovers.cfg` fails: after such a death the action stays `processing`,
though `tests/message-worker.test.ts:213` calls post-send actions durable.
(`drain()` does not wait for an action either, as `active` counts sends only, though
`docs/operations.md:33` has the workers wait for their work: in the model `Exit` may
come during one.)

**Sessions** (`Sessions.cfg`): two numbers, of which one is registered at a time, two
sockets, two commands, one lost connection or failed start. `SocketsServe`: the
list the outbox sends through holds each socket once and none that was ended; a
socket started under its own name is never made deaf by a generation; a socket
serves the number it was made for. `Reconnects`: a number whose connection closed is
connected again, unless it was stopped or a start of the operator failed.
`SessionsOnline.cfg`, one number and three commands, fails: after a number was linked
and saved, asking for the QR code of the next one raises the generation of
`pending`, which the handlers of the first number's socket still compare; it stays
open and hears nothing.

**Orders** (`Orders.cfg`): one order, a turn of the agent, an operator, two deliveries
of one payment event, and one incident (deletion of the customer, crash, failed
projection). `OrdersAgree`: the audit events of an order are a path along
`ORDER_TRANSITIONS` to its status; a settled payment stands for a paid order; each
transition has its one intent. `CustomersAreTold`: an intent is stamped exactly
when its message is in the outbox. Both except customers that were deleted, because
the code does not keep them: an intent read before the deletion, or an operator's
request that holds the old jid, writes a message for that jid after it.
`OrdersComplete`: every intent becomes a message, and a payment is recorded unless
the operator ended the order first; a payment of an order paid by hand and shipped
is refused for ever.

**Knowledge** (`KnowledgeCorpus.cfg`): an empty, a good and a broken folder, two
requests of an operator, the load at the start, two attempts, and one death of the
process or failing query at any point. `CorpusIsSound`: exactly the version that the
singleton row names is active, and a job that succeeded after the last change of the
files left a corpus made for them, and the bot answers from the active version
(`ServedIsActive`, a part of it). `NoWayBack`: versions only advance, jobs are given up with their
attempts spent. All jobs end (`QueueEmpties`). Three of these say less than one might
wish, since the code does: the text is read from the files a second time, so that
files changed to and fro leave text under the wrong checksum, which `CorpusIsSound`
excepts (`torn`); a refresh that fails after the activation is never repeated, as the
retry finds its version active, which `ServedIsActive` excepts (`missed`); and
`fail()`, which asks for neither token nor status, then takes a succeeded job up
again, or gives it up, which `NoWayBack` excepts.

**Services** (`Services.cfg`), each part alone:

- `AiGateway`, two callers: the calls of an hour pass the cost limit by no more than
  the calls that can be under way at once (`SpendingIsBounded`; the limit is checked
  before a call and charged after it, so it is not a hard one); when the provider no
  longer fails the breaker closes, whatever late answers it has counted
  (`BreakerRecovers`, as long as calls go on being made).
- `AiHealth`, two probes and two saves: the panel may show the state of settings
  that were replaced, but not for ever (`HealthCatchesUp`).
- `Numbers`, two numbers, two days, a daily limit of one, one mishap: the rotation
  gives a number no more customers a day than its limit, plus what a restart or the
  removal of the number made it forget (`QuotaHolds`). A customer with a sticky
  number is served by it whatever its quota: that is not counted.
- `SendChain`, three sends over two numbers: a number sends one message at a time
  and forgets a chain only with nothing in it (`SendsAreSerial`).
- `Handoff`, two operators, two handoffs: one unresolved handoff at a time, and each
  row says what its audit trail says, apart from a reassignment that was overtaken
  by a resolution (`HandoffsAgree`).
- `Lookups`, two searches and two checks over every list of good, spent and failing
  keys: a search finds something as long as a provider that does not fail has a key
  that works; a check of costs too, unless another ran beside it and moved the shared
  place (`KeysAreAllTried`, which excepts `overlap`).
- `Conversation`, two messages, an operator, one failure, death or deletion: the bot
  keeps quiet while a human has the customer, except for a turn that began before
  (`BotKeepsQuiet`); what a deletion removed comes back only through what was under
  way (`ForgottenForGood`); every turn comes to rest, and an operator has been told of
  its order and handoff unless it lost what it carried (`EveryTurnIsAnnounced`).
  `ConversationOrders.cfg` fails without that exception: a completion that fails
  after the tool has confirmed an order tells nobody (`docs/PRD.md:255`).
- `Turns`, any number of messages about two products of two classes, live and in the
  simulator: the product of a draft is one the customer named or a rule recommended,
  whatever the model's tools are called with (`ChoicesAreTheCustomers`).
  `TurnsOldNames.cfg` fails: after a change of the class the draft may keep the
  product of the old one (`docs/PRD.md:386`).

**Host** (`Host.cfg`), each part alone:

- `Process`, two processes and the backup tool: one works at a time unless two looked
  at the lock before either wrote it (`raced`); migrations are applied once, in order,
  before anything works on the tables; a shutdown waits for the backup it knows of
  (`StartsAreSound`).
- `Backups`, three backups with retention two and a restoration: a backup made to its
  end goes only for two newer files, and the database being replaced is under its
  name or beside it (`DataSurvives`).
- `SessionBackup`, two files: a copy can be restored if the storage has a directory of
  its own and, where it is encrypted twice, is no more than one chunk of data
  (`CopiesAreRestorable`). Outside these conditions the code as it is loses the copy;
  nothing in the program calls it yet.
- `Settings`, five targets and one restoration beside the panel's saves. The copies of
  the former files, the renames, the activation and the removals are steps, and each
  may fail; the roll-back then removes every target of the backup and brings back what
  it can find. A restoration that ends well has replaced what the backup holds; a failed
  rename or activation leaves every file as it was; a failed copy or removal loses at
  most the files that were not copied yet or were removed already, and leaves nothing of
  the backup; a crash leaves every former file in its place or beside it, or what was
  restored in place (`RestoreIsAllOrNothing`). It ends where the panel saved while the
  knowledge was being activated (`mixed`), as a failure then takes the save back too.
  These losses disagree with the panel, which calls the replacement atomic
  (`server.ts:3820`): when the copy of one target fails (`server.ts:3591`), the roll-back
  removes that target and those after it, which have no whole copy (`server.ts:3630`),
  and when a removal fails (`server.ts:3624`), the targets whose former files are gone.
  The property excepts just these (`Exposed`).
- `Catalogue`, two schemes with two axes whose combinations differ in price until the one
  edit, texts of two words: an order is
  for one combination, at the price the catalogue had when its draft was checked
  (`ConfirmedAtPrice`), and a quotation is of one combination at the price in force
  (`QuotedAtPrice`, both in `PricesHold`). Which combination that is, is not always the
  draft's: `agent.ts:804` hands over the offer of the state, which has neither class nor
  attributes under the names the answer reads, so a question that leaves several
  combinations open is answered with what the customer named last, of any scheme. Only
  where the state makes no offer is it answered with a selection, one the bot
  recommended, one the customer pointed at, or the state itself (`Handed`). The property
  says which of the three sources decides, and that nothing is quoted where they leave
  more than one combination; it is asked between turns until an order is confirmed. An option of the draft goes by the id of its axis and one of a
  new text by its name, so a text that changes a value leaves both, and the state may
  make no offer for it (`Changes`).
- `Answers`, five rounds live and three in the simulator: no customer gets a claim
  without evidence, markup or foreign script, however often the text was repaired, for
  no more calls than the rounds and four (`AnswersAreGrounded`). The simulator does not
  check what it finds beside markup; it makes up to seven calls beside its rounds, and
  each as often as three times, once more with less of the catalogue when it was too
  long, twice more when the connection failed (`agent.ts:1271`). A failure after that
  ends the answer.
- `Recommendations`, four perfumes whose table is replaced meanwhile, three of them of
  one mix in three families, nine needs, four pages of the web: what is named is of the
  catalogue, no more than asked, verified where it should be, and
  nothing looked up fitted better (`RecommendationsFit`). A table read while the text in
  memory is empty is cached under the empty text and answers the next question asked
  when it is empty again (`catalog-matcher.ts:671`). This disagrees with
  `docs/PRD.md:376`, which binds the cache to the active corpus, and the model does it:
  `RecommendationsFit` compares a reply with the text in memory (`basis`), except where
  that was empty. A text without a table is not cached at all, and none is among the versions. One name may come twice: a
  match picks first by family (`catalog-matcher.ts:500`) and looks at the name of the
  mix only afterwards (`catalog-matcher.ts:507`), so that a mix listed in two families
  is offered in both places. Nothing in the repository says that it may not, so this is
  no finding; the property says exactly where it can happen.
- `Transactions`, two jobs with parts, SQLite and PostgreSQL: what is in the database
  is what callers were told, savepoints included, also when the pool ends under them
  (`TransactionsAreWhole`).
- `Media`, eight kinds of messages of which two are sent, one crash or passing failure:
  a row names a file that is there, unless a deletion removed the same content of
  somebody else; a refusal is recorded in `inbound_media_failures`, the customer gets the
  apology, a handoff and an alert (`MediaIsKept`). Its row in `inbound_media` may be
  missing: `connection.ts:441` goes on when the insertion fails (`unmarked`).
- `Schema`, every older database, two starts that may fail: the program serves on
  tables that have every column its statements name, with what customers wait for
  still there (`UpgradesAreSound`).
- `Texts`, documents of up to nine characters and answers of up to nine words, markers,
  marks and parts of prices: the chunks of a document hold every word that fits in one,
  and what is taken for evidence fits with its separators (`DocumentsArriveWhole`); an
  answer keeps what it states and its last question, and is sent in few bubbles that
  hold its words in order (`AnswersArriveWhole`). What the code does beside that is
  excepted: a price in an earlier question leaves its first half behind
  (`conversation-policy.ts:124`, while `docs/PRD.md:369` lets nothing change a number),
  the last bubble takes all that is over (`response-plan.ts:132`), a list item is never
  divided, and neither is the last line of a section where a marker stands alone on its
  line, which makes `hasListItems` true though no line begins an item
  (`response-plan.ts:60` and `:65`: the index is then -1, and `slice` takes the last
  line).

### Where the code and the documents disagree

Five runs fail on purpose, each on one sentence of the repository: `InboundJidSerial`,
`OutboxActionRecovers`, `SessionsOnline`, `ConversationOrders` and `TurnsOldNames`. Four
more disagreements are exceptions of a property, said where it is stated: a reassignment
of a handoff that a resolution has overtaken (`docs/PRD.md:279`, `HandoffsAgree`), a
restoration that is not atomic when a copy or a removal fails (`server.ts:3820`,
`RestoreIsAllOrNothing`), a cache of the catalogue that is bound to an empty text and not
to the corpus (`docs/PRD.md:376`, `RecommendationsFit`), and a price in an earlier
question that is torn (`docs/PRD.md:369`, `AnswersArriveWhole`).

### Bounds, and why they are enough

Two is the number at which the hazards appear: two workers for a lease that
changes hands, two messages of one customer for order, two rows for one that
blocks the other, two deliveries for a duplicate, two numbers for one session
that disturbs another, a second socket for one that is replaced, two operators on
a row, two callers at a limit; three sends for a chain whose tail has gone while
its middle waits, three backups for one beyond a retention of two, three processes
because one of them is the backup tool. Two attempts have a first failure that is
retried and a last one. One crash, lost outcome or retry at any point reaches every
state that differs in kind, as the code keeps no count of them; the theorems below
hold for any number. `MaxDisruptions`, `MaxIncidents`, `MaxDeaths`, `MaxMishaps`,
`MaxTroubles`, `MaxFailures`, `MaxCommands`, `MaxRequests`, `MaxSaves`, `MaxEdits`,
`MaxStarts`, `MaxWrites`, `MaxDays`, `MaxCalls`, `MaxTools` only bound how often the
environment does something; `MaxSockets`, `MaxNumbers`, `MaxOrders`, `MaxHandoffs`,
`MaxBackups`, `MaxLogged`, `MaxSent`, `MaxRows`, `MaxParts`, `MaxOpened` bound objects,
`MaxWords`, `MaxChars`, `MaxTokens`, `MaxCost` sizes. The lengths of the text cuts
(`ChunkChars` and the others) are small so that every cut happens within the texts
that are enumerated. A question for a price, the selection it is answered with and what
the customer said before have one word more together than a text has, or nothing was
said before: enough for two sources that disagree. Sessions, services and the parts of the host come to rest when
what bounds them is spent, so deadlock is not checked there. No symmetry is used.

### Fairness

Weak fairness of timers and of the continuation of anything awaited: the event
loop resumes what has settled, leases expire, a handler ends (the agent's calls
have time limits), a process that died is restarted and a socket that closed is
reconnected. In `Orders` the tick of the intent worker comes every second, and a
payment provider repeats a delivery that was not accepted, which is an assumption
about the provider. In `MCServices` a call of the model ends within 75 seconds, a
probe within 25, time passes, and the worker goes on with a turn and its post-send
action. Nothing is assumed of customers, operators or failures, except that
failures are bounded: a message whose handler always kills the process is claimed
again for ever, since neither a crash nor an expired lease counts an attempt.
`BreakerRecovers` says itself that calls go on being made, as whether anybody asks
is not up to the program.

## What is proved

TLAPS checks the theorems for all values of the constants, so for any number of
messages, workers, processes, sockets, requests and failures. They rest on the
named assumptions of the modules (`QueueAssumption`, `OutboxAssumption` and so on)
and on nothing else. Most say what kind of values the constants are. Those that say
more: there are finitely many callers of the model, since their costs are added up;
the lists of the lists of keys are sequences; names of perfumes compare like numbers, and what is
asked for is one perfume or two, or three that match; a scheme of the catalogue has attributes, no value
belongs to two of them, and its values are finitely many; the lengths of a chunk are
in the order to which the code clamps them, and an answer may take at least one
bubble. TLC evaluates the assumptions in the runs.

- `InboundQueueProofs`. `IInv` adds to the types what the columns must agree on:
  a token is there exactly while a row is `processing`, a lease with it, a row
  that can be claimed has attempts left, what a run has read is current while it
  holds the token, and the ranks of inserted rows stay within the inserted ones.
  Without the first two a stale run could settle a row that was claimed again.
  `RowStep` then lists what a step may do to a row; that settled rows
  stay settled, that dead letters are earned, and the refinement of `LeasedQueue`
  follow from it and `IInv` without going through the actions again.
  While no lease expired under a running handler, a run holds its row (`Locks`), hence
  `LeaseIsLock`. `WorkerDiscipline` needs only that the claim excludes the customers in
  progress and that runs start nowhere else. With these `ClaimsExclude` and
  `SettledOnce` are theorems. For `FifoUntilFailure` the ranks of two rows differ
  (`RanksDiffer`), a worker that never started runs nothing (`OffIsQuiet`), and as long
  as one worker is undisturbed, a row in progress has its run (`RunsHold`) and rows
  nobody has tried stand in the order they came, with the later ones of a customer not
  begun while an earlier one is not settled (`ArrivalOrder`).
- `OutboxProofs`. `RowsOK` and `RunOK` are as above with the number of the process
  as token; `WireOK` and `ActedOK` give every transmission and effect a crash, a
  fault, or the state the row is in to account for it; `BootOK` bounds the
  processes. Refinement again goes by `RowStep`.
- `SessionsProofs`. `SInv` is `ListInv` (listed once, generations agree, own
  number), `PendingOK` (while `pending` is listed or being started nothing is
  aliased to it, so that an adoption cannot list its socket twice) and `Linked`
  (a socket that logs in has credentials).
- `OrdersProofs`. `OInv` adds `RankOK` (statuses only advance, so a transition
  happens at most once and its dedupe key is unique), `NoticesOK` (intents, batch
  and outbox tell of transitions that happened) and `JobsOK` (what a request has
  read is stale only in ways its transaction notices).
  `RecommendationsFit` is here as well. The rows that look-ups bore out are of the
  catalogue, each once, and meet the need (`Borne`), and what is left to look up is none
  of them (`Looking`), which `LookUp` could not keep otherwise. The rest is about the
  reply made of them: `SortedSorts` says of any finite set with keys that no two members
  share that its sorting lists each member once and in the order of the keys, and from
  it follow what the candidates (`CandidatesFit`), the best hit of a page
  (`EvidenceMeets`), the ranking (`RankedFits`), the names without repetition
  (`UniqueFits`) and the three replies (`RecommendedFits`, `MatchedFits`,
  `DescribedFits`) hold.
- `KnowledgeProofs`. `KInv` adds `JobsOK` (ids go up; a job not given up has attempts
  left), `RunOK` (what the row of the job says at each point of the worker),
  `BuildOK` (the version being built is the worker's and still `building`, so that
  neither activation nor failure touches another) and `PromiseOK` (as long as files
  stay what they were when a job that has succeeded or is in progress was added, the
  checksum the worker holds is theirs). Steps of all others are reduced to
  `OthersShape`, which says what the worker can see of them.
  `DocumentsArriveWhole` is here as well. Its invariant, `DocInv`, says that a word
  that is in no chunk yet begins where the next chunk does or behind it; `CutIs` and
  `NextIs` say of one cut that a word which fits is in the chunk or begins behind it,
  and that the next chunk starts no later. The room for evidence is the sum of what was
  taken.
  So is `AnswersArriveWhole`. Its invariant, `AnswerInv`, only says that what is sent is
  what `SingleQuestion` makes of the answer, and that the bubbles are the plan for it;
  the rest is what those two functions do with an answer of any length. `FlattenIs` says
  what flattening chooses, and from it follow what it makes of pieces one after the other
  (`FlattenOfTwo`), of pieces of pieces (`FlattenTwice`) and of pieces with the same words
  (`WordsOfPieces`), which is why tidying, separating and splitting keep the words.
  `DroppedAsks` shows that a word is dropped just if it stands in a question that is
  not the last. `FoldExists` gives every fold its values; with it `GroupingIs`,
  `GroupsBegin`, `SentencesAre` and `FittingIs` say what is in each group of lines, in
  each sentence and in each bubble, `BubblesAre` puts them together for a section, and
  `PlanIs` for the whole answer.
- `ConversationProofs`. What a step may do to the log of handoffs, to a turn and to a
  message at rest is said once, by action (`LogStep`, `PastStep`, `RestStep`). The bot
  keeps quiet since a turn past its look at the log is among those each open handoff
  counts as begun before it (`Clearance`); what was deleted stays so since a message
  that a deletion found at rest never moves again (`ErasedAreGone`). `RestIsAnnounced`,
  the safety half of `EveryTurnIsAnnounced`, follows from `ToldOrCarried`: a turn that
  has not told the operator yet still carries it, or is one that lost it. For `Turns`
  the invariant looks ahead: every write that is left to make is one that keeps what is
  remembered the customer's (`Allowed`), so that whichever of them is made the product
  is one the customer named or a rule recommended.
- `ServicesProofs`, five parts, each alone. `HandoffsAgree` is almost inductive:
  `HandoffInv` adds that the row an operator has read exists, and `UpdatedAgrees`
  says which updates by id keep a row in agreement with its trail. For `QuotaHolds`
  the invariant is that the count that is valid today and what was forgotten make up
  what the rotation gave, that the file is never ahead of the memory, and that no row
  is dated in the future, without which a count would come back on a later day. For
  `SendsAreSerial` the chain of a number is a stretch of some numbering of the sends
  (`IsChain`), each waiting for the one before and the tail the last; from the maps
  alone it would not follow that a tail that has gone was the only one left. For
  `SpendingIsBounded` what is in the window and the most that the calls under way can
  cost are bounded together (`BoundedIn`), so that a call that ends gives its place
  for its cost; the same is proved for the window of a day. For `KeysAreAllTried` the
  keys before the place of a search are the ones it found spent (`Tried`), and a check
  that has been alone so far is the only one to have moved the shared place (`CheckOK`).
- `HostProofs`, nine parts, each alone.
  - `StartsAreSound`: while nobody raced, whoever works is in the lock file and nobody
    acquires it (`OneOwner`); the applied migrations are the first so many (`InOrder`);
    a backup is there only since the scheduler started (`BackupAwaited`).
  - `DataSurvives`: that a backup has so many newer files, once so, is so for good,
    since only files of which that is true are deleted (`OldStays`), however many
    retentions run at once.
  - `CopiesAreRestorable`: what each of the three places holds between saving and
    restoring (`CopiesInv`).
  - `RestoreIsAllOrNothing`: each target is untouched, copied, renamed aside, swapped or
    cleared away, according to how far the one restore under way is (`TargetsInv`), and
    what runs is what was on the disk before it until its ingestion has succeeded
    (`RunsInv`).
  - `TransactionsAreWhole`: the parts a job is in are nested as they were opened
    (`Nested`), and a layer of savepoints holds just the statements of its part and of
    what was kept inside it (`Layered`, `Surviving`).
  - `MediaIsKept`: who has come as far as naming a file has put it there (`FileIsThere`),
    each step of a refusal finds the earlier ones done (`StepsDone`), and files are
    removed for customers who were erased only (`RemovesOwn`).
  - `UpgradesAreSound`: versions are recorded in order (`VersionsInv`); a table that is
    there has what created it and what every recorded version added (`TablesInv`); what
    a version made true of the rows stays true (`RowsInv`); and the request a customer
    waits on stays the newest active one (`WaitingInv`).
  - `AnswersAreGrounded`: what an answer may have cost (`Costs`) and what its text may be
    (`Clean`), by where it stands in its rounds, repairs and guards.
  - `PricesHold`: since its check a draft is of a combination of the catalogue it was
    checked against, at that price (`Priced`). The other half is about one quotation in
    any state: a text says of an attribute what it says last, or the text before it if it
    says nothing (`LastKept`, `LastFits`); so the offer of a text is the one combination
    it leaves after what was said before (`OfferIs`), and a quotation the offer of the
    first source that leaves only one (`QuotesFit`).

Each proof is of the safety property as the run states it, or of its parts; the
type invariants of the six large modules are theorems too (`TypeCorrect` and the
like). Where a proof has to go through data of any size (a sum over a window or over
the evidence, the columns that versions add, a ranking, an answer cut up) it takes a
least counterexample, of a set of numbers or of subsets of a finite set, and derives a
smaller one; `Climb` says so once for the places of a sequence. Every invariant that a
run checks, and every action property but those that are liveness, is now a theorem.

Model-checked only: liveness (`EveryMessageSettles`, `OutboxCompletes`, `Reconnects`,
`OrdersComplete`, `QueueEmpties`, `BreakerRecovers`, `HealthCatchesUp`,
`EveryTurnIsAnnounced`), as it needs fairness and what is enabled; and the disagreements
with the documents, which are counterexamples.

## What the models leave out

- The handler of an inbound message is a choice of success, error and permanent
  error in `InboundQueue`; the turn behind it is `Conversation`. The two are not run
  as one.
- The choice of the sending number is in `Numbers` and not in `Outbox`; of the delay
  before a send only that there may be one.
- The text clock of SQLite is modelled within one UTC day; a row inserted before
  midnight and one after it sort by date as they should.
- The outbox claims any row that is due, where the code takes the earliest; no
  property of the outbox is about order.
- In `Sessions` credentials are the number they belong to; the drawing of QR
  codes, the legacy session and shutdown are left out.
- In `Orders` the columns of a draft are one bit, `confirmed` is a status no
  operation sets, and the limit of fifty intents in a tick is not modelled.
- In `Knowledge` an upload changes the folder at once, where the files arrive one
  after the other; every change in between has the effect of an earlier upload.
- Texts are what they make the program do: what a message names and asks for, what
  is wrong with an answer, which facts a page has. Regular expressions, scores and
  wording are not modelled, except where a text is cut (`Texts`).
- Lookups and completions return any outcome; that a model follows its prompt is
  not assumed.

Parts without a module, with the reason for each, are listed under `components`
in `PROJECT.json`:

- guards and tools of the agent: patterns over one text, without state; where they
  decide what happens next, `Answers` and `Turns` have their outcome as a choice;
- extraction and scoring of knowledge: file formats and weights of words;
- business hours and consent: a function of the clock, a choice of every turn in
  `Conversation`; `canSend` is asked by nothing that sends;
- parts that nothing calls: `evaluatePolicy`, the idempotency service (whose table no
  migration creates), `AiQueueLimiter.run`;
- pages of the admin panel: HTML, queries that only read, the login. The handlers that
  change state are actions of the module that has the state;
- logging, metrics and health of the process: formatting, and counters that decide
  nothing.

## What could come next

1. Two turns of one customer at once in `Turns` and `Catalogue`, which
   `InboundJidSerial` shows to be possible: the columns of a draft then change after
   it was read.
2. The commands of an operator in a chat (`#paid` and the like) as messages of
   `Conversation`, with a retry after the payment has committed.
3. `InboundQueue`, `Conversation` and `Outbox` in one specification.
4. The rest of `conversation-policy.ts` in `Texts`: the other guards also cut an answer.
