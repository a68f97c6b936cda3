# Verification of the IM server

TLA+ models, TLC runs and TLAPS proofs for the Rust back end of this repository
(`src/rust`). Paths below are relative to `src/rust/apps/api-server/src/` unless
they say otherwise.

## 1. The system

Two services share Redis and MySQL:

- **api-server** answers HTTP requests. Messages are accepted into *hot* Redis
  (private and group shards) and persisted later by background threads of the
  same process: a *publisher* per hot shard and a *writer* and a *push
  dispatcher* per event stream.
- **im-server** holds the WebSocket sessions of the users and a routing table in
  Redis, through which the push dispatcher finds the im-server of a user.

### Inventory

| component | state | operations | what is hard |
|---|---|---|---|
| send (`message/message_redis.rs`) | hot message, conversation index, `last`, unread, client-id key, event payload, outbox member | one Lua script per message | duplicates by client id; a script only covers one shard |
| recall / delete (`message/message_read.rs`) | hot message, `last`, event payload, outbox member | load, check, SETEX, GET/SETEX `last`, SETEX event, ZADD | five separate commands: concurrent calls, failure half-way |
| outbox and publisher (`background_publisher.rs`) | sorted set `im:pending:events`, keys `im:event:*` | read due members, fetch payloads, drop stale, XADD, DEL, ZREM | crash between any two commands; duplicates; order |
| event stream (`redis_streams.rs`) | stream, consumer group, pending list | XADD MAXLEN, XREADGROUP from `0` and `>`, XACK | redelivery, trimming under the reader |
| writer (`background_writer/`) | three batches, ids to acknowledge, rows | batch, flush on size/time/status change, UPDATE, XACK | acknowledgement order, crash with a full batch, status before row |
| group receipts and unread counters (`message/message_read.rs`, `message_conversation.rs`, `message_helpers.rs`) | hot read sequence, group sequence, unread hash, cursor rows | mark read, list conversations | counters rebuilt from the database; which shard holds them |
| private chat (`message/message_send.rs`, `message_redis.rs`, `message_read.rs`) | index, hot messages, rows, unread, read cursor | send, delete, history, mark read | a page merged from two stores that lag behind one another; a receipt between messages |
| push dispatcher (`push_dispatcher.rs`) | route cache, consumer group | read, push over HTTP, XACK | stale routes, restarts, order of pushes |
| sessions and routes (`im-server/src/service`, `im-server/src/route.rs`) | session maps, route table with leases and a Redis lock | connect, disconnect, heartbeat, renewal, clean-up | a count read before a lock is taken and used after it |
| permission caches (`access_control.rs`, `message/message_cache.rs`, `local_cache.rs`) | Redis and in-process caches of friendship and membership | check, change, invalidate | copies of copies, several processes |
| tokens and tickets (`auth_*.rs`, `im-server/src/web.rs`) | newest refresh token, revocations, tickets | login, refresh, revoke, one-time ticket | requests of one user overlap |
| accounts (`user_handlers.rs`, `user_profile.rs`, `push_handlers.rs`) | user row, codes, settings, avatar files, push device | register, bind, settings, register device | statements without a transaction |
| AI auto-reply (`ai/`) | switch and its copy, lock, counter of rounds | switch on and off, trigger, reply | two robots; jobs that overlap |
| E2EE, server (`e2ee/`, `message/message_e2ee.rs`) | bundles, one-time keys and claims, backup, negotiation row, epochs, sender keys | upload, claim, clean up, negotiate, join, leave, rotate | a claim beside an upload, versions of events, who keeps keys |
| E2EE, clients (`crates/im-e2ee-core`, `-ffi`, `-wasm`, `crates/im-flutter-bridge`) | ratchet state, session managers | agree, encrypt, decrypt, export, restore | lost, reordered, damaged messages; an old state comes back |
| the rest | id resolver, presence, moments, files, AI bridge, admin server, Flutter apps, scripts | CRUD and I/O | |

Properties that make them correct: what the API has accepted reaches the
database whatever fails; the row of a message only moves towards its final status;
unread counters show every unread message and are cleared by reading; a page of the
history has no gaps; a connected user has a route, and pushes follow it in order; an
answered permission check is not older than its caches may be; what may be used once
(refresh token, ticket, one-time key, message key) is used once; what was switched
off, revoked or left stays so.

## 2. What is modelled

### MessagePipeline: from the API handlers to the rows

`MessagePipeline.tla` models one hot shard, one stream, its consumer group and
the `messages` table. A conversation hashes to one shard and every event of a
message goes to the same stream, so other shards and the other stream do not
interact with it.

| variable | code |
|---|---|
| `hot` | status in `im:msg:{id}` |
| `eventKey`, `pending` | payload keys `im:event:{id}`, sorted set `im:pending:events` |
| `call`, `request` | where a recall/delete handler is, and what it was asked |
| `publisher` | locals of `publish_due_events` |
| `log`, `trimmed`, `cursor`, `pel` | the stream, what MAXLEN has discarded, the consumer group |
| `writer` | `Processor`: entries read, `message_batch`, ids to acknowledge |
| `row` | `messages.status` (0: no row) |
| `failures`, `overflow` | bound on failures; history: an unacknowledged entry was trimmed |

Actions follow the code command by command, because the process may stop or a
connection break between any two of them:

- API: `Send` (one Lua script), and for a recall or delete `LoadMessage`,
  `StoreStatus`, `StoreEvent`, `Enqueue`; `Abandon` ends the handler half-way.
- publisher: `ReadDue` (ZRANGEBYSCORE), `FetchPayloads`, `DropStale`,
  `AppendBatch` (XADD pipeline), `DeletePayloads`, `RemoveMembers`;
  `AppendFails` executes a prefix of the pipeline, `PublisherFails` a crash.
- writer: `Recover` (read from `0`), `Poll` (read from `>`), `BatchMessage`,
  `Flush`, `ApplyStatus`, `SkipInvalid`, `EndOfBatch`, `AckApplied`,
  `AckFlushed`, `WriterFails`.

`OneClock` says that a status change has a higher outbox score than the creation
(one api-server, whose clock does not step back). `Unparsable` is the set of
status events this build of the writer cannot deserialize, as after a rollback.
Operators whose comment begins with *Fault* are the faulty variants by which the
properties are tested; no action of `Next` uses them.

### DurableStatus: what the pipeline promises

A message has a promised status and a row; the row follows the promise, never
overtakes it and never goes back. `MessagePipeline` implements it with
`promised` = the greatest status the API has answered for.

### GroupUnread: what one member of a group has read

`GroupUnread.tla` models one group and one of its members. The group numbers its
messages by `INCR` on its hot shard (`Home`); the conversation list reads *all*
groups from shard 0 (`First`, `message_conversation.rs:169`).

| variable | code |
|---|---|
| `number` | `conversation_seq` of each message; a message is its position in order of sending |
| `row`, `deleted` | rows of `messages`, and those with status 5 |
| `seq`, `last`, `readSeq` | keys `im:conv:{g}:seq`, `...:last`, `im:readseq:{user}:{g}` on each shard |
| `reads`, `cursorRow` | read events not yet acknowledged, `group_read_cursor.last_read_seq` |
| `call` | locals of each request in progress |
| `answered` | history: greatest position of an answered request |

A request is a `mark` (`mark_group_read`), a `join`
(`initialize_group_read_sequences`), a `list` (the group part of
`load_group_conversations`) or a `recall` (what `apply_message_status` does to the
last message). Each Redis command or query is a step, and any number of requests
overlap: `CompareLast`/`StoreLast`; `GetLast`/`DbLast`; `GetSeq`/`DbSeq`/`SetSeq`;
`QueueEvent`/`UpsertRow`/`StoreRead`; `GetRead`/`DbRead`/`FillRead`; `Show`. Around
them are `Send` (the Lua script), `Persist` and `DeleteRow` (the writer's effect on
messages), `FlushReads` (a batch of read events, acknowledged or redelivered) and
`ExpireLast` (the key lives seven days; the models let it expire only after every
message has its row).

Abstractions: an error ends a request (`Abandon`), also in the list, which answers
with zero counts instead (a hazard without a property); read events are not lost
between outbox and writer (that path is MessagePipeline's); the hot store is not
lost and the number of shards does not change.

### SessionRegistry: the sessions of a user and the route table

`SessionRegistry.tla` (paths here relative to `im-server/src`) models one user with
sessions on several im-servers. Users do not share a route entry or a lock.

| variable | code |
|---|---|
| `sessions`, `userSessions` | the two maps of `ImServiceInner`, behind separate locks |
| `task` | locals of a socket task (`Session`), a renewal loop (a `Server`), a clean-up loop, push or internal request (`Worker`) |
| `route` | the user's field of `im:route:users`: session count in the lease of each server, 0 without one |
| `locked`, `holder` | the key `...:lock:{user}`; the task with its token, none if that crashed |
| `failures`, `disturbed` | bound on failures; history: a lock expired in use or a load failed |

`Register`, `Heartbeat`, `Close`, `Unregister` + `RemoveId` (the two halves of
`remove_session_local`), `Touch`, `Query` and `Renew` are the entry points. All end in
one path: `ReadIds` and `CountSessions` (`local_sessions` takes the two locks one
after the other), then `Lock` (or `GiveUp`), `Load`, `Store`, `Release`. The count is
taken before the lock, as in the code. `Renew` and the removal of the last session
skip the count: they know it.

Environment: `LockExpires` (nobody uses it), `LockExpiresInUse` (a slow task),
`LoadFails`/`StoreFails` (Redis errors), `LeaseExpires`, `Crash`. A crash also stands
for a graceful shutdown, which removes the server node but no route (`main.rs:57`).

Abstractions: a lease expires only on a server where the user has no session any
more, because it is renewed every 30 s and lives 120 s; giving up for another reason
than an orphaned lock counts as a failure, because the twenty attempts outlast the
two commands of a holder by far; heartbeat times are left out (the clean-up may
remove any session). Presence events and the server-node record are not modelled.

### Services around the messages

Six modules that share no state with one another; `MCServices` puts them side by
side, and its variable `focus` chooses the part a behaviour is about.

**AccessCaches** follows one relation (`kind`: friendship, membership, activity, or
the member list a push goes to) through the caches of several api-servers.

| variable | code |
|---|---|
| `related` | the row in MySQL |
| `shared` | the entry in Redis, with its remaining lifetime |
| `memory`, `marker` | the entry of each process in `local_cache.rs`, its `friend_preload` marker |
| `check`, `change` | the check (serialized per key by `key_lock`) and the change each process has in progress |
| `since`, `oldest` | history: how long ago the relation had each value; age of the oldest answer |

A check is `AnswerFromMemory`, or `LockKey` and then `AnswerFromRedis`,
`AnswerFromMarker` or `QueryRelation` + `StoreAnswer`; a change is `ChangeRow` +
`CacheRelation`, of which joining, leaving and deleting an account do only the first;
`BeginMention` and `BeginRepeatedAdd` read the row and then cache what they found. `CacheTick` ages everything;
time passes only between requests. The capacity of the memory cache and Redis errors
are left out; with them, a pipeline that fails while friends are preloaded
(`message_cache.rs:186`) would leave a marker that answers "no" for a friend
(`message_cache.rs:151`).

**PrivateChat** is one direction of a private conversation: `BuildMessage` (id, and
the client's own id) and `WriteHot` (the script), `DeleteHot` + `QueueDelete`,
`Persist` (the writer's effect), `ExpireMessage`, `ExpireConversation`; the receiver's
history (`BeginHistory`, `LoadNext`, `ReadRows`, `ShowHistory`) and receipt
(`BeginMark`, `StoreReceipt`, `ResetUnread`). `index` and `hot` are Redis, `row` and
`queue` the database and what has not reached it, `unread` and `cursor` the counter
and receipt, `read` the locals of each request. `InOrder` says that scripts run in
the order of the ids that were made before them.

**PushDispatch** is the consumer group of the dispatcher (`events`, `handed`,
`unacked`, `batch`, `phase`), the route cache with its age, and the requests of one
event (`sending`), which are awaited together. A request is answered or fails,
`RestartDispatcher` forgets all but the stream, `MoveUser` and `LeaseEnds` change the
routes meanwhile.

**AuthTokens**: `Login` and `Refresh` go through `SwapIdentifier` (a script),
`BuildPair` and `StorePair`; `RevokeUser`, `ForgetIdentifier`, `DropResource` are the
three commands of a revocation; `RevokeToken` lists one access token. Time goes in
half seconds, because tokens carry whole ones (`issued`). A ticket is issued, expires
or is consumed by a script, perhaps by somebody else or without an answer; a
connection is closed after `MaxInvalid` payloads in a row. Signatures are unforgeable.

**UserAccounts**: the statements of the handlers of one user: `account` (the row),
`codes`, `settings` (row) and `shown` (its copy), `files`, and `device` with the
version of its push token; `work` is where each handler is. `LockDevice` is SELECT ...
FOR UPDATE: a row is locked by one transaction, a gap by any number, of which one
can insert.

**AutoReply**: two users who write to each other; `enabled` and `copied` are the
switch and its copy in Redis, `reentry` the lock of a receiver, `rounds` the counter,
`job` and `switching` where background jobs and requests at the switch are. `matter`
chooses between the two halves, which have nothing but the job in common.

### End-to-end encryption

Six modules again, side by side in `MCE2ee`.

**PreKeyClaims**: the bundle of one device. `Upload` and `Refill` insert one-time
keys; a fetch reads the device (`ReadDevice`), looks for an earlier claim
(`CheckFetch`) and claims in one transaction (`ClaimKey`, `ClaimNothing`,
`ClaimExists`), after which a claim of an older upload is dropped (`RereadClaim`,
`VerifyClaim`, `DropStaleClaim`). Devices, keys and claims are deleted and cleaned up
at any moment. `handed`, `answer` are history.

**KeyBackups**: `get_salt` looks for the row (`ReadSalt`), makes a salt and stores it
in a second statement; `UploadBackup` replaces backup and salt.

**E2eeSessions**: a request of the negotiation loads the row, writes it, loads it
again and pushes what it finds (`LoadRow`, `WriteRequest`/`WriteAccept`/`WriteReject`/
`WriteDisable`, `ReloadRow`, `Push`); a send checks negotiation and metadata and then
posts (`ReadNegotiated`, `ReadMetadata`, `Post`). The row of the session id as the
message service spells it is `Canonical`: `p_1_2` and `p_2_1` are accepted and are
different rows.

**GroupSenderKeys**: the handlers of joining, leaving, adding, removing, dismissing,
enabling, rotating and pushing keys as sequences of statements (`Steps` lists them),
and the clean-up. A handler may stop at any of them (`faults`).

**DoubleRatchet**: X3DH and the double ratchet over symbolic keys (a shared secret is
a set of two keys, a root the sequence of them), a network that delays, reorders,
repeats and damages, and the store of skipped keys with its bounds `MaxSkip` and
`MaxStored`. `inPlace` tells the session managers, which change their state even if a
message cannot be read, from the mobile bridge.

**SessionHosts**: the native session manager (locks between threads, two looks), the
one in the browser (replaces a session) and the mobile bridge (keeps nothing). A state
is a root and how far sending and receiving have gone.

## 3. Runs

| run | question | bounds | properties |
|---|---|---|---|
| core | is anything accepted lost, wherever one failure happens? does everything arrive? | 2 messages, 1 request, 1 publisher, 1 writer, batches of 2, 1 failure, fair | TypeOK, NoMessageLost, NoStatusLost, ImplementsDurableStatus, MessagesReachTheRow, StatusesReachTheRow |
| race | overlapping recalls and deletes of one message, two writers, clocks apart | 1 message, 2 requests, one with an event the writer cannot read, 1 publisher, 2 writers, batches of 1, 1 failure | RowNeverRegresses |
| trimmed | MAXLEN discards entries under the writer | 2 messages, 1 request, stream limit 1, batches of 1, 1 failure, fair | PipelineDrains |
| stuck | does the writer skip an entry it cannot read? (it does not) | as core, no failure | MessagesReachTheRow, violated |
| home | requests that overlap on the shard of the group | 2 requests at a time, 1 message at the start, 2 in all | TypeOK, SequencesAreUnique, UnreadNeverHidden, CursorNeverRegresses |
| shards | the list reads another shard than the group's | 1 request at a time, 2 shards, 3 messages | HotReadIsBacked |
| overlap | does what was read stay read if two marks overlap? (no) | as home, 3 messages | ReadStaysRead, violated |
| registry | do the maps agree, do servers keep one another's leases? | 2 servers, 2 sessions, 1 worker, 1 failure | TypeOK, MapsAgree, ForeignLeasesKept |
| routes | does the route become right, whatever is disturbed? | 2 servers, 2 sessions, 1 failure, fair | RoutesConverge |
| services | the six services | see below | TypeOK, AnswersAreRecent, HistoryHasNoGaps, ReceiptCoversUnread, PushesInOrder, PushesFollowRoutes, TokensStayUsed, TokenVersionNamesToken, RobotsPause, OffMeansOff |
| e2ee | the six parts of end-to-end encryption | see below | TypeOK, OtkHandedOnce, AnswerIsCoherent, BackupOpens, AnsweredOnce, VersionNamesState, NewestVersionIsTold, PlaintextWasAllowed, MembershipSettles, EveryMessageReadable, MessageKeyUsedOnce, KeyReuseNeedsLoss, SessionStays |
| senderkeys | does the clean-up keep live keys? (no) | 1 handler, owner and 1 guest, 2 epochs, 1 key | CleanupKeepsLiveKeys, violated |

Why the bounds are enough to be interesting.

*Pipeline.* Two messages and one status change make a batch that is partly
published, partly flushed, partly acknowledged; a batch of two makes "full" and "not
full" both happen; one failure is enough to put a crash between any two commands. The
log is bounded by itself: an event enters the outbox once and is published again only
after a failure. `StreamMaxLen` is 20 where trimming is not the question (no
behaviour of those runs adds 20 entries) and 1 where it is.

*Group.* Two requests with two messages have every refill and every store race with
a send, a persist and another request; requests are repeated without bound.

*Registry.* Two sessions on the same or on different servers (`Init` chooses), each
opening and closing once, with renewals without bound; the failure is a crash, a lock
expired in use, a failed load or store or a skipped update, at any point.

*Services.* Two processes, two senders, two requests, two jobs: one to be in the
middle of something and one to get in its way; no property is about three. Caches live
3 ticks (Redis) and 2 (memory), shorter when negative, so that every order of expiry
occurs. Three messages with pages of two make a page full and not full, with a message
behind it. Three events in batches of two end one batch and begin another; one user
moves between two servers. Two pairs of tokens and three half seconds put a token
before, in and after the second of a revocation. Four requests on an account, two
passwords, phone numbers and push tokens, three versions. Two rounds before a pause.

*Encryption.* Two requests for the bundle and two combinations a claim is unique for,
two uploads and one key sent twice; two devices with three salts; two callers and
three versions of a session; two handlers, an owner and a guest, two epochs; five
messages, two skipped keys and four key pairs of a device, so that keys are skipped,
kept, dropped and asked for after later ratchet steps; two threads, one handshake and
one key agreement, so that a state is exported, outdated and restored.

A run of parts checks them one after the other: in each behaviour one part moves and
the others stay as they were started. The symmetry permutes names that are used by all
the parts that are symmetric in them.

Runs that may stop (all sessions closed, all messages sent) do not check deadlock.

The three violated runs are disagreements of the code with its own documentation or
messages: see `findings` in `PROJECT.json`.

- *stuck*: "skip invalid event json" leaves the entry pending, and the reader returns
  it before anything new, for ever.
- *overlap*: the row takes the greatest read position, the hot key the latest one.
- *senderkeys*: the clean-up takes `e2ee_sender_keys.device_id` for a device of the
  sender, where the handlers store one of the recipient, and deletes live keys.

What else the models show, without a run of its own:

- In a group without messages the refill of the sequence key (GET, MAX, SET) can take
  back a counter that sends have advanced meanwhile, and two messages get one number:
  `SequencesAreUnique` needs `Initial > 0`.
- With more than one group shard the list caches a read position on shard 0 that no
  mark updates: `ReadStaysRead` fails there even for single requests.
- With two writers under one consumer name or two clocks, a status change may be
  applied before its message has a row, and is lost (`NoStatusLost` is checked with
  one of each, as the deployment has them).
- A send whose script runs behind a newer id is not covered by a receipt or page that
  names the newer one: `services` sets `InOrder`.
- A refill of the pre-keys sends a key twice and makes two rows of it. They are two
  rows for `OtkHandedOnce`, but one key: `copy` tells them apart.
- The first of two overlapping `get_salt` requests may get a salt that is replaced
  (`overlapped` in `BackupOpens`).
- Rows of `p_1_2` and `p_2_1` are negotiated separately, and only one of them is
  looked at by a send.
- A background job that read the switch of automatic replies before it was turned off
  may write its copy after it was removed; replies go on until the copy expires
  (`revived` in `OffMeansOff`).
- The defaults of user settings overwrite what was saved between the two statements
  of `settings()`, and two updates of different kinds can undo one another.
- Redis keeps one refresh token per user: a login ends the session of another device.

### Fairness

- MessagePipeline: `WF` of each publisher thread and each writer thread:
  `background_task::spawn` starts them once and their loops sleep and retry for ever
  after an error. Nothing is assumed of API requests.
- SessionRegistry: `WF` of the steps a task takes by itself, of the release (a task
  of its own), of the renewal loop and of the expiry of leases and locks (time
  passes); `SF` of `Lock`. The last is the strongest assumption: a task that tries
  every 25 ms while the lock is free again and again gets it at last; the renewal
  comes back every 30 s, so one update skipped is not the end. Sessions need not do
  anything.
- Failures are bounded by `MaxFailures`, so a liveness property says: once failures
  stop, it happens.
- The services and the encryption state safety only. Their handlers may stop at any
  step for good, and nothing in the code repeats a request that failed.

### Assumptions

- Redis and MySQL keep what they acknowledged (the compose files enable the
  append-only file). Key expiry (7 days for messages and events) is modelled in
  PrivateChat and, for the last message, in GroupUnread; not in MessagePipeline.
- The background threads do not panic; a panic would stop a thread for ever
  (`background_task.rs:9`).
- `NoMessageLost` and `NoStatusLost` are stated under `~overflow`: once MAXLEN has
  discarded an entry nobody has acknowledged, nobody can get it back.
- `ForeignLeasesKept` is stated under `~disturbed`: a lock that expires in use or a
  load that fails (taken for an empty entry) does undo other servers' leases, until
  they renew them. `RoutesConverge` is checked with both.
- A history property excuses a request only by a cause named in its variable:
  `overtaken` (an upload came in between), `overlapped`, `lost` (a request failed after
  its write), `late` and `faults` (group keys), `spoiled`, `forgotten`, `replaced`,
  `overlap` (clients), `blind` and `broken` (private chat), `revived`, `missed`
  (automatic replies). The mutants in `PROJECT.json` show that none of them excuses
  everything.
- Cryptographic primitives are perfect, tokens and tickets cannot be guessed.

## 4. Proofs

| theorem | says | module |
|---|---|---|
| TypeCorrect | `Spec => []TypeOK` | MessagePipelineProofs |
| RowsNeverRegress | `Spec => RowNeverRegresses` | MessageDeliveryProofs |
| DeliveryCorrect, NothingLost | `Spec => []DeliveryInv`, hence `Spec => []NoMessageLost` | MessageDeliveryProofs |
| StatusesNotLost | one writer, `OneClock` and `Spec => []NoStatusLost` | MessageDeliveryProofs |
| PipelineIsDurable | `Spec => ImplementsDurableStatus` | DurableStatusProofs |
| TypeCorrect | `Spec => []TypeOK` | GroupReadProofs |
| ReadsAreBacked | `Spec => []HotReadIsBacked` | GroupReadProofs |
| CursorMonotone | `Spec => CursorNeverRegresses` | GroupReadProofs |
| NumbersAreUnique | `Initial > 0 /\ Spec => []SequencesAreUnique` | GroupReadProofs |
| UnreadIsComplete | `Initial > 0 /\ First = Home /\ Spec => []UnreadNeverHidden` | GroupReadProofs |
| TypeCorrect | `Spec => []TypeOK` | SessionRegistryProofs |
| MapsCorrect | `Spec => []MapsAgree` | SessionRegistryProofs |
| LeasesIndependent | `Spec => ForeignLeasesKept` | SessionRegistryProofs |
| KeysHandedOnce, AnswersCohere | `KeysSpec => []OtkHandedOnce`, `[]AnswerIsCoherent` | E2eeProofs |
| BackupsOpen | `BackupSpec => []BackupOpens` | E2eeProofs |
| RequestsAnsweredOnce, NewestVersionsTold, PlaintextsWereAllowed | `NegoSpec => []AnsweredOnce`, `[]NewestVersionIsTold`, `[]PlaintextWasAllowed` | E2eeProofs |
| VersionsNameStates | `NegoSpec => VersionNamesState` | E2eeProofs |
| KeyReuseExplained, SessionsStay | `HostsSpec => []KeyReuseNeedsLoss`, `HostsSpec => SessionStays` | E2eeProofs |
| MembershipCorrect, SenderKeysTyped | `GroupKeysSpec => []MembershipSettles`, `[]GroupKeysTypeOK` | E2eeProofs |
| KeysUsedOnce | `RatchetSpec => []MessageKeyUsedOnce` | RatchetProofs |
| MessagesReadable | `RatchetSpec => []EveryMessageReadable` | RatchetProofs |
| RatchetTyped | `RatchetSpec => []RatchetTypeOK` | RatchetProofs |
| TypeCorrect | MCE2ee: `Spec => []TypeOK` | E2eeProofs |
| EncryptionCorrect | MCE2ee: `Spec` and the properties of its run | E2eeProofs |
| TokensUsedOnce | `AuthSpec => []TokensStayUsed` | ServiceProofs |
| VersionsNameTokens | `AccountsSpec => []TokenVersionNamesToken` | ServiceProofs |
| SwitchedOffStaysOff, TwoRobotsPause | `ReplySpec => []OffMeansOff`, `[]RobotsPause` | ServiceProofs |
| AnswersRecent | `CachesSpec => []AnswersAreRecent` | ServiceProofs |
| PushesOrdered, PushesRecentlyRouted | `PushSpec => []PushesInOrder`, `[]PushesFollowRoutes` | ServiceProofs |
| HistoryComplete, UnreadCovered | `InOrder` and `ChatSpec => []HistoryHasNoGaps`, `[]ReceiptCoversUnread` | ServiceProofs |
| TypeCorrect | MCServices: `InOrder` and `Spec => []TypeOK` | ServiceProofs |
| ServicesCorrect | MCServices: `InOrder` and `Spec` and the properties of its run | ServiceProofs |

They hold for all values of the constants that satisfy the assumption of their
module (`ConstantsAssumption`, `GroupAssumption`, `RegistryAssumption`,
`KeysAssumption`, ...): any finite set of messages and requests, any number of
publishers, writers, shards, servers, sessions, clients, threads and jobs, any batch
sizes and limits and any number of failures.

**Pipeline.** `NoMessageLost` is not inductive: it does not say why an entry that was
acknowledged has its row, or why a member that was removed from the outbox is on
the stream. `DeliveryInv` adds that only accepted events travel (`OnlyAccepted`),
that the entries a writer holds as flushed have their row and the batched ones are
not acknowledged (`WriterHolds`), and that a publisher about to delete its batch has
put it on the stream or its row exists (`PublisherHolds`). The refinement proof
adds that no row is ahead of what was promised; each action then maps to a
`Promise`, a `CatchUp` or a stutter.
`NoStatusLost` needs the order of events on top of that. `StatusInv` follows a message
and its status change from the outbox (the message is due first, `OneClock`) through
the batch of a publisher (`BatchesInOrder`) and the stream (`LogInOrder`) to the writer,
which has at hand whatever is older and not through (`StreamInOrder`); so a change is
never applied before its row exists. Both premises are necessary: with two clocks or
two writers under one consumer name the order is lost, and so is the change.

**Group.** `ReadInv` extends `HotReadIsBacked` to the positions a request is about to
store or has read: they are backed from the moment the event is queued or the row is
written, and neither acknowledging (the greatest of the batch is in the row by then)
nor another request takes that away. `SeqInv` says that in a group with a message the
sequence key of its shard exists, is the number of messages, and message k has
number k; so no refill on that shard is ever on its way (refills elsewhere do no
harm). The premise `Initial > 0` cannot be dropped: a group without messages violates
it.
`UnreadInv` says of every list in progress that the sequence it has covers the
messages that were there at its start, and that all of those are deleted if it found
no last message; `CountIsEnough` bounds the set of
unread messages by an interval. The premise `First = Home` cannot be dropped either:
on another shard the list may meet an old sequence.

**Registry.** `MapsInv` adds to `MapsAgree` that what a task is about to remove has no
entry any more, and that no session in a map or about to be removed can still
register; without it a registration could slip in between the two halves of a
removal. `LockInv` is the mutual exclusion: whoever uses the lock holds it, and what
it has loaded is still the entry (an expiring lease leaves both copies). Then a
`Store` changes the own lease only.

**Encryption.** `KeysInv` says that no row is ever made twice: what was handed out is
of an older upload or has been counted, and is marked consumed while it is in the
pool; and that a request which has not been overtaken has read the newest upload.
`NegoInv` says of every version that was not told yet who is going to (`WillTell`), that
a pending request has no answer, and that a send which may still find plain text was
allowed to at some moment. The update's own condition on the status is what keeps a
second answer out, whatever a request had loaded. `SendersInv` says that requests which
store keys know who has left since they looked (`LeftIsKnown`), so that what they have
stored for somebody who is gone is marked late (`EnablingIsSafe`), that somebody who is
gone either has no key of the current epoch or a request that starts the next one is on
its way (`LeavingIsSafe`), and that a count that is wrong is about to be corrected
(`CountIsComing`). `HostsInv` says that
all keys used so far lie behind the state that is held (`KeysBehind`), until a named
loss. `BackupInv` says that a salt is made by one device at a time until two overlap.

**Ratchet.** A root only gets longer, and a chain is named by its root: so what a device
derives next is new. `UsedOnceInv` says that a state keeps keys of chains it has seen
only, each at most once (`Sound`), and that the key of a message that was read is used up:
its chain is passed, or the counter is, and the store does not have it (`UsedUp`). No
step brings a key back, whatever is damaged or repeated, and even if the state is
spoiled. `ReadableInv` relates the two devices as long as no state is spoiled: they stand
`Together` at the start, or one is `AheadOf` the other by one key pair; a message carries
the key, the chain and the previous counter its sender had (`SenderFacts`), and each
message from before the place its recipient has come to has been delivered, has its key
in the store, or lost it to others (`RecipientFacts`, `Accounted`). So whatever arrives
first finds its key. `AgreementAgrees` is where both begin: the two sides of the key
agreement compute one root. `RatchetTypeOK` follows from both and from `CountsInv`: the
messages of a chain are numbered in the order they are sent, so that no counter passes the
bound of messages, and a store of a sound state has as many names as entries.

**Services.** `TokensInv` says that what is remembered has been returned, that a pair
on its way to be stored is nobody else's and has not, and that a revocation in
progress has already moved the time past all the pairs it is to end: so the three
commands can be interleaved with anything. `DeviceInv` says that the transactions of
registrations carry the version that is due for their token, and that they come one
at a time as soon as there is a row. `SwitchInv` says that a job or request about to
write "on" is right or late. `RoundsInv` counts: what was queued is counted, about to
be, or missed (`streak =< rounds + Counting + missed`), and who is about to queue has
its place among the jobs (`streak + Queueing =< RoundLimit - 1 + Job + missed`);
the cardinalities are those of FiniteSetTheorems. `CachesInv` gives every copy what is
left of its life: since the relation had the value of an entry, no more time has passed
than the lifetimes of the copies still to be made of it leave (`SharedIsRecent`,
`MemoryIsRecent`, `MarkerIsRecent`). It needs the order of the four lifetimes that
`CachesAssumption` states (60 s and 10 s in memory, 300 s and 60 s in Redis). `PushInv`
says that what a server has comes before what is on its way to it, before what is left of
the batch, before what was not handed out (`QueueInv`), and that routes that have changed
since they were cached changed after that (`CacheIsRecent`). `ChatInv` says that the index
is in order and lacks only older messages that have a row (`IndexInv`), that what was
accepted has a row or is queued for one (`CopiesInv`), and of each message on a page to
come that it was found, is still to be loaded, or will be found as a row, and is older
than all that was found (`WillBeShown`). Both theorems have the premise `InOrder`.

**Side by side.** `MCServices` and `MCE2ee` run their parts in one behaviour each, of which
one part is in focus. `PartsFollow` (in ServiceProofs and in E2eeProofs) proves that such a
behaviour is one of every part's own specification; so what is proved of the parts holds of
the specification the run checks, the type invariants (`TypeCorrect`) as well as the other
properties (`ServicesCorrect`, `EncryptionCorrect`). The type invariants of accounts,
tokens and replies need invariants of their own: a request holds on to a word, to a file
that is there or to a version within its bound (`AccountsTyped`), and whoever is on the way
has somebody's name (`ReplyTyped`).

Induction over numbers, where a proof needs it (the last of two places, a bounded set of
ids, the first position in a store), is done by the least counterexample: the library's
induction theorems take an operator as a parameter.

Only model-checked: the violated properties, which no theorem can state, all liveness
properties (MessagesReachTheRow, StatusesReachTheRow, PipelineDrains, RoutesConverge) and
what needs `ENABLED` (out of the prover's reach). All invariants and action properties of
the passing runs are theorems; where a theorem has a premise (`InOrder`, `OneClock` and one
writer, `Initial > 0`, `First = Home`), the configuration of the run satisfies it.

## 5. Plan

1. *(done)* MessagePipeline, DurableStatus; GroupUnread; SessionRegistry; their runs
   and proofs.
2. *(done)* The services and the encryption, their runs, and proofs for pre-keys,
   backups, negotiation, session hosts, tokens, push devices and automatic replies.
3. *(done)* Proofs: `NoStatusLost` (one writer, one clock), the caches, the push
   dispatcher, private chat, group keys, the ratchet.
4. The private half of the conversation list beside GroupUnread; presence events
   (order of ONLINE and OFFLINE) beside SessionRegistry; an abstract route table that
   SessionRegistry implements.
5. Id resolver as a pure operator over bounded ids; the outbox of the web client.

Runs stay few: one for each distinct question, with the parts that share no state side
by side.

## 6. Not modelled

Every component is listed in `PROJECT.json` with the reason. In short:

- I/O and CRUD: files, moments, admin server, AI summaries and documents, search, HTTP
  front end, scripts; user interfaces and the outbox of the web client.
- Id resolver: near match of ids rounded by JavaScript; planned.
- Presence events: published when the first session opens and the last one closes,
  without an order between the two.
- Cryptographic primitives, encodings, the C interface of the session manager.

Hazards without a property, each in `PROJECT.json` or here:

- a send repeated after its dedup key has expired is accepted and never gets its row;
- losing the hot store restarts numbers and counters (`message_redis.rs:170`);
- a background thread that panics is not started again (`background_task.rs:9`);
- an MGET that fails is taken for an empty reply and every group shows no unread
  messages (`message_conversation.rs:323`);
- a read event the writer cannot parse stays pending (`background_writer/mod.rs:370`),
  as the run stuck shows for messages;
- `apply_message_status` stores the hot status before the event, and a failure between
  the two leaves a message deleted in Redis only (`message_read.rs:264`);
- a push that fails is never repeated (`push_dispatcher.rs:94`): best effort by design;
- preloading friends stops at a maximum, beyond which a friendship is looked up one by
  one.
