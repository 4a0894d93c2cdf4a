# 64cam in TLA+

64cam records network cameras. A *node* runs MediaMTX, which writes 60-second
fMP4 segments, and keeps a WebSocket to the *coordinator*, which owns the
PostgreSQL database and serves browsers and phones. This directory models the
protocols between them: modules that translate the Rust source, small instances
that TLC checks, and theorems that TLAPS proves for every instance.

## Inventory

| Part | State | Operations | Talks to |
|---|---|---|---|
| Recording pipeline (`node/src/recorder`, `node/src/ws_client.rs`, `coordinator/src/routes/node_ws.rs`) | segment files, JSONL queue file, flush channel, `recordings` rows | file event → `handle_segment` → `SegmentQueue::push` → wake-up → `flush_queue` → `index_segment` | file watcher, socket, database |
| Node sessions (`coordinator/src/state.rs`, `routes/node_ws.rs`, `routes/cameras.rs`, `routes/nodes.rs`, `node/src/ws_client.rs`) | `cameras` and `nodes` rows, registry of senders, one task per connection, the node's camera list | camera CRUD, node status, registration of a connection, ConfigSync, forward, teardown | database, registry, socket |
| Tiered storage (`node/src/storage`, `node_ws.rs:223`) | files, S3 objects, `storage_uri` | upload, notify, delete the local file, update the row | S3, socket |
| Retention and watchdog (`coordinator/src/retention.rs`, `node/src/recorder/watchdog.rs`) | rows, files | delete expired rows and tell the node; cull when the disk is full | database, socket |
| Accounts (`coordinator/src/routes/auth.rs`, `users.rs`, `middleware/auth.rs`) | `users` and `sessions` rows, the tokens clients keep | login, refresh, logout, expiry, create, change and delete a user | database, HTTP clients |
| Retention policies (`coordinator/src/routes/retention.rs`, `node_ws.rs:279`, `retention.rs:42`) | policies, the default, the policy of a recording | CRUD in transactions, look-up for a new recording, choice of expired rows | database |
| MediaMTX supervisor (`node/src/mediamtx`) | process, configuration file | write, spawn, reload, restart | camera lists of the client |
| Motion (`node/src/events`, `ws_client.rs`, `node_ws.rs:250`) | running tasks and their signatures, a camera's subscription, the event channel, `events` rows | reconcile every 10 s; subscribe, renew, poll; compare frames; send, index, broadcast | camera list, the camera, socket, database |
| Dashboard feed (`coordinator/src/routes/dashboard_ws.rs`, `frontend/src/hooks/useStatusWs.ts`) | subscriptions, what a browser shows, a node's address | snapshot, broadcast, merge | database, connection tasks |
| Registration (`node/src/registration.rs`, `identity.rs`, `coordinator/src/routes/nodes.rs`) | identity file, `nodes` row and key | register, save, load, pre-provision, judge, delete, authenticate | HTTP, database |
| Playback and live view (`coordinator/src/routes/playback.rs`, `whep.rs`, `node/src/playback.rs`) | none of their own | timeline, segment, export, WHEP offer | database, files, the node's HTTP servers |
| Event queries, S3 signing, hardware detection, user interface | none that interleaves | stateless | — |

What is hard in this code: the recorder and the flush share a file with no lock
and an in-memory wake-up; a sent entry is never acknowledged; the coordinator
runs one task per connection and several may exist for one node; a handler
commits first and pushes afterwards; failures are mostly ignored (`let _ =`,
`unwrap_or_default`). `PROJECT.json` lists each of these at its line.

What makes each part correct: a finished segment gets exactly one truthful row
(pipeline); a connected node follows the database (sessions); every row points
to a file or an object that exists, and everything expired goes in the end
(storage, retention); a refresh token works once and a session that ended stays
ended (accounts); one default policy, and nothing goes before its time
(policies); MediaMTX and the motion tasks follow the last camera list, a motion task hears
its camera and what it reports is stored; a browser
shows what the coordinator knows (dashboard); a node keeps the row its
recordings refer to (registration); a clip has everything of its range
(playback).

## Modules

| Module | Models |
|---|---|
| `RecordingIndex` | abstract: at most one row per segment, never changed, never ahead of its file |
| `SegmentStore` | abstract: where a segment's data is and what its row says, seen by a reader |
| `PolicyTable` | abstract: retention policies changed by requests that take effect at one moment |
| `SegmentDelivery` | the recording pipeline, step by step |
| `NodeSession` | camera and status handlers, registry, connections, the node's list |
| `TieredStorage` | migration to S3, watchdog, retention enforcer and the row's URI |
| `CameraFollowers` | MediaMTX under its supervisor, and the motion tasks |
| `Accounts` | users, sessions and tokens |
| `RetentionPolicies` | policies, their transactions, the policy of a recording and its expiry |
| `Registration` | a node's identity, its row and its key |
| `NodePresence` | a node's address and what browsers show of it |
| `Playback` | timeline, segment, export and live requests |
| `MotionWatch` | the motion of one camera, from its detection task to the browsers |
| `MC*` | constants and symmetry for TLC; `MCCoordinator` composes `Accounts` to `MotionWatch` |
| `*_proofs` | TLAPS proofs about the module they are named after; `NodeFollows_proofs` is the second about `NodeSession`, `Coordinator_proofs` is about `Registration` to `MotionWatch` and the composition |

### SegmentDelivery

An action is the code between two points where another task can run. The
recorder task is `recPc`: `ReceiveEvent` (receive, read the size), `LookUpCamera`,
`QueuePush` or `QueuePushFails`, `SignalFlush`. The WebSocket client is `wsPc`:
`Connect`, `DrainStale`, then `ReadAll`/`ReadFails`, `SendSegment`/`SendFails`,
`ClearQueue`/`ClearFails` (flush_queue), and back in the select loop `WakeFlush`,
`HandleCameras`, `Disconnect`. The client does nothing else while it flushes, as
in the code. Each connection has its own `wire` because each has its own
`handle_socket` task: entries of an old connection may be indexed after those of
a new one. `IndexSegment` and `IndexFails` are that task.

* **The queue file.** `write_all` on a `tokio::fs::File` hands the bytes to a
  background thread, and `push` drops the file without a flush. So `QueuePush`
  only puts the entry into `writing`; `WriteLands` puts it in the file later, or
  into a removed file (`linked` false) when `clear` came in between. A line
  written after its wake-up was sent is `late`: the flush it asked for may have
  found nothing. `WriteFails`: the background write fails, and nobody hears of it.
* **A failed read** is an empty list (`unwrap_or_default`): in `ReadFails` the flush
  returns with its wake-up consumed and every line still in the file. `unread`
  remembers how many those were.
* **The wake-up channel** is unbounded but always drained to the end, so only
  whether it is empty matters: `notified`.
* **A segment entry** carries the segment, the event it was made for and whether
  its size is that of the finished file. The identifier is a function of the path
  (UUIDv5), so both events of a file mean the same row.
* **Connections** are `up`, `half` (broken, nobody has noticed) or `dead` (a send
  has failed). A send on a `half` connection may succeed: the entry is gone.
  `LoseWire` loses what was sent and not handled. A coordinator crash is
  `BreakLink` with `LoseWire`.
* **History.** `lost` names, for each finished segment, how a copy was lost:
  `unwatched` (closed while the node was down), `unknown` (no camera with that
  stream path), `unqueued` (queue file not opened, or the line not written),
  `crash`, `overtaken` (removed by `clear`, never sent), `link`, `database`. No
  action reads it.

### NodeSession

One node. A handler is a `task`: `ResolveNode`, `CheckCapacity`, `InsertCamera`,
`PushToNode` (create), or one commit and `PushToNode` (update, delete), or
`UpdateNodeStatus`, `FetchForSync`, `PushToNode` (approval). `registry` is the
node's sender in `AppState.nodes`, by connection number. A connection's task goes
through `phase`: accepted (authenticated), registered, fetched, open, closing,
gone; `Teardown` removes the registry entry whatever connection it belongs to, as
the code does. `rx` is its unbounded channel and `net` the wire. The node keeps
its list when it disconnects and starts with an empty one after a crash.

`excused` is a history variable: the cameras for which the code gives no
guarantee, because two requests had changes of the same camera committed and not
pushed, a handler was dropped between commit and push, a failed fetch became an
empty list, or the node was deleted. A list fetched for the node's own connection
clears it for every camera no pending message concerns.

Configurations are version numbers; the camera list is a function, because
`CameraAdded` removes an older entry before it adds. `create_camera`'s choice of
a node is reduced to the one node.

### TieredStorage

Where a segment's data is (`file`, `object`) and what its row says (`row`). The
migration task is `migPc`: `StartPass` collects the candidates, then for each
`ReadFile`, `PutObject` or `PutFails`, `Notify`, `RemoveFile`, and `EndPass`. The
candidates are a set because the order in which a directory is walked is not
fixed. `Cull` is one deletion of the watchdog, `QueryExpired` and
`DeleteAndNotify` are the retention enforcer; its batch keeps the URI it read
while migrations go on. `age` stands for the clock: a file is being written, is
complete, is past `S3_MIGRATE_AFTER_HOURS`, or past the days of its policy. A pass
that finds nothing changes nothing and is not a step.

The pipeline that gives a segment its row is `SegmentDelivery`'s subject. Here it
is reduced to what matters for storage: an entry may be queued when the file is
created or closed, stays queued for as long as it likes, is sent with all others
by one `FlushQueue`, perhaps more than once, and may be handled after the
segment was migrated or its row deleted. The client's channel of migrations is a
sequence because it outlives a connection and dies with the process.

`adrift` is a history variable: the segments whose row may say `local://` of a
file that is not there, and why. `culled` and `deleted` say who removed the file;
`crash`, `link`, `database` and `unindexed` say where the news of a migration was
lost; `expired` is a row inserted again after its deletion. A segment is
struck off when its migration is announced.

`SegmentStore` is what the two tiers promise together: an object, once whole,
stays; a file that went does not come back; a row turns from `local://` to
`s3://` over an object that is there, never back, and goes only when the segment
has expired. `Place` maps file and object to one of five places; a partial or
failed upload does not show. It does not promise that a row follows its data:
that is what `RowLeadsToData` and its named losses are about.

### CameraFollowers

Where the camera list goes inside a node. `HandleIncoming` replaces `cameras` and
sends a copy to the supervisor (`configs`); which lists can come is
`NodeSession`'s subject, here it is any. The supervisor is `supPc`: `CheckHealth`
and `Respawn` (the top of its loop, with the pause before a restart), `Timeout` or
`TakeConfig`, `OpenFile` and `WriteFile` (one `fs::write`, which truncates first),
and `Apply` (reload or spawn). MediaMTX is external: `child` is the process the
supervisor holds, `unread` says that it has not read its file since its start or
the last SIGHUP, `ReadConfig` is the moment it does. A file that is not whole makes
it exit; a SIGHUP may too (it kills a process that has not installed its handler).
Motion tasks are `tasks`, with the configuration each was started with;
`Reconcile` is one round of their loop, which compares signatures.

`missed` is a history variable: the failures since the last list was taken (a
file not written, a process not spawned, a signal not sent) that the code does
not repair before the next camera change.

### Accounts

Login is `LoginSelect` (the user and the password, whose check is only its
outcome), `LoginInsert` and the answer; refresh is `RefreshSelect`,
`RefreshUpdate` and the answer, the two statements of `auth.rs` with whatever
comes between. `Respond` delivers an answer, `NoAnswer` loses it; several
requests of one client may be under way, and the answers come in any order. An
`UPDATE` that finds no row is answered 200, as in the code. `Logout` ends every
session of the user, `DeleteUser` too (by the cascade). The access token is what
the client was told: the code asks no table for it, so a demoted administrator
acts as one until `AccessExpires`.

A session goes by the number of its first token. `over` remembers sessions that
were ended, `good` the session a client may rely on: set when the client has the
answer to a login with nothing else under way, cleared by anything that may
legitimately take it away (sign-out, expiry, a lost answer, two requests at once).

### RetentionPolicies

A request that creates or changes a policy is a transaction of one or two
statements, and what each waits for is PostgreSQL's read committed. `Begin` fixes
the rows the first statement sees; `ClearDefaults` waits for those another
transaction holds (`RowsAreFree`). The second statement writes its row
(`WritePolicy`, `RowIsFree`) and, if that is to be the default, then enters it in
the unique index (`EnterDefault`), where it waits for whoever is changing the
default (`IndexIsFree`), with its row already locked. That order matters: two
requests that set the same policy can each hold what the other waits for
(`Crossed`), and then `BreakDeadlock`, the database's detector, fails one of them.
`CommitPolicy` publishes, `AbortPolicy` rolls back. Names are not modelled: a name
already taken is one of the errors of `AbortPolicy`. `DeletePolicy` is one statement that the foreign key
may refuse. `index_segment` is `LookUpPolicy` and `InsertRecording`, with the
policy free to go in between. `QueryExpired` chooses a batch by
`COALESCE(own, default)`, oldest first, and `DeleteExpired` works it off while
policies change. `edited` says that one was committed since the batch was read.
No code in the repository gives a camera a policy of its own, so the look-up
yields the default or none.

`PolicyTable` is the same table with every request an atomic step: `Apply` changes
the row and moves the default together. `pending` is what each administrator has
asked for; the mapping takes it from the open transaction, and the table from
what is committed.

### Registration

`Start` is `NodeIdentity::load`; without one the node registers (`SelfRegister`,
a new row for every request), holds the answer, and goes to work after
`SaveIdentity`. `Crash` may come at each step, and stands for a lost answer too,
since both end the process. An administrator creates rows (`CreateNode`), gives
one to a node (`Provision`, the environment), judges and deletes. A row and its
key are made together, so one number is both.

### NodePresence

The connection tasks of `NodeSession` again, for what they tell: `StoreAddress`,
`AnnounceOnline`, `EndLoop`, `AnnounceOffline`, each task at its own pace, so an
old one may store or announce after the new one. A browser is put into the map
(`OpenFeed`) before it gets its snapshot (`SendSnapshot`), and announcements wait
in its channel meanwhile. `RestartCoordinator` ends everything without a word.
`UnlistNode` is `delete_node`: the row goes, the connection and its task stay, the
node cannot connect again, and the snapshot no longer has it, so a browser that
shows it online is not corrected. `late`, `blind` and `misled` name the cases in
which the code promises nothing: an older task wrote the address last or the write
failed; the browser came after the announcement, or an older task took it back;
the snapshot's query failed, or its list lacks the deleted node.

### Playback

Segments come, are indexed, migrate and go (reduced to what requests see, with
each row following its file); `GetSegment`, `ExportClip` and `WhepProxy` are the
handlers with their order of checks. `ListRecordings` and `SegmentsInRange` are
the coordinator's and the node's choice of segments for a range, translated from
their two comparisons. A segment ends where MediaMTX stops writing it. That is at
the first key frame after the nominal length, `KeyFrameGap` later at most, or
earlier when the stream ends; the node takes every file for one of the nominal
length (`node/src/playback.rs:129`).

### MotionWatch

`watch` is what the detection task is about to do: `Subscribe`, then `Renew` and
`PullMessages` in turn (`onvif.rs`); or `SpawnFfmpeg`, then `ReadFrame`
(`diff.rs`, whose first frame is compared with nothing); after an error a pause,
`WakeUp` and everything anew, with nothing remembered. `clock` moves on at any
moment, but a polling step is over after `StepTime`, because every request has a
timeout. The camera keeps the subscription `until` then; `RestartCamera` forgets
it. A renewal is confirmed, refused or unanswered (`RenewConfirmed`,
`RenewRefused`, `RenewUnanswered`). One that is not answered may have reached the
camera all the same, and is asked for again in the next turn of the loop;
`unanswered` remembers when that was. A refusal is an answer, not an error: of
`Renew` it counts as a renewal, of `PullMessages` as no motion. `disowned` says
that the camera refused or restarted, after which the task polls a subscription
that may not exist, for good. `has_motion` can panic, which ends the task for good
(`dead`); only a change of the camera or a restart of the node starts another.

Events wait in `channel` as long as there is no connection (`main.rs:64` calls it
"real-time only"; nothing drains it, unlike the flush channel), `SendEvent` tries
once, `IndexEvent` and `BroadcastEvent` are `index_event`. Events of an old
connection are handled when its task gets to them. `gone` are the events lost,
`anew` marks the first event of a new task.

### MCCoordinator

`Accounts` and the five modules after it share no variable, so one run checks them
all: `focus`, picked by the initial state, is the part that moves. A safety
property that speaks of one part holds in the free product if and only if it holds
while the others stand still, so the product is not explored.
`Coordinator_proofs!PartsRun` proves the other half: in the composition every part
runs as its own specification says. Recordings and the enforcer multiply with a
third transaction to little effect, so a history that uses the third request has
none (`NoRecordings`, `MaxMixedRequests`).

## Runs

| Run | Instance | Shows |
|---|---|---|
| `delivery` | 1 segment with 3 faults, and 2 segments with no fault; fairness | `TypeOK`, `EverySegmentAccounted`, `OnlyNamedLinesSleep`, `BatchIsPrefix`, `EventuallySettled`, `ImplementsRecordingIndex` |
| `delivery_overtaken` | 2 segments, no fault | violation of `OvertakenStillIndexed` |
| `delivery_size` | 2 segments, no fault | violation of `RowsStateFinalSize` |
| `session` | 2 cameras, 2 requests, 3 changes, 1 fault, fairness | `TypeOK`, `ServedNodeFollows`, `OvershootBounded`, `EventuallyFollows` |
| `session_reachable` | 1 camera, 1 fault | violation of `ConnectedIsReachable` |
| `session_capacity` | 2 cameras, 2 requests, a limit of 1, no fault | violation of `CapacityRespected` |
| `storage` | 1 segment, 3 faults, fairness | `TypeOK`, `MigrationKeepsData`, `RowLeadsToData`, `ExpiredRowsGo`, `OldFilesLeave`, `ImplementsSegmentStore` |
| `storage_served` | 1 segment, 2 faults | violation of `MigratedIsServed` |
| `followers` | 2 cameras, 2 lists, 2 faults, fairness | `TypeOK`, `SettledServesCameras`, `EventuallyServes`, `EventuallyWatches` |
| `followers_stale` | 1 camera, 2 lists, no fault, fairness | violation of `LoginsReachTasks` |
| `coordinator` | 2 users, 2 clients, 2 requests, 3 tokens; 3 policies, 2 transactions at a time, 3 requests (2 with recordings), 2 recordings; 3 node rows, 3 crashes; 2 connections, 1 browser, 2 addresses; playback from 1 address at times 0 to 4 with segments of length 2 and 1 more to a key frame; time 0 to 7 with a renewal due after 3 and a subscription of 7, 2 events up to time 4, 2 mishaps; symmetry | `CoordinatorTypeOK` and the twelve properties from `OverStaysOver` on |
| `playback_address` | 1 host | violation of `ProxyReachesNode` |

* `EverySegmentAccounted`: a finished segment is on its way, indexed, or lost in
  one of the seven named ways; retries, partial flushes and failed removals lose
  nothing else.
* `OnlyNamedLinesSleep`: no wake-up is lost between the flush channel, the drain
  on reconnection and the burst drain, so a line sleeps in the file, waiting for
  the next segment or reconnection, in three cases only: it was written after its
  own signal had been consumed, it was there when a flush could not read the file,
  or it was sent and could not be removed.
* `BatchIsPrefix`: what is being sent stands at the head of the file, so the
  lines `clear` removes unsent are those appended since the read.
* `EventuallySettled`: a finished segment is indexed or lost for good, except a
  line that sleeps in the file in one of these three ways.
* `ImplementsRecordingIndex`: the pipeline implements `RecordingIndex`, by the
  mapping written out in `Index == INSTANCE RecordingIndex WITH ...`.
* `ServedNodeFollows`: registering before fetching the snapshot, and sending it
  before what was pushed meanwhile, loses no change.
* `OvershootBounded`: the check of the camera limit and the `INSERT` are two
  statements, so requests that race exceed the limit (`session_capacity` shows two
  that do); by fewer than are served at once, however many come one after another.
* `EventuallyFollows`: the node ends up with the database's row for every camera,
  unless it may not connect or its connection has lost its registry entry.
* `MigrationKeepsData`: a file is removed by the migration only when its whole
  content is in S3, however failed uploads, crashes, the watchdog and retention
  interleave.
* `RowLeadsToData`: an `s3://` row has a complete object, a `local://` row has a
  file, unless news is on the way or something with a name went wrong.
* `ExpiredRowsGo`: the row of an expired segment goes in the end, also when its
  entry is delivered after the deletion or its URI has changed.
* `OldFilesLeave`: an upload that failed is tried again until the file is gone.
* `ImplementsSegmentStore`: the migration, the watchdog, late entries and the
  enforcer implement `SegmentStore`: a failed, cut or repeated upload replaces no
  object, and a row goes only for a segment that has expired, however long ago the
  enforcer selected it.
* `SettledServesCameras`: whatever state of its file MediaMTX read, and however
  often it was restarted meanwhile, it serves the last list once that is applied.
* `EventuallyServes`: MediaMTX runs and serves the list in the end; an exit and a
  half-read file are made good.
* `EventuallyWatches`: exactly the cameras wanted and watchable get a task, on
  their present URLs.
* `OverStaysOver`: a session that was signed out, deleted with its user, or
  expired with no refresh in hand is never accepted again; the statements of a
  login or refresh already under way do not bring it back.
* `DeadTokensStayDead`: a refresh token that stops being accepted is never
  accepted again, although two refreshes with one token both succeed.
* `SignedInStays`: a client that sends one request at a time and hears every
  answer stays signed in, whatever its user's other devices do.
* `PoliciesConsistent`: one default at most and it exists, no recording refers to
  a missing policy, and a segment is dropped only for a policy deleted in between.
* `ImplementsPolicyTable`: however the statements of requests interleave, each
  changes the table at one moment and as a whole, or not at all: the default is
  not lost halfway through being moved, nor set on a policy that has gone.
* `SomeoneProceeds`: requests never all wait for one another, nor one for itself,
  but for the two that set the same policy, of which the database fails one.
* `OnlyExpiredGo`: a row is deleted by its own policy, or by the default if it has
  none, but for a change after the batch was read.
* `IdentityIsStable`: a self-registered node works under one row for good; the
  rows it leaves behind are as many as its crashes between `INSERT` and save.
* `AddressIsCurrent`: playback is sent to where the node is, through moves, while it
  has a row, unless an older connection's task writes last or the write failed.
* `ShownIsTrue`: what a browser shows once it has read its channel is true, in
  either direction (`ShownOnlineIsAlive`, `ConnectedIsShown`), but for the named
  excuses.
* `ExportCoversRange`: each file of the timeline's range is in the clip, the one
  being recorded included, and so is each that has a frame in the range but for
  one: of a file that began before the range and outlasted the nominal length, the
  tail may be left out, `KeyFrameGap` at most.
* `MotionFollowed`: the subscription of a polling task that the camera has not
  disowned runs out only when renewal after renewal goes unanswered, asked for at
  least every two steps since it was due (`WatcherHears`); two events of a task are a cool-down apart, although
  every new subscription forgets the last (`ReportsSpaced`); a reported event is
  on its way, stored, or lost by a mishap, never by the node being offline
  (`ReportsAccounted`); a browser shows only what is stored.

The seven violations are disagreements between a comment or a document and the
program; the findings in `PROJECT.json` quote them. In short:

* `delivery_overtaken`: `clear` deletes entries nobody has sent. A segment whose
  creation event was skipped, because the first camera list had not come, has only
  its closing entry; that one reaches the file while a flush sends the creation
  entry of the next segment, is removed with it, and no row ever names the segment.
* `delivery_size`: a row can state the size of an unfinished file for ever.
* `session_reachable`: the teardown of an old connection takes the new one's entry
  out of the registry, and what is pushed to the connected node is dropped.
* `session_capacity`: two requests both pass the check of the camera limit before
  either inserts.
* `storage_served`: the news of a migration is sent once, after which the file is
  gone, and a row that missed it stays `local://`.
* `followers_stale`: a changed ONVIF login reaches no running motion task.
* `playback_address`: a proxied playback request goes to port 80, because the
  address is taken from an `INET` column by a cast that shows its netmask.

An eighth has no run of its own. The comment at `onvif.rs:108` has an expired
subscription end the polling ("bubble up to trigger recreation"), but the camera's
refusal of `PullMessages` is an answer and goes by as no motion. In `MotionWatch`
the task goes on polling a subscription the camera has disowned; this is the
exception `disowned` of `WatcherHears`.

**Bounds.** Two segments suffice for an entry appended between the read and the
clear of another, the pattern every loss in the queue needs, and it needs no fault;
three faults with one segment allow a crash, a failed read or send after it and a
lost removal. `MaxFaultsTogether` keeps the two apart (two segments with one fault
are ten times the states), and the second segment is created after the first, since
they are interchangeable; the theorems below hold for any number of both. Sessions are
bounded by the faults, since a connection ends only by one. Two concurrent
requests, one row updated once, and a reconnection cover each overlap of commit,
push, registration and snapshot. In the storage runs one segment is enough: the
tasks handle one segment at a time, no property relates two, and the theorems
below hold for any number; the three faults allow a lost answer, a broken link and
a crash in one history. In the followers' runs a second list arrives during every
step of applying the first, and two faults let the restart after an exit fail. In
the coordinator's run three tokens are a login and two refreshes of one session,
or two sessions of one user of which one is refreshed; two edits end a session and
its user. Two transactions are what a cycle of waiting needs, and a third request
before them moves the default or leaves none; three policies are a default that
moves between two others, two recordings with a batch of one a row left for the
next pass. Three crashes leave two rows behind and end the node that works under
the third. Two connections overlap once; three visits are an opening, a restart
and another opening. Times to 4 with length 2 and a key-frame gap of 1 hold a segment
before, across and within a range, and one that outlasts its length into one. The
time of a camera's motion reaches the end of a subscription that is not renewed
(7), with room for a renewal due at 3 to go unanswered and be asked for again;
after time 4 it is followed without events (`MaxMixedTime`), whose distance needs
no more. Two events have one distance, and two mishaps break a connection and lose
an event behind it. The bounds (`MaxFaults`, `MaxFaultsTogether`, `MaxChanges`,
`MaxVersion`, `Capacity`, `MaxTokens`, `MaxEdits`, `MaxDays`, `BatchSize`,
`MaxRequests`, `MaxMixedRequests`, `MaxErrors`, `MaxNodes`, `MaxJudged`,
`MaxCrashes`, `MaxConnects`, `MaxVisits`, `MaxTime`, `MaxClock`, `MaxMixedTime`,
`MaxReports`, `MaxMishaps`) are constants; `Capacity` is 64, `BatchSize` 500 and `SegmentLength`
60 seconds in the code; `StepTime`, `RenewInterval`, `Expiry`, `Cooldown` and
`Retry` are 11, 480, 600, 10 and 15 seconds, and `KeyFrameGap` is the camera's. Every safety property also has a
theorem without these values.

Symmetry is used only in runs without liveness properties, over sets no formula
tells apart: clients, requests, transactions,
recordings and addresses in `coordinator`. Users and policies are not symmetric
there, since one of each is the first. The session, storage and coordinator runs
switch deadlock checking off because a model whose changes and faults are used up
has nothing left to do; in the delivery runs the coordinator can always send
another list.

**Fairness.** Tasks of a running process keep running, background writes complete,
a crashed node is restarted (by its service manager), and the client's endless
five-second loop connects. The interval tasks (migration, retention) keep ticking,
and each branch of the client's `select!` loop, which picks among ready branches
at random, is taken in the end: one fairness condition per branch. The supervisor
and the motion tasks loop for ever, and MediaMTX reads its file when told to.
Nothing is assumed of file events, faults, requests, the watchdog, the ageing of
files, or of the coordinator noticing a broken connection: it sends no pings. The
coordinator's run has no liveness property and no fairness: what its parts must
eventually do (answer a request, forward an announcement) is a single step of a
task, and what can be stuck, a transaction waiting for a lock, is
`SomeoneProceeds`.

## Proofs

Every theorem holds for every value of the constants that the named assumptions
of the modules allow; the runs show the same formulas on small instances.

`SegmentDelivery_proofs` proves, for any set of segments and cameras and any
number of faults:

* `TypeCorrect`: `Spec => []TypeOK`. By one lemma per action.
* `BatchIsPrefixHolds`: `BatchIsPrefix` is inductive given the types.
* `NoWakeupLost`: `OnlyNamedLinesSleep`. It speaks only of a waiting client; the
  inductive form `WakeupInv` says for every phase which lines are still covered by
  a coming read, a notification or a signal (`NoLineForgotten`), and that a write
  not yet signalled is the recorder's own (`UntoldIsCurrent`).
* `NothingLostUnaccounted`: `EverySegmentAccounted`. A removed line was either
  sent or recorded as overtaken, so `AccountInv` adds that the first
  `taken - Len(batch)` lines of a flush have been delivered
  (`SentLinesDelivered`), that the batch is the rest (`BatchIsPrefix`), and that
  the session in use has a wire (`SessionBound`).
* `Implementation`: `Spec => Index!Spec`. Needs that an entry that says `whole`
  is of a closed file, wherever the entry is (`EntriesTruthful`).

`TieredStorage_proofs` proves, for any finite set of segments and any number of
faults:

* `TypeCorrect`: `Spec => []TypeOK`.
* `DataKept`: `MigrationKeepsData`. Inductive with what the migration knows at
  each step (`MigrationInv`): candidates are past their writing
  (`CandidatesOld`), so what is uploaded is whole, and it is in S3 before the
  coordinator is told and the file removed (`UploadFirst`).
* `RowsLeadToData`: `RowLeadsToData`. The heart is the lemma `KnownStays`: a row
  that says `s3://`, news on its way and a named loss only ever turn into one
  another, over all the hands the news passes through (channel, wire,
  connection, handler). `RowInv` adds that a removed file's fate is known
  (`GoneIsKnown`), that news is true (`NewsTrue`), that whatever is indexed had
  a file (`EntriesOfFiles`), and that the session in use has a wire
  (`SessionBound`).
* `StoreImplemented`: `Spec => ImplementsSegmentStore`. By two lemmas about the
  mapping, one for a step that moves one segment (`StoreMoves`), one for a step
  that changes one row (`StoreRowChanges`), and one case per action under them.
  Beside `MigrationInv` and `RowInv` it needs that what is being uploaded has had
  a file, what the enforcer has in hand has expired, and a segment not yet begun
  has left no trace (`StoreInv`).

`CameraFollowers_proofs` proves `TypeCorrect` and `SettledServes`
(`SettledServesCameras`). The last list sent to the supervisor is the node's
(`Latest`). From the write of a list to the next list taken, the file is current
wherever a process may be about to read it, and what a process serves was read
from that file, unless the write or the signal has failed (`FileInv`).

`NodeSession_proofs` proves `TypeCorrect` and `OvershootIsBounded`: when a request
passes the check the rows are below the limit, and the requests already past it
are at most the others served at that moment.

`NodeFollows_proofs` proves `NodeFollows` (`ServedNodeFollows`). A statement about
a settled node is not inductive; the argument is about the stream of messages a
registered connection has still to deliver (`Stream`): those on the wire, the
snapshot if its task has fetched one, those in its channel. For each camera that
is not excused, the last message of the stream that concerns it states its row,
unless a handler has still to push the change; an update on its way or to be
pushed finds the camera at the node (`WillFollow`); and what handlers have to push
is what the database says (`PushesCurrent`). Steps append to the stream, move a
message within it, take the first, or excuse the camera. `SocketsInv` and
`BornInv` say that a fresh connection has got nothing and that camera ids are not
used again.

`Accounts_proofs` proves `AccountsTypeCorrect`, `AccountsOverStaysOver`,
`AccountsDeadTokensStayDead` and `AccountsSignedInStays`. They rest on tokens
being numbered and never issued twice (`RowsAreIssued`, `IssuedSoFar`). A session
that is over is not accepted, and no refresh that has selected it finds its row
(`OverInv`). A client's way to its session is its own: no request of another
client has the session in hand nor its token (`NobodyElse`), and the token it
holds, or the one in the answer under way, is the row's (`Relies`).

`RetentionPolicies_proofs` proves `PoliciesTypeCorrect`, `PoliciesStayConsistent`,
`PoliciesDefaultKept` (the default gives way to none only when a request clears
its flag or deletes it), `PoliciesOnlyExpiredGo`, `PoliciesSomeoneProceeds` and
`PoliciesImplementTable`. In `PoliciesInv`, at
most one transaction is about to commit a default, and it takes the flag of
whichever policy has it (`OneSetter`); policies with a row are known and not
deleted (`RowsAreKnown`); a policy being created has an id no other request can
name (`CreatesNew`); and what a look-up found exists or was deleted since
(`LookupKnown`). `BatchExpired` keeps the reason for which a row was selected.

For `PoliciesSomeoneProceeds`, `LocksInv` says that no two requests hold one row
and that a row somebody has cleared is still the committed default. So at most
one request holds the default, and when every request waits, whoever holds the
default waits for a row, whoever holds that row waits for the default, and both
want the same policy: the two are crossed. This holds for any number of requests,
of which the run has two at a time. `PoliciesImplementTable` maps `CommitPolicy`
to `Apply`, `DeletePolicy` to `Delete`, the ends without a commit to `Fail`, and
every other step to a stutter; `PoliciesInv` is what makes the commit's row one
that exists, or a new one, and its default the only one.

`Coordinator_proofs` proves `PlaybackExportCoversRange` (no file outlasts the
nominal length by more than the gap, `LengthBounded`, and no file begins before the
last frame of an earlier one, `FilesInOrder`), `RegistrationIdentityIsStable` (the identity in
use is on disk, and leftover rows are counted by the crashes, `LeftOver`),
`PresenceAddressIsCurrent` (`NewestInUse`), `PresenceShownIsTrue` (the last
announcement in a browser's channel, or what it shows when the channel is empty,
agrees with the tasks, `ShownInv`), `MotionIsFollowed` (from the moment a renewal
is due, one is asked for in any two steps, `AsksInTime`, and an answer puts the next
off by the interval, `RenewedInTime`; the coming event keeps its
distance, because a task that failed pauses at least a cool-down, `Distance`; an
event is in one place, `PlacesInv`), and `CoordinatorTypeCorrect` and
`CoordinatorSafe`, from `PartsRun`: the composition implies each part's
specification, so it has every property the run checks, for every value of the
constants.

The assumptions are those named in the modules: `CameraOf` maps segments to
cameras, `MaxFaults` is a natural number, `NoEntry` is not an entry;
in `TieredStorage`, `Segments` is finite and `Nobody` is not one of them; in
`Accounts`, the first administrator is a user; in `RetentionPolicies`, the seeded
policies are policies, one of them is the default and `NoPolicy` is none; in
`Playback`, the nominal length is positive and the key-frame gap some natural number;
in `MotionWatch`, a renewal interval
and two steps are no longer than a subscription, and the pause after an error no
shorter than the cool-down (502 and 600, 15 and 10 seconds in the code: a constant
changed alone can break this); bounds are natural numbers.

Model-checked only: liveness under fairness (`EventuallySettled`,
`EventuallyFollows`, `ExpiredRowsGo`, `OldFilesLeave`, `EventuallyServes`,
`EventuallyWatches`), which is out of TLAPS's reach.
No module declares a recursive operator, and no proof needs induction over data.
Every other property of a passing run has a theorem.

## Not modelled

* In the pipeline: reading a line that is half written, a file that vanished
  before its size was read, events missed in a directory created a moment ago, and
  the handshake: the client builds its request by hand (`ws_client.rs:71-76`), and
  whether its WebSocket library accepts it is the library's affair.
* In the sessions: heartbeats and read-only handlers (they change nothing that is
  read), the choice of a node for a camera without one.
* In the storage: pruning of empty directories, the disk percentage that starts
  and stops culling. The limit of a pass of the enforcer (500 rows) is in `RetentionPolicies`,
  not in `TieredStorage`.
* In a node: the text of the YAML file, cameras without a stream path (left out
  of it) or sharing one.
* In the motion of a camera: the XML of requests and answers and the search of
  `has_motion` in it, the comparison of frames, and the time an answer of the
  camera travels (up to 8 of the 98 seconds by which a renewal is early).
* In the accounts: how passwords and tokens are hashed and signed, changes of
  e-mail and password (no session depends on them), expired rows of `sessions`,
  which nothing ever removes and nothing accepts.
* In the policies: a camera's own policy, which the schema has and no code sets;
  names, whose unique index two requests that take each other's names could cross
  over as they can over the default's.
* In the dashboard feed: camera statuses, which take the same channel and have no
  snapshot to cross with; the mobile application.
* In registration: a test expects a node created by an administrator to be pending
  (`coordinator/tests/test_nodes.rs:22`); the handler inserts it as approved, and
  so does the model.
* In playback: bytes, `Range` headers, ffmpeg, SDP.
* S3 request signing, hardware detection, the user interface's rendering and the
  deployment files have no state that two actors share; `PROJECT.json` lists them
  with the reason.

## Plan

The pipeline, the sessions, the storage, the followers of the camera list and the
coordinator's six smaller parts are modelled, checked and proved about. What is
left, in order of what it would add:

1. `Playback` composed with `TieredStorage`: the redirect of a segment whose
   object the node has announced but whose row still says `local://`, in place of
   the reduced file life that `Playback` has.
2. The expiry of `TieredStorage` by the policies of `RetentionPolicies`, and the
   failed `INSERT` of `SegmentDelivery` by a deleted policy, as compositions.
3. The camera statuses of the dashboard, fed by the heartbeats, and the events a
   browser reads from the table (`routes/events.rs`) beside those it is sent.
