# Verification of the rustak server

Rustak is a TAK server in Rust. `rustak-server` relays Cursor-on-Target (CoT)
messages between connected clients, keeps their history, stores files and
missions, issues certificates and runs scheduled jobs; `rustak-client` is the
library its sidecars use; `rustak-cot` is the codec; `rustak-core` and
`rustak-api` hold shared types; the `rustak-plugin-*` crates are feeds and
`rustak-ui` is the web interface.

This directory holds TLA+ models of its concurrent parts, the TLC
configurations that check them on small instances, and TLAPS proofs of what
matters most for every value of the constants. `PROJECT.json` lists components,
runs, mutants, findings, hazards and theorems, and maps each definition to the
lines it stands for.

    tlc -config MCJobHost_overlap.cfg MCJobHost      # one run
    tlapm JobHostProofs.tla                          # one proof module

## 1. Inventory

For each part: the state it keeps, its operations, how it meets the others, what
is hard about it and what makes it correct.

### Modelled

**Job queue and host** (`db/queue_sqlite.rs`, `jobs/`). *State*: the table
`queues`, one row per (partition, key) with a payload, a reservation, a visibility
timeout and a count of attempts; the runs under way; the dead letters.
*Operations*: enqueue (an upsert), dequeue, reserve, complete, purge; the host
arms recurring jobs at start-up, reserves due messages, narrows the reservation to
the handler's timeout, runs the handler, then completes, retries or sets aside.
*Interaction*: any part of the server dispatches work; a recurring job enqueues
its own key while it runs. *Hard*: a run that outlives its reservation goes on
beside the one that took the message over; each write of a run may be refused; the
process may stop at any await. *Correct*: no message is forgotten, a reservation
proves what it claims, a schedule survives its runs, nothing starves.

**Stream connection, both ends** (server: `stream/connection.rs`, `writer.rs`,
`subscription.rs`, `negotiation.rs`, `liveness.rs`; client: `rustak-client`'s
`stream/connection.rs`, `negotiation.rs`). *State*: the connection's own task, its
writer task behind a bounded queue, the handle others deliver through, the
negotiated protocol at either end, the cause of the connection's end. *Operations*:
replay, offer, read, answer, route to it, close it, drain, abort; the client asks,
holds back what it is handed meanwhile, switches or gives up. *Hard*: two tasks, many
callers and a peer that may stop reading at any point; the switch of encoding in the
middle of a byte stream; a close that must work although the queue is full. *Correct*:
both ends agree on the encoding of every frame, what is owed is written, an end has
its true cause, every end is complete.

**Stream hub and routing** (`stream/hub.rs`, `registry.rs`, `router.rs`, `dest.rs`,
`replay.rs`, `notify.rs`, `control.rs`). *State*: the registry of subscriptions and
its indexes by uid and callsign, behind one lock; the last report of each client.
*Operations*: register, snapshot and replay, route a report, address a chat, bounce
it, toggle visibility, unregister, send the notice of departure. *Hard*: the lock
is taken for each look-up and released before each delivery, so all that was looked
up may be stale. *Correct*: the indexes are exact after any renames, no position
falls between snapshot and live stream, a chat bounces only if nobody has that name.

**Admission and withdrawal of rights** (`stream/listener_tls.rs`, `resolver.rs`,
`live.rs`, `pki/revoke.rs`, `identity/sessions.rs`, `identity/members.rs`,
`web/api/users.rs`). *State*: certificate and account rows, the listener's cache of
revoked certificates, the channels each connection is routed by. *Operations*:
admit in five steps, revoke, switch an account off and on, change channels and
re-authenticate every connection. *Hard*: rights are read before a connection is in
the registry, and withdrawn by writing a row and then visiting the registry.
*Correct*: once a withdrawal is done, nothing it concerns is still served.

**Enrolment** (`marti/enroll/`, `identity/credentials.rs`, `identity/verify.rs`,
`db/repos/credentials/spend.rs`, `pki/facade.rs`, `pki/revoke.rs`). *State*: one-time
tokens and reusable credentials, the certificates they bought, the cache of revoked
ones. *Operations*: verify, claim, sign, record, release after a failure, supersede
an older certificate of a workload, take a credential back with what it bought.
*Hard*: verification and claim are two transactions, and so are claim and record;
a release undoes a claim in a row others may have changed. *Correct*: a token buys
once, and what was taken back stays taken back.

**Content store** (`store/content.rs`, `store/orphans.rs`, `files/store.rs`, their
callers in `marti/` and `web/api/`). *State*: blobs by hash, and rows of three kinds
that refer to them. *Operations*: put, write the row, remove rows and then the blob
if it is unused, sweep old blobs nothing refers to. *Hard*: deduplication makes one
file several uploads' business; whether it is in use is asked before it is removed.
*Correct*: a row's bytes are there; an orphan goes.

**Sessions: refresh tokens and authorization codes** (`auth/tokens.rs`,
`db/repos/refresh_tokens.rs`, `auth/oauth_server/`, `identity/sessions.rs`). *State*:
families of tokens, codes, the account. *Operations*: sign in, redeem, exchange,
refuse, end one family or all. *Hard*: a token is spent in one transaction and its
successor written in another, and anything may happen between. *Correct*: one live
token a family; a family that ended stays ended; rights never widen.

**History log** (`store/append_log.rs`, `segment.rs`, `prune.rs`,
`cot_store/history.rs`, `retention.rs`, `query.rs`, `db/repos/stream_segments.rs`).
*State*: segment files, index rows, the writer's own account of the segment it holds
open. *Operations*: append, tell the index, seal, park, reopen and repair, close idle
segments, remove old ones, forget a device. *Hard*: files and index are written apart,
the process or the machine may stop between, a write may fail half way, removals do not
ask the writer, and the index gives the ids of removed rows out again.
*Correct*: the writer knows its segment, rows catch up, no file is without its row, all
goes in the end.

**Server-event feed** (`plugins/events.rs`, `visibility.rs`, `web/api/events.rs`;
`rustak-client`'s `control/events.rs`, `sidecar/event_feed.rs`). *State*: a number, a
ring, a broadcast channel; each feed's position, rights and receiver; the consumer's
last number. *Operations*: publish in three steps, open, replay, go on live, lag,
re-authorise, cut, resume. *Hard*: publishers overtake each other; a subscription and
a reading of the ring overlap; a right is withdrawn while a feed opens. *Correct*:
nothing comes twice, nothing is skipped unaccounted for, rights follow.

### Not modelled, or not yet

| Component | What it does | Why it is not modelled, or what is left |
| --- | --- | --- |
| missions (`missions/`) | contents, change log, notices, in three writes | planned: the log explains the contents |
| client stream: connecting and reconnecting (`rustak-client/src/stream/reconnect.rs`) | connects again, announces itself again | planned, over `StreamConnection` |
| sidecar: enrolment, credentials, control link (`rustak-client/src/sidecar`) | refusal, backoff, health | planned |
| latest positions (`cot_store/latest.rs`) | one upsert per uid, newest wins | one transaction, which its unit tests reach |
| certificates: issue, ACME, hot swap (`pki/`) | signing, renewal | cryptography; the renewal is a job; what enrolment records is in `Enrolment` |
| plugins: registry, configuration, health | rows written by one transaction each | sequential; their feed is in `EventFeed` |
| rate limiter, cache of verified secrets | counters behind one lock | numeric; unit tests |
| accounts, devices, channels, settings, database, runtime, configuration, web and TAK HTTP handlers, profiles, codec, shared types, web application, feed plugins | | sequential, pure, or wiring |

`PROJECT.json` has each with its files. The models take a SQLite transaction as one
step: `db/connection.rs` has a single writer and begins immediate transactions.

Parts marked *partly* there leave out: addressing a message to a channel or a mission,
flow tags, recording and the tap (hub); accepting sockets and slots (admission);
minting, the profile, expiry and pruning (enrolment); the list of revoked access
tokens, cookies and ID tokens (sessions); the batch writer's latest positions and the
reading of windows (history); the cap on open feeds, the count of attached services,
keepalives, frames the consumer cannot parse and its backoff (feed); the client's pings
and buffers (client stream).

## 2. Modules

| Module | What it is |
| --- | --- |
| `JobQueue` | the table and its transactions |
| `WorkQueue` | abstract specification: what queue and host promise whoever dispatches work |
| `JobHost`, `MCJobHost` | the host over `JobQueue`; instantiates `WorkQueue` |
| `JobHostProofs` | types, reservations, schedules; `JobHost` implements `WorkQueue` |
| `StreamConnection` | one connection, both tasks, callers, client; instantiates `MessagePipe` |
| `MessagePipe` | abstract specification: what a connection promises whoever delivers to it |
| `StreamConnectionProofs` | types and every safety property; `StreamConnection` implements `MessagePipe` |
| `StreamHub`, `MCStreamHub` | registry, indexes, replay, routing, departure |
| `StreamHubProofs` | types, indexes, bounces, maps |
| `StreamSessions`, `MCStreamSessions` | admission against withdrawal |
| `StreamSessionsProofs` | types, revocation, switching off, changes of channels |
| `Enrolment`, `MCEnrolment` | credentials and the certificates they buy |
| `ContentStore`, `MCContentStore` | blobs, references, deletes, the sweep |
| `ContentStoreProofs` | types and every safety property of the store |
| `RefreshTokens`, `MCRefreshTokens` | the sessions of one account |
| `CredentialProofs` | types and every safety property of enrolment and of the sessions |
| `HistoryLog`, `MCHistoryLog` | one device's segments |
| `HistoryLogProofs` | types and every safety property of a history |
| `EventFeed` | bus, feed and consumer; instantiates `EventLog` |
| `EventLog` | abstract specification: what bus and feed promise the consumer who reads from a number on |
| `EventFeedProofs` | types and the safety properties of the feed; `EventFeed` implements `EventLog` |

Operators marked `Mutant:` are not used by any specification. Each is a plausible
slip in the definition that follows it and shows that a property can fail.

A variable marked `history` has no counterpart in the code: it records something the
properties speak of (that a request had passed the gate when a credential was taken
back, say) and guards no action, but for `Trust` in `HistoryLog`, where it stands for the
bytes a row was told of.

### How the models correspond to the code

**JobQueue, JobHost.** `rows` is the table, `NoRow` where a key has no row;
`older` is the order of `scheduled_at`, which is all the query asks of it. A key
stands for a (partition, key) pair, `hidden` for a `hidden_until` ahead of the
clock, and `Lapse` for its passing. Each operator of `JobQueue` that primes a
variable is one transaction. In `JobHost`, `tasks` holds the runs by the
reservation they were handed, and the phase of a run is the next await of
`process`: `narrow`, `handle` (deserialise, re-arm), `work`, then `complete`, or
`failed` and `remove`; `drop` is the path of a message no handler takes. `Overrun`
is a lapse under a run that is still going, `FallDue` any other. `DatabaseError`
refuses any one write of a run. `Stop` is shutdown, failure or crash at any point.
Recurring jobs arm themselves in `SetUp` and re-arm in `Handle`, before their work,
as `jobs/job.rs` does. A handler's body is one step.

**StreamConnection.** `task`, `writer` are the two tasks; `queue`, `drops`,
`reason`, `cancelled` are what `ConnHandle` and `Liveness` share; `negotiation` and
`reader` belong to the task, `encoder`, `batch` and `buffer` to the writer; `wire`
and `inbound` are the socket. A message is what it means to the connection: an
event, an offer, one of two answers, a close. `closers` are callers inside `close`,
between naming the cause and cancelling the token. `client` is `ClientNeg`: new,
asked, settled on protobuf or XML, or `gaveUp` when its sixty seconds ran out first.
The client asks in the step that reads the offer, as `control` does, and what it is
handed while it waits is held back. Requests for another version, or unreadable ones,
are those of clients of another make. Its timer is asked before its socket, so it
may give up with the answer unread. `peer` may stall or close at any moment, its own
death clock included. A time limit is a step that is enabled while what it watches
makes no progress. `Pending`, on the wire, fed, in the batch or queued, is what maps to
`MessagePipe`. Messages that cannot be encoded and the pointer sent for an oversize
one are left out. The writer takes all that is queued at once: its burst
(`DRAIN_BURST`) is longer than any queue of the instances.

**StreamHub.** `conns`, `byUid`, `byCallsign` are the registry; `phase`, `replay`
and `routing` are where each connection's task stands; `map` is what its client
shows. Each action is one acquisition of the lock. A chat to a callsign and a uid is
two look-ups (`stage`), between which anything may happen. `routing` keeps what was
found until every delivery is made, one `Send` at a time. Channels are the fixed
relation `Sees`; no queue overflows. `StreamConnection` is what justifies drawing a
delivery on the client's map when it is queued: a queue is written in order.

**StreamSessions.** `phase` follows `serve_one`: handshake (against the cache),
certificate row, account row, channels, registration. `revoking` is where a
revocation stands between row, cache and connections; `request` is an
administrator's request between two of its steps. There is one account. `crossed`
marks an attempt that had read a right and was not registered when that right was
withdrawn, and a connection that a channel change could not, or may not, have reached. `Restart` drops every connection and request and reads the cache from the
rows.

**Enrolment.** `live`, `used`, `spender` are the columns of a credential's row that
the transactions of `spend.rs` test; `phase` is the next await of the handler; `row`,
`known`, `barred` are a certificate's row and the two sets of `RevocationCache`.
`revoking` walks a withdrawal through the credential, its certificates' rows and the
cache. Any step of a request may fail, or the request be dropped.

**ContentStore.** `blobs` and `old` are the files and those older than a sweep's
horizon; `rows`, `filed`, `mentioned` are the three kinds of reference. A delete lists
the ids (all that carry a hash, or some), removes the rows, asks `hash_in_use` and removes the blob in four steps, and
asks other tables than the sweep does, as in the code. The sweep lists the blobs, reads
the references and then, blob by blob, looks at the age and unlinks. A put of bytes that
are there leaves the file as old as it was. An upload takes less time than a horizon.

**RefreshTokens.** A row's `family` is its first member's id; `request` is where an
exchange, a redemption, a sign-in or an end of sessions stands between its
transactions. Any row may be presented at any time, by anybody: that is a replay when
it is used. `stray` and `lost` mark what came of requests that were in flight at an
end of the family, or failed after the token was spent.

**HistoryLog.** `file` and `row` are a segment's two halves; `writer` is `AppendLog`'s
state with its account of the open segment (`size`, `counted`, `pending`); `removal`
is what a sweep or a request has found, unlinked and not yet deleted from the index.
`Crash` stops the process, maybe within a write; `PowerLoss` cuts a file back to any
length, as nothing is ever synchronised. A record is its number and its time. `WriteFails`
leaves part of the record in the file, or all of it, and a writer that goes on as before;
`tail` tells a file that ends in part of a record (`torn`), which the next opening cuts off,
from one where something was appended behind it (`spoilt`), of which that opening reads and
keeps anything. A log whose file is as long as its row says is opened unread; where the
row says something else than what is in the file, that is chance (`Trust`). `astray`
says that a write failed since the segment was opened, or that it was opened so.

Rows are named by the segment, as its file is, and not by their ids, which come back: the
row that a segment of `Reissued` gets has the id of one removed before. `Mistake` is what
those who hold that id for the old row, in the log of any device, do to the new one: tell
it of their records, close it, remove it. When this device's own writer is the one that
holds an old id, the other row is a stranger's, and `Flush` is answered as if its own were
still there and goes on with a file that no row names. `mistold` marks a row told of
another's records, `raced` a file whose row was removed for another's.

**EventFeed.** `next`, `ring`, `publishing` are the bus: a publisher takes a number,
keeps the event and sends it in three steps. `at`, `seen`, `backlog`, `inbox`, `lagged`,
`rights`, `notice` are one feed, `wire` what it wrote, `after` the consumer's number.
`Cut` breaks the response with frames on the wire; `Restart` begins the numbers again.

### How they fit together

`JobHost` extends `JobQueue` and is shown to implement `WorkQueue`, as `StreamConnection` is
`MessagePipe` and `EventFeed` is `EventLog`. `Enrolment` ends
where a certificate's row is written or revoked and `StreamSessions` begins there;
it admits a connection, `StreamHub` begins where that registers, and
`StreamConnection` is the inside of one, with the client at its other end. The sweep
of `ContentStore` and the retention of `HistoryLog` are handlers of `JobHost`:
`ScheduleRuns` is what justifies that they are run again and again. Switching an account
off (`users.rs`) is in `StreamSessions` for connections, in `RefreshTokens` for sessions
and in `EventFeed` for feeds. They are separate modules because the product of their
states is out of reach, and what one takes from another is stated: a queue is read in
order and a close always ends (`DeliversInOrder`, `EndingEnds`), which `StreamHub` and
`StreamSessions` assume of `Send` and `closing`.

## 3. Runs

Every property of a passing run has a mutant: a definition of the model changed the
way a slip in the code would change it, under which TLC finds the property violated.

| Run | Instance | What it shows |
| --- | --- | --- |
| `jobs_overlap` | a schedule, a cancellable job, a message without a handler; 5 reservations, 2 runs at once, 2 attempts | a reservation proves what it claims (`HolderIsCurrent`); a re-armed run lets go (`RearmReleases`); the host implements `WorkQueue` (`NothingForgotten`); a schedule leaves only through the dead letters or by hand (`ScheduleKept`) |
| `jobs_progress` | a schedule and a job, one run at a time, fair | once nothing disturbs it the table drains (`QueueDrains`) and a schedule runs again and again (`ScheduleRuns`) |
| `jobs_missed_run` | the same, a sound database | finding 1 |
| `connection` | a queue of 2, closed at its second drop, up to one position to replay, 2 routed messages, 1 from the client, fair | `EncodingsAgree`, `EndIsWhatItSays`, `OwedIsWritten`; the connection implements `MessagePipe` (`DeliversInOrder`); any end, and a peer that is lost, ends both tasks (`EndingEnds`) |
| `hub` | 3 connections of 2 devices, one reconnecting, one that may hide; 2 callsigns; relayed reports; chats to a callsign, a uid and both; channels that are not symmetric; 2 reports | `IndexesExact`, `BouncedOnlyIfAbsent`, `MapIsFilled`, `AppearsConnected` |
| `sessions` | 2 attempts, 1 certificate, 2 requests, 2 channel changes that may overlap, restarts, fair | `RevokedIsClosed`, `DisabledIsClosed`, `ChannelsSettle`; a revocation ends its connections through restarts (`WithdrawalLands`) |
| `sessions_revoked` | 2 attempts, 2 certificates, 1 request | finding 2 |
| `enrolment` | 3 requests, 1 one-time token, 1 password, a workload, 2 devices | `TokenBuysOnce`, `TakenBackStays`, `OneWorkloadLeft` |
| `content` | 1 blob, 2 uids, 2 uploads, 2 deletes, a sweep, fair | `RowsKeepTheirBytes`, `UploadsKeepTheirBlob`, `OrphansGo` |
| `tokens` | 2 requests at once, 3 tokens, 1 code | `OneLiveMember`, `EndedStaysEnded`, `SwitchedOffHasNoSession`, `SpentIsAccountedFor`, `CodeBuysOneSession`, `NeverWidens` |
| `history` | 2 segments of up to 2 records, 2 records in all; the second may fail to be written to the first segment, the second segment's row has a reissued id and is told of one record of another's at most; the machine's stop cuts back the first segment, and a length is by chance a wrong row's in it; one removal at a time; fair | `WriterKnowsItsSegment`, `RowsCatchUp`, `NoFileLeaks`, `SegmentsInOrder`, `QuietHistoryGoes` |
| `feed` | 2 publishers, one of limited events; a ring, a receiver and a wire of 1; 2 events a life, 1 restart, fair | the feed implements `EventLog` (`ReadsTheLog`); `NothingSkipped`, `RightsFollow`, `FeedCatchesUp` |

Each module of the code has a `TypeOK` (in `Enrolment`, which one module of proofs shares with
`RefreshTokens`, the names are `EnrolmentTypeOK`, `EnrolmentSpec` and so on). The runs do not
spend time on it: it is a theorem of each.

### Bounds, and why they are enough

*Jobs*: two runs at once are the fewest that can hold, lose and take over one
message; three keys put one in each role the host tells apart; a reservation id must
be free to draw at any time, which `EnoughReservations` asserts. Attempts are counted
up to the ceiling and not beyond, since nothing reads a larger count. Two attempts
give a first failure, which backs off, and a last.

*Connection*: a queue of two can be full while a batch is being written, hold an event before
an answer, and be taken as a batch of two, so overflow, a close through a full queue, an answer
that is dropped and one that follows something unflushed all occur; `MaxRouted` and `MaxSaid`
bound what outsiders send, not what the code does. The safety properties but
`DeliversInOrder` were also checked with two positions, three routed messages and two from the
client (11 million states); all of them are proved for any.

*Hub*: two connections share a name or a uid, and a third looks on; the reports let each
device report, or one overtake another. `Addresses` holds one chat of each kind.
`MapIsFilled` does not speak of a uid that another connection carried before: the
departure of the older takes the newer off the map until it reports again (`notify.rs`
does not ask).

*Sessions*, *enrolment*, *tokens*: two of each are what a race needs (one certificate is
enough, as two attempts share it); a third enrolment
lets two follow one that failed; three tokens are a first, its successor, and another
family or a successor's successor.

*Content*: one blob suffices, as blobs do not interact but in the list a sweep has read;
two uids make rows that share it.

*History*: two segments are one and the next, and two records put one in each, or both in one
and none in its successor. One write that may fail is enough to leave part of a record, or a
whole one, with another behind it or not; the second segment is the one that can follow a row
that was removed. The machine's stop and the chance lengths are kept to the first segment. The safety properties were also checked with both in all segments, and with every write failing (2.8 million states); with both ids
reissued and rows told of two records (23 million); with three records (3.7 million), where the
first segment is full before the second is begun and an older one is appended to after it; and,
without chance lengths, with three segments of two records in all (5.6 million), where
two open segments with the same first time are, the last two without failing writes and
reissued ids. They are proved for any number of each.

*Feed*: two events are an overtaken and an overtaking one, and with a ring of one the
first is lost to the second. The safety properties were also checked with a ring of two
and three events (1.3 million states), the liveness properties on the same without a restart.

Interchangeable elements are symmetric in runs of safety properties only (`tokens`,
`enrolment`, `jobs_overlap`); `jobs_overlap` checks a refinement by steps, which symmetry in
`Reservations` leaves sound because the mapping does not depend on their names.

Deadlock is checked for jobs, sessions, content, tokens, history and the feed. A connection,
a hub whose connections have all been served, and enrolment once each request has been
answered, do stop, and their runs say so.

### Fairness, and why the code justifies it

*Jobs* (`FairSpec`): tokio polls every ready task, a handler returns, the clock moves.
Weak fairness of start-up, of due times, of the dequeue as a whole (the code takes
whichever row the query gives) and of each run's steps. Nothing is asked of
dispatchers, of failures or of overruns; the liveness properties say `Calm`: from some
point on there is no restart, no new work, no refused write and no handler that
outlives its timeout. *Connection*: weak fairness of each task's steps, of the abort
timer, of a caller inside `close`, and of the idle timer for a peer that is lost.
Nothing is asked of the client, the routers or the network. *Sessions*: a revocation
under way proceeds, a closing connection leaves (`EndingEnds`); nobody has to connect
or withdraw anything.

*Content*: the sweep is a recurring job (`ScheduleRuns`), so its steps are fair; strongly
so where a step can fail (reading the references, an unlink), be disabled by an upload that
makes the file young again, or be cut short by a restart, since none of these happens at
every attempt. *History*: the same for closing idle segments, for finding, unlinking
and unindexing old ones. Nothing is asked of the writer: a device may fall silent for ever.

*Feed*: a publisher that took a number goes on; the consumer reopens and reads; the feed is
polled. Its `select` asks the timer before the events, so neither can be kept out by the
other for ever: the timer re-arms for a minute, during which events are served. Hence
strong fairness of serving and of the check. `FeedCatchesUp` assumes `Calm`: at some point
nothing is cut, restarted, changed or unreadable any more.

## 4. Findings

1. `jobs_missed_run`: a recurring payload that no longer deserialises (left by an
   older release) fails in `jobs/runnable.rs` before the handler's re-arm, is retried to
   `max_attempts` and set aside: the schedule is gone until the next start.
   `jobs/mod.rs` says a failed run is one missed run.
2. `sessions_revoked`: a certificate's row is read before the connection registers and
   not again. A revocation that completes in between leaves the session open; `hub.rs`
   says it must not. `RevokedIsClosed` is what does hold.

Where the code and its words part without a run of their own, a property says exactly
what is excepted:

- *Half-switched connections.* `answer` ignores what `send` returns: with the queue full
  the acceptance is dropped and the server's reader expects protobuf all the same. And the
  client asks its timer before its socket, so one that was not polled for sixty seconds gives
  up with the acceptance unread. Either way it goes on in XML, though `negotiation.rs` says
  both ends switch. `EncodingsAgree` excepts what such a client reads.
- *Hidden senders.* `router.rs` drops what a hidden client sends to nobody in
  particular; the guard counts callsigns only, so a chat to a uid is dropped too, without a
  bounce. The guard of `Chat` has it.
- *Two addresses.* Of a chat to a callsign and a uid, each is looked up in a moment of its
  own: a device that takes the callsign in between is not found, and the chat bounces.
- *Overlapping changes of channels* each read and apply in two steps; the older answer may be
  applied last and stay. `members.rs` says the connection gets the set it would get if it
  connected now. `ChannelsSettle` excepts a connection
  whose older answer had been read, and was not in place, when the later change was written.
- *A released token.* An enrolment that fails puts its claim back also where an administrator
  took the token back meanwhile (`spend.rs:145`, excluded by the comment above it);
  `TakenBackStays` excepts it. Where only the audit entry fails, the certificate's row stays.
- *A sweep in hand.* An upload of bytes a sweep has already found old and unreferenced gets a
  row without a blob (`orphans.rs` says both orderings that could lose data are impossible).
  `RowsKeepTheirBytes` excepts rows written after the removal was decided, by a sweep or a
  delete.
- *Late successors.* An exchange that had spent its token before its family was ended writes a
  live successor afterwards (`tokens.rs`: "a stolen token buys nothing"); `EndedStaysEnded`
  and `SwitchedOffHasNoSession` except these.
- *Feeds.* A number is taken before the ring's lock: an event overtaken by a later one is
  skipped by live feeds and replayed out of order, though `events.rs` promises every
  subscriber every event. After a restart of the server a consumer resumes with its old number
  and is skipped every event up to it; `events.rs` expects it to notice a lower number, which
  it is never sent. A consumer cut off before its first event resumes from nothing. A change of
  channels reaches a feed at its next check, within a minute.
- *History.* A stop between a write and the index leaves the times of the records out of the
  row for good (`RowsCatchUp`). A write that fails half way is only warned of
  (`cot_store/writer.rs:177`), and the segment goes on being appended to behind what is there
  (`segment.rs:292`): the writer's account is short of the file, and what follows part of a
  record cannot be read (`WriterKnowsItsSegment` and `RowsCatchUp` except it). A file whose length is by
  chance what a wrong row says is appended to unread (`append_log.rs:336`). The index gives
  the id of its newest row out again once that is removed (`0004_cot.sql:36`): a writer or a
  removal that still holds it tells, closes or removes a stranger's row, which then counts too
  much (`RowsCatchUp`) or leaves its file behind (`NoFileLeaks`), or goes on with a file of its
  own that is gone. A file created while its row was being removed is never found
  (`NoFileLeaks`); a segment left open when a later one was begun, because it could not be
  sealed or another with the same first time was taken for the newest
  (`stream_segments.rs:189` breaks no ties), is appended to after later ones (`SegmentsInOrder`).

Other hazards the models show but no property speaks of: dead letters are two
transactions; a handler that always outlives its timeout is taken over for ever, since
attempts are compared only when it returns an error; a departing connection's notice takes its
device's newer connection off the map; a notice dropped by a full queue leaves a peer on it;
revocations of a credential's certificates reach the table and not the cache, so open
connections stay; a delete removes by ids that may have been given out again, and does not
ask the missions' change logs that the sweep does ask; nothing prunes refresh tokens.

## 5. Proofs

Every safety invariant and action property of the passing runs is a theorem, and so are the three
refinements, for every value of the constants that satisfies the named assumptions
(`QueueConstants`, `HostConstants`, `NoTaskIsNoTask`, `ConnectionConstants`, `HubConstants`,
`NotASubscription`, `NotAMessage`, `SessionConstants`, `EnrolmentConstants`,
`TokenConstants`, `ContentConstants`, `NoRowIsNoRow`, `HistoryConstants`, `NotAFile`,
`SegmentsReissued`, `NotARow`, `FeedConstants`), which say that stand-ins such as `NoRow` are none of the values
they stand beside, that roles are disjoint, and that a queue, a ring and a wire have a place.

**`JobHostProofs`.** `TypeCorrect`, `ReservationsAreCurrent`, `RearmingReleases`,
`SchedulesAreKept`. The inductive invariant is

    IInv == TypeOK /\ HolderIsCurrent /\ RearmReleases /\ DropsUnhandled

`HolderIsCurrent` is inductive because a reservation is drawn fresh and an upsert
clears the holder: whoever still holds a row holds the submission that is there.
`RearmReleases` needs it for the takeover. `DropsUnhandled` says that a run on the path of
a message without a handler has such a message, without which `SchedulesAreKept` would not
follow: a drop would delete a schedule. One lemma per kind of step (`OutsideInv`,
`DequeueInv`, `RunStepInv`), over lemmas on what each transaction does to a row.

`HostKeepsThePromise` is `Spec => NothingForgotten`. Each action
of the host is an action of `WorkQueue` or leaves it alone, under `RInv`, which adds to
`IInv` that a cancelled key has no row (`CancelledIsGone`). The mapping's stage depends
on the run that holds the row, so `HolderIsCurrent` is what lets a stale run's steps map to
stutters. The lemmas `AsStutter`, `AsSubmit`, `AsMove`, `AsRemoval` restate the abstract
actions in terms of one key; the rest says which of them each step is.

**`StreamConnectionProofs`.** `Typed`, `EndsAgree`, `NothingOwedIsLost`, `EndsAreNamed`.
The invariant is

    IInv == TypeOK /\ Named /\ EndIsWhatItSays /\ Owed /\ Asked /\ Encoded

`Named` says of every way to an end that a cause stands by then: a close that is queued, a
caller inside `close`, a writer that failed or met a close. `Owed` says that messages
queued since the end stand behind those queued before, across the batch and the queue, and
that a close is one of the former; hence all that a finishing writer leaves behind is
late. `Asked` ties an answer on its way to what the server made of the request, so that an
acceptance and a refusal are never under way together; a client that declined or was
refused is therefore never sent protobuf. `Encoded` says where the encoder stands in terms
of what is on its way. The lemmas before them say what appending, taking and joining do to
each predicate on sequences.

`PipeKeepsThePromise` is `Spec => DeliversInOrder`: the connection implements `MessagePipe`.
What is pending there is the frames on the wire and in the buffer, then the batch, then the
queue; so a step that only moves a message along (`Take`, `Feed`, `Flush`, `SwitchToProto`) must
leave that sequence as it is, or make its first late message one that is written after all.
`SentJoined`, `SentGrown`, `SentShrunk` and `MovedOver` are what such steps need about
sequences; `HandedAccepts`, `FedWrites`, `ReadDelivers`, `PeerLoses` and `GoneEnds` then say
which step of the pipe each kind of step is, and `PipeStep` goes through the actions. That a writer
which goes leaves out nothing but late messages is `Owed`; that it goes for a peer that takes
nothing, or once the end is decided, is `Named`.

**`CredentialProofs`, of enrolment.** `EnrolmentTyped`, `OneCertificateAToken`, `TakenBackForGood`, `OneWorkload`.
A token that is held is used and held by one request (`HeldOnce`); a request past the gate
of a credential that was taken back is marked, or the token had been made good again
(`AtTheGate`); of two workload requests that have listed the others, one is still to be
superseded or one certificate is gone (`Succession`).

**`ContentStoreProofs`.** `Typed`, `BytesStay`, `UploadsAreSpared`. `RowsKeepTheirBytes` is
inductive with the types, because it speaks of the removals that are decided and not only
of the blobs; `Fresh` says that what an upload has just put there is young and in no
sweep's hand.

**`StreamHubProofs`.** `TypeCorrect`, `IndexesAreExact`, `BouncesAreTruthful`,
`MapsAreFilled`, `NobodyAppearsAbsent`: every property of the run. The invariant ties the indexes to where each task is: a connection registers once, before it
has a name, and only a registered one routes (`Phased`); what is drawn on a map is about a
uid, and a look-up to be made for a chat has something to look up (`AboutUid`,
`AboutSomebody`, `Told`). `ReindexMoves` and `UnindexRemoves` say that moving one connection
between keys leaves every other entry alone, `MessageMoves` that a task's next message
disturbs nobody else's. `Telling`, proved over it, carries the maps: reports and notices are
routed in the phases they belong to and about uids their sender may speak of (`Honest`,
`InTurn`); a peer that is due on a client's map is on it, in the snapshot that is being
replayed, or in a report that has yet to be sent there (`Covered`).

**`StreamSessionsProofs`.** `TypeCorrect`, `RevocationCloses`, `DisablingCloses`,
`ChangesReach`. The invariant adds `Admitting` (an attempt past a right that is withdrawn was past it when it
was withdrawn, and is marked) and `Written` (a revocation under way has written its row). `Settled`, proved over it,
carries `ChangesReach`: a connection has today's selection, or is one of the exceptions, or
some change owes it a visit (`Routed`); an answer on its way is today's or its connection is
marked (`Fresh`); only registered connections are visited (`Listed`).

**`CredentialProofs`, of sessions.** `Typed` and every property of the run: `OneMember`,
`EndIsTheEnd`, `OffIsOff`, `NothingSpentForNothing`, `OneSessionACode`, `RightsOnlyShrink`.
The inductive invariant is

    IInv == TypeOK /\ OneLiveMember /\ EndsHold /\ SpentIsAccountedFor /\ Origins

`EndsHold` joins `EndedStaysEnded` and `SwitchedOffHasNoSession` to what an end does to
requests in flight: each is marked (`FlightsMarked`, `MintsMarked`), so that the row it
will write is. `Origins` joins the two properties about where a session came from to what
a request in flight carries (`CodesApart`, `FlightsNarrow`).

**`HistoryLogProofs`.** `Typed` and every safety property of the run: `WriterKnows`,
`RowsAreTold`, `FilesAreFound`, `OrderIsKept`. The inductive invariant is

    IInv == TypeOK /\ Numbered /\ Held /\ Unlinked /\ LeftBehind
              /\ RowsCatchUp /\ NoFileLeaks /\ SegmentsInOrder

`Held` says what the writer knows at each place of its own work, of a segment whose file and
row others may take away, or mistake for theirs, at any time: opened (`Scanned`), counted,
adopted, written (`Read`); of a writer whose account is astray, only that what it has yet to
tell is in the file, and that its row, if told of nothing else, counts no more than it does. A log left
alone is put down to what is on record, so that a scan that finds more than the row says finds
a row that missed something. `Unlinked` ties a removal's two steps together, `LeftBehind` says
which segments can be appended to behind a later one, `Numbered` that nothing speaks of a
segment that was never begun. `Answers` picks the segments that `RowsCatchUp` speaks of: those
not excepted, that have both a file, not spoilt, and a row. The lemmas on numbers (`OneMore`,
`ToldAndPending`, `MaxIsLast`) carry the counts. `Mistake` and `WriteFails` have a
lemma each (`MistakeInv`, `WriteFailsInv`), as `Trust` has (`TrustInv`): nothing is asked of which ids come back, or of
which writes fail.

**`EventFeedProofs`.** `Typed`, `NothingComesTwice`, `NothingIsSkipped`, `FeedKeepsThePromise`.
The inductive invariant is

    IInv == TypeOK /\ Counted /\ Overtaking /\ Placed /\ Ordered
              /\ Behind /\ NothingTwice /\ Ahead /\ NothingSkipped

An event that was overtaken may stand anywhere, so order is a relation that excuses it
(`Before`) and is not transitive; it is kept for every pair of places by itself (`Ordered`:
within ring, backlog, receiver and wire, and between the last of these). `Behind` puts what the
consumer got before all that is to come, for `NothingTwice`; `Ahead` says where an event that it
is owed is, on the wire or in one of the places the feed has yet to look at, for
`NothingSkipped`. `Overtaking` says who is overtaken by the number that is kept or sent next.
What a replay selects from the ring (`Since`) is a recursive function on its length; its lemma
`SinceSelects` argues by the least length at which it would be wrong.

`FeedKeepsThePromise` is `Spec => ReadsTheLog`: bus, feed and consumer implement `EventLog`, where
a publisher's three steps are `Number`, `Keep` and `Send` and the consumer's reading is `Give`. It
rests on `IInv` and on `FromFloor`, that nothing from before the number the consumer named is ever
held for it, which is an invariant of its own. `ReadGives` is the heart: that an event given is the
earliest that is owed is `Ahead`, that it comes in order and once is `Behind` and `NothingTwice`.
`PublishNumbersLog`, `KeepKeepsLog` and `SendSendsLog` are the publisher's, `Losing` says that
only what has left the ring is lost, and `LogStep` goes through the actions. No run checks `NothingTwice`
by itself: it is part of what `Give` says.

*Only model-checked*: liveness (`QueueDrains`, `ScheduleRuns`, `EndingEnds`, `WithdrawalLands`,
`OrphansGo`, `QuietHistoryGoes`, `RightsFollow`, `FeedCatchesUp`), since fairness and
`ENABLED` are beyond the provers.

## 6. Plan

Models: the loop of `rustak-client` that reconnects and announces itself, over
`StreamConnection`; missions, with their change log and notices as an abstract history the
contents agree with; the sidecar's enrolment and control link; addressing by channel and
mission in `StreamHub`.

Proofs: an abstract specification of the content store (a row's bytes are there until it is
removed), to be implemented as the other three are; then the properties of what the models above
add.

Runs of one module are one run where the instance allows it, so that all of them can be
rerun together.
