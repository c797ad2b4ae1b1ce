# remote_backup_m1 in TLA+

A client watches a directory and keeps a copy of it on a server. This project
models both programs in TLA+, checks them with TLC on small instances and proves
every invariant the runs check, and the refinement, with TLAPS for every instance. It is kept beside the
code; every definition that stands for code is tied to its lines in
`PROJECT.json` (`map`), and every hazard it is about is listed there with its
line (`hazards`).

## 1. The system

### Server (`src/server`)

| component | state | operations |
|---|---|---|
| acceptor and thread pool (`core/server.cpp`) | the connection being accepted | accept, run handlers on N threads (default 8), stop on a signal |
| connection (`core/connection.cpp`) | strand, socket, buffer, timeout timer, reply queue, the `user` of the session | read a request, have it handled, write the replies; shut down on an error or after 60 s of silence |
| requests (`core/request_handler.cpp`) | the shared `open_streams` | AUTH, LIST, CREATE, UPDATE, ERASE, RETRIEVE, KEEP_ALIVE, each accepted in its phase of the session |
| session (`core/user.*`) | id, two flags without initialisers, a directory view | setters |
| open streams (`core/open_streams.cpp`) | a map from user to output stream, under a mutex | `get_stream`, `erase_stream` |
| directory view (`directory/s_resource.*`, `shared/directory/dir.*`) | path -> synced, digest | insert_or_assign, erase, contains, rsrc, for_each, clear |
| reply queue (`communication/message_queue.cpp`) | messages of at most 64 KiB | add_TLV, add_message, pop, front |
| credentials, hashes, signs (`shared/utilities`), logger | files | |

The backup tree on disk is the only thing that survives the process.

### Client (`src/client`)

| component | state | operations |
|---|---|---|
| process (`main.cpp`) | pool of N threads (default 4, 1 to 16) | connect, log in, scan, watch for ever; or restore once |
| file watcher (`core/file_watcher.cpp`) | where its pass is | every `--delay` ms: entries without a file, then every file |
| entries (`directory/c_resource.*` in a `dir`) | path -> synced (a tribool), exist_on_server, digest; a lock per operation | as above |
| scheduler (`core/scheduler.cpp`) | credentials | `create`, `update`, `erase` post a lambda; `handle_*` take the response; `sync`, `reconnect`, `auth`, `restore` |
| connection (`core/connection.cpp`) | strand, socket, KEEP_ALIVE timer | `async_post` (a message, or a file), `sync_post`; `write` and `read` tell a lost link from another error |

### Both (`src/shared`)

`message`/`tlv_view` (the codec), `f_message` (a file as a train of messages),
`dir`, tools.

### How they interact, and what is hard

The watcher posts a lambda on the `io_context`; a pool thread runs it: the entry
becomes indeterminate, the file is opened, a job is posted on the strand of the
connection. The strand runs one job to its end, message and reply in turn, and
calls the handler with the last response or with none. A lost link is noticed by
whoever uses it (a job, or a KEEP_ALIVE); it reconnects, authenticates and runs
`sync()`, which compares the server's LIST with the entries and posts more lambdas,
while the job that met the failure still waits for its handler. On the server one
request runs at a time per connection, but the stream an upload goes to belongs to
the user, and the view it is judged by to the session.

Hard in this code: read-modify-write of entries by three kinds of threads; files
that change between hashing, opening and sending; replies lost after the server has
acted; the server or the link going away in the middle of an upload; uploads given
up by the client; state of earlier uploads (temp files, partial files, streams) met
by later ones; the arithmetic of the last message of a file.

### What makes each part correct

- requests and streams: a session's view tells the truth about the disk
  (`ViewSound`); a file being written is vouched for by nobody
  (`NotSyncedWhileWritten`); streams end with their sessions (`NoStreamLeak`) and
  write to files that exist (`StreamOnDisk`).
- connection: one operation at a time (`OneOperation`); whole replies, in step with the
  requests (`ReplyIsWhole`); nothing is handled after a shutdown
  (`NothingAfterShutdown`); who waits is answered or cut off (`WaitEnds`), and who is gone
  is noticed (`SilentIsShut`).
- the server as a whole: a client that has the user to itself can forget views,
  streams, temp files and chunks, and see a store of files that keeps what it vouches for
  (`ImplementsStore`).
- file messages: what completes is the whole file (`CompleteIsWhole`), fits the
  server's buffer (`FrameFits`), ends (`Terminates`), and fails only when it must
  (`FailsOnlyInGap`).
- client: no entry is left waiting (`NoOrphan`, `Answered`); synced means stored
  (`SyncedIsStored`); handlers find their entries (`HandlerFinds`); the client stays
  up and the server comes to mirror the directory (`StaysUp`, `Mirrors`,
  `RestartHeals`).
- the client's connection in time: a client with nothing to say is not cut off
  (`KeptAlive`) and notices that the link is gone (`Notices`); one thread uses the socket at
  a time (`OneUser`); the start ends (`Starts`), gives up only for a cause
  (`GivesUpForCause`) and does not erase files that are there (`ErasedForCause`).
- restore: what it reports is so (`SaidIsThere`), what it fails has a cause
  (`FailsForCause`), what it wrote and found wrong it does not leave behind, unless the process ends
  right there (`NoTornFile`), and it ends (`RestoreEnds`).

## 2. Modules

| module | models | extends |
|---|---|---|
| `RequestHandler` | the server as any clients can drive it | |
| `BackupStore` | the abstract store the server is for a client that has the user to itself | |
| `StoreRefinement` | how the state of `RequestHandler` is one of `BackupStore` | `RequestHandler`; an instance of `BackupStore` |
| `MCRequestHandler` | the instances: one user, two paths and their temp names | `StoreRefinement` |
| `RequestHandlerProofs` | theorems about the server | `RequestHandler`, TLAPS |
| `BackupStoreProofs` | a theorem about the abstract store | `BackupStore`, TLAPS |
| `StoreRefinementProofs` | the server implements the store | `StoreRefinement`, `RequestHandlerProofs` |
| `ServerConnection` | one connection of the server: its strand, timer and replies, and the client that reads them | |
| `ServerConnectionProofs` | its theorems, and the lemmas on what its recursive definitions compute | `ServerConnection`, TLAPS |
| `FMessage` | `f_message` and `verify_end`, by lengths | |
| `FMessageProofs` | its theorems | `FMessage`, TLAPS |
| `Backup` | the client that backs up, its threads, its user and its link, driving `RequestHandler` | `RequestHandler` |
| `MCBackup` | its instances: one user, one or two paths, files of no data and of one or two messages | `Backup` |
| `BackupProofs` | its theorems | `Backup`, `RequestHandlerProofs` |
| `Restore` | the client that restores, against `RequestHandler` and the user's other clients | `RequestHandler` |
| `MCRestore` | its instance: one path and its temp name | `Restore` |
| `RestoreProofs` | its theorems | `Restore`, `RequestHandlerProofs` |
| `ClientLink` | the client's socket and its two users, the keep-alive and the server's timeout, in time | |
| `ClientLinkProofs` | its theorems | `ClientLink`, TLAPS |

Operators that no other operator uses and whose names vary that of the next one
(`ShutdownKeepsStream`, `FireEarly`, ...) are faulty variants of it. Each
stands for a plausible bug, and `PROJECT.json` (`mutants`) pairs it with the property
it breaks: a property no such variant breaks would say nothing about the code.

### RequestHandler

| variable | code |
|---|---|
| `disk[u][n]` | the files under `backup_root/<id>` |
| `conn[c]` | the session: open, `id_`, `is_auth_`, `is_synced_` |
| `view[c][n]` | `user::dir_ptr_`, entries of `s_resource` |
| `streams[u]` | `open_streams::streams_`: the file it was opened on, whether it is usable, whether its file still has its name |
| `reply[c]` | the result of the last request |

A handler runs on the strand of its connection, so each outcome of a handler is one
action, and connections interleave between requests. The exceptions are the places where
the process can end in the middle with an effect of its own: `UpdateInterrupted` (the
old file removed, the new one not renamed yet) and `Crash` (which may cut the tail of a
temp file that was not flushed). `Crash` cuts temp files only (`Unflushed`): an UPDATE that
meets a stream left open on a client's path writes into that one, unflushed too, and its
tail could be cut as well; the file is then a partial upload, shorter by some chunks. `get_stream` is modelled as it is evaluated: the
arguments of `emplace` are built first, so the file is created even if the user's stream
is another file's (`Touched`), and then the existing stream wins (`GetStream`).

Abstractions: a file is a sequence over `Data`, and its digest is its content (no
collisions); the paths of a user are a flat set, so making and removing directories
shows only as the failure of `create_directories`; malformed TLVs are covered by
`Rejected`, which refuses without a change. Where the code's behaviour is undefined the
model has the outcomes of a build: an uninitialised flag is either value (`Uninit`), and
what follows from using a session without a directory, or `back()` of an empty reply
queue, is the end of the process.

### BackupStore and StoreRefinement

`BackupStore` says what is left of the server when the views, the streams, the temp files and
the chunks are taken away: files, sessions, and for each session the paths it vouches for. A
file that is vouched for does not change until the session's own request about that path
lets go of it; a file that is not may grow under a partial upload; an upload that ends well
commits, one that ends badly deletes; the end of the process takes the sessions and at most
the one path whose replacement it interrupted. `StoreRefinement` maps the server to it:

| abstract | of `RequestHandler` |
|---|---|
| `stored[u][p]` | `disk[u][p]`, for the clients' paths only: temp files are the server's own |
| `who[c]` | the user of a session past its LIST |
| `promise[c][p]` | the digest of the entry of `p`, when its synced flag is set |

What this adds to `ViewSound` is about steps: a request changes no file but the one it is
about, except that a stream left open by an abandoned upload may take another path's bytes
(`get_stream` returns the user's stream, whatever it was opened on), and then only into
a file the session does not vouch for. `UpdateChunkInPlace`, an UPDATE without the temp file,
is the variant that breaks it: the old backup would be lost with the first chunk.

### ServerConnection

| variable | code |
|---|---|
| `ops` | the operations of the socket under way: handshake, the two reads of a request, the two writes of a reply (`more` and `last` are the continuation that is bound to the second) |
| `ready` | completion handlers queued on the strand, those of the timer too |
| `armed`, `timed_out`, `shut` | the timer, `timed_out`, whether `shutdown()` was called |
| `replies`, `msg` | `replies_`, `msg_` |
| `client`, `request`, `wire`, `got` | the client and what is between the two |
| `owed` | what the handler added to the reply (history, for `ReplyIsWhole`) |

`RequestHandler` lets a `Shutdown` come between any two requests; this module is where it
comes from. An expired timer whose handler is already queued cannot be cancelled, so a
timeout may hit a connection that has just been heard, and (`TimesOutFreed`) one that is
no longer there: undefined behaviour, taken to pass unnoticed or to end the process. A
message is the sequence of its TLVs and a value is its length; `AddTLV` splits replies as
`message_queue` does, one TLV after the other (`Queued`), and `Reads` puts them together as
the client's `read()` does. `Held` is
who owns the connection: the operations and their handlers do, the timer does not. The SSL
shutdown blocks a thread until the peer answers or TCP gives up; it is one step here.
`close_response` passes bytes of a string that is out of scope; the build has no
optimisation (`src/server/CMakeLists.txt`), where they are still in place, and error codes
arrive.

### FMessage

The file is its length and the offsets at which the bytes of an END tag end; the sizes
of a message, of its header and of `size_t` are constants, so that the same module is
checked with small numbers and proved for all. `NextChunk` is one call of `next_chunk`
with the subtraction that may wrap; `UnexpectedEOF` its exception; `Edit` another process
changing the length at any time.

### Backup

| variable | code |
|---|---|
| `file[p]` | the watched directory |
| `dir[n]` | `dir<c_resource>` |
| `watch` | the file the watcher is at: listed, hashed, or found to have an entry |
| `pool` | lambdas posted on the `io_context`, which any free thread may run |
| `strand` | jobs posted on the strand; the first is the running one |
| `task` | where the strand is: sending, awaiting a reply, reconnecting (connect, auth, list), in the handler between `rsrc()` and `insert_or_assign()` (handle, store) |
| `client` | login, starting, watching, exited |
| `budget` | what remains of the bounds on edits, drops and restarts |

Each message a job sends is one of the actions of `RequestHandler` on the client's
connection (`Serve`), so the two programs are one state machine; the reply is read by a
later step, and the link can fall between. `Broken`, `LinkLost` and `LinkFails` are the
tribool of `write` and `read`. A handler is two steps, because the lock is released
between them. The watcher asks `contains()` and `rsrc()` in two steps for the same reason,
and hashes a file some time after it listed it; what is thrown in either race ends the
client (`WatchThrows`). A job keeps reading a file that was removed (`text`), and sees what
is written into it in place. A symbol of content stands for one message, so files of one
and of two messages occur; a file without content is one message with an empty `CONTENT` (`Part`).

Atomic in the model: `sync()` after its LIST (its insertions are of entries whose digest
the server has), a lambda of the pool (entry, open, post), the initial scan. The user's
directory exists on the server, because no code makes one; credentials are right.
KEEP_ALIVE shows by what it does to an idle strand: it finds the link broken.

`Prompt` says that a free thread runs what is posted before the watcher looks again, which
is `--delay` (5 s by default) later; the runs without it allow any delay of the pool.

### Restore

| variable | code |
|---|---|
| `local[n]`, `original[n]` | the client's directory, and what it was at the start |
| `at`, `cur`, `todo` | where `scheduler::restore` and `retrieve` are, and the file of the loop |
| `listed[n]` | the LIST reply |
| `response` | the chunks `retrieve` writes |
| `outcome[n]` | what is logged of a file |
| `hindered` | history, for `FailsForCause` |

The client is on connection `Me` of `RequestHandler`; another one of the same user is driven by
anybody (`Others`), so files change and go between the LIST and their RETRIEVE, and what is
fetched can be half of an upload. Until the client connects, `Me` is anybody's too (`OthersConns`):
two sessions then upload through the one stream of their user. A RETRIEVE whose file is gone is `ServeMissing`: the server
then reads the back of an empty queue, taken to end it. The list gives every file of the
user's directory, temp files included, as the code does. A file that is not the listed one is
removed before it is asked for, and stays removed when the rest fails (`FailsForCause`
says when that is): `NoTornFile` allows a file that is not there, and the next normal start
of the client would erase it from the server. A full disk of the client is not noticed while
writing, only by the digest. A restore that is killed leaves any file as it is, and
another may start from it (`Before`). One that ends by an exception is in the model: where a wrong
file was written and its digest cannot be computed, or it cannot be removed, it stays
(`HashThrows`, `LeftAtExit`). Lengths the file messages cannot carry are in `FMessage`.

### ClientLink

| variable | code |
|---|---|
| `at[t]`, `waits`, `left[t]` | the main thread and the strand: what they are doing, who waits for a reply, the attempts of `login` |
| `ka`, `fired` | `keepalive_timer_`, and its handlers on the strand |
| `link`, `session`, `srv` | the connection, the server's session and its `timeout_timer_` |
| `requests`, `replies` | what is between the two |
| `toScan`, `known`, `stored`, `jobs`, `inJob` | the scan of `file_watcher`, the entries, the backup, the ERASE jobs |
| `scanFor`, `drops`, `cut`, `failed`, `missed` | history |

`Backup` says what jobs do and takes the start for one step and the socket for one user's. Here
it is the other way round: the data is the files that are there or not, and what counts is who
is on the socket when, and how much time passes. `Tick` is the passing of one unit, and is
disabled while a thread or the server has something to do at once; typing a password, the
scan, hashing in a restore and `connect()` take any number of ticks. The keep-alive interval is 2
and the timeout 4 units (30 s and 60 s in the code). `Write` stops the timer and `Arms` says
when a read sets it again; a handler whose timer has expired is on the strand, from where
nothing takes it. `Fails` is the error that is not a lost link: the exchange is given up and the
timer stays as it is. `Overlap` is the state nothing in the code excludes: the main
thread in an exchange and the strand in another, on one `ssl::stream`. Either then may get the
other's reply (`CanRead`), or an error. Whoever finds the link down reconnects, and its SYNC
posts an ERASE for each listed file that has no entry yet.

## 3. Runs

Every passing run and what it bounds:

| run | properties | instance and why it is enough |
|---|---|---|
| `HandlerExclusive` | `TypeOK`, `ViewSound`, `NotSyncedWhileWritten`, `NoStreamLeak`, `StreamOnDisk`, `ImplementsStore` | one connection, two paths and two temp names, contents of up to 2 symbols, faults, crashes, both values of the flags: two paths are what it takes for a stream to be of another file, two symbols for a partial upload to differ from a whole one. Two sessions of one user are in `Restore`, and the theorems have any number |
| `FMessage` | `TypeOK`, `FailsOnlyInGap`, `CompleteIsWhole`, `FrameFits`, `Terminates` | every length from none to three messages, and any edit of it between any two of them; messages of 11 bytes with 2 of header, `size_t` of 6 bits |
| `Connection` | `TypeOK`, `OneOperation`, `ReplyIsWhole`, `NothingAfterShutdown`, `WaitEnds`, `SilentIsShut` | 2 requests, lists of up to 3 signs of two lengths in messages of 13 bytes (so that replies split before an item, before OK and before END), files of up to 3 messages, the timer and the client's leaving at any time |
| `BackupThreads` | `ClientTypeOK`, `NoOrphan` | 2 threads, not prompt, one path, a file of up to two messages, 2 edits, 1 drop that may be a crash |
| `BackupSteady` | `SyncedIsStored`, `HandlerFinds` | two paths, one with a temp name that cannot be opened, 2 edits at any time, no drop |
| `BackupQuiet` | `StaysUp`, `Mirrors` | two paths, 3 edits, at any time but of a file the client is at (`ClientAt`: scanned and not compared with the LIST yet, listed or hashed by the watcher, or with an operation on its way), no drop; with two paths one is edited while the other is hashed or sent, and three edits leave one for after a file was removed and written again |
| `BackupHeals` | `Answered`, `RestartHeals` | one path, 2 edits, 1 drop, 1 restart |
| `Restore` | `ClientTypeOK`, `NoTornFile`, `NoStreamLeak`, `StreamOnDisk`, `SaidIsThere`, `FailsForCause`, `RestoreEnds` | two connections of one user, both of them anybody's before the restore, so that two sessions share a stream and its file; one path and its temp name, contents of 0 and 1 symbols, every old file, the client's disk and the link failing at any point, the server ending at any point |
| `ClientLink` | `TypeOK`, `KeptAlive`, `OneUser`, `ErasedForCause`, `GivesUpForCause`, `Starts`, `Notices` | two files, interval 2 and timeout 4, 2 attempts to log in, 1 lost link, 2 handlers of the timer queued, backup and restore; two files are one scanned and one not |

`MaxPending` bounds the lambdas and jobs there can be when the watcher looks (2): with
more, the same operations only queue up behind each other.

Fairness:

- `FairBackup`: weak for the pool and the watcher's steps, and for the strand while it has work
  (`Working`), as threads that are not blocked go on; strong for `WatchMissing(n)` and
  `WatchList(p)`, because every pass of the watcher comes to every path, whether or not the
  pool was busy at that moment. An idle strand is asked nothing: whether it finds out that the link
  is gone depends on the keep-alive timer, which `ClientLink` has. How a lost link is reported is
  open, and nothing is assumed of the user, of drops or of restarts.
- `FairSpec` of `ClientLink`: weak for the server, time, the timer and the two threads; the scan goes
  on. Nobody need ever type, and any error may be reported as a lost link or not.
- `FairRestore`: weak for the one thread of the loop and the server that serves it.
- `FairSpec` of `ServerConnection`: the strand's handlers, the clock, the socket's operations and a
  client that waits; a read from a client that was cut off need never fail.
- `FairSpec` of `FMessage`: the loop of `async_post` is one thread's.

The runs that end in a violation are places where the code does not do what its own
comments say; `PROJECT.json` (`findings`) quotes the comment and names the line:

| run | what it shows |
|---|---|
| `FMessageEndTag` | content that looks like an END tag ends the file early |
| `BackupFalseSync` | ALREADY_EXIST taken for success of a CREATE with new content |
| `BackupGone` | an UPDATE of a changing file removes the backup, and the client retries UPDATE for ever |

The passing runs, and some of the theorems, have assumptions because the code has known limits
without them. Each shows when the configuration is changed as said:

| limit | configuration | what TLC then violates |
|---|---|---|
| two sessions of one user have a view each, and one calls synced what the other has changed | `HandlerExclusive` with `Conns = {c1, c2}`, `SharedLogin = TRUE`, `MaxLen = 1` | `NotSyncedWhileWritten`, and `ViewSound` when that one is left out |
| when the user has a file called `a.temp`, an UPDATE of `a` writes into it and renames it away | `HandlerExclusive` with `Temp <- MCTempTaken` | `ViewSound` |
| two ERASE of one file, the watcher's and that of the SYNC of a reconnection: the second response finds no entry and the client exits | `BackupSteady` with one path, `Threads = 1`, `MaxDrops = 1` | `HandlerFinds` |
| where a lambda waits for longer than the watcher's pause, or the one thread of the pool is in a job, the watcher finds the entry as it was and posts the same operation again | `BackupSteady` with `Prompt = FALSE`, or with `Threads = 1` and `MaxPending = 3` | `HandlerFinds`, and `SyncedIsStored` when that one is left out |
| a handler stores the copy of the entry it read before the SYNC of a reconnection set `exist_on_server`, and `handle_update` does not set it again: the backup of the file is not erased with the file | `BackupQuiet` with `MaxDrops = 1`, without `StaysUp` | `Mirrors` |
| a temp file left by a server that died within an UPDATE, or by a link lost within an upload of several messages, is appended to by the next one, which does not match, and the backup is removed for good | `BackupHeals` with `ServerDies = TRUE`; or with `Texts <- MCLong` | `RestartHeals` |

Others are in the properties themselves, as the exceptions they name:

- `FailsOnlyInGap`: two lengths of a last part cannot be sent: they are too long for a message that
  has to hold the END tag too, and too short to fill one without it, as the bounds for the two differ
  by the size of that tag (`f_message.cpp:61`).
- `NoTornFile` except `LeftAtExit`: a wrong file that was just written stays when its digest cannot
  be computed (`MD5_hash` at `scheduler.cpp:311` throws what `retrieve` does not catch) or it cannot be
  removed (`scheduler.cpp:313-314`): either ends the process.
- `FailsForCause` and `GivesUpForCause` except a session that was cut off, and the latter a slow scan:
  a user who types, or a client that hashes or stores, for longer than the server's timeout is cut off,
  and a LIST that the main thread sends after the strand's is refused. Both are what the code does.
- `ErasedForCause`, `KeptAlive`, `Starts`, `Notices` except `Crossed`: when the initial scan takes
  as long as the keep-alive interval and the link is lost meanwhile, the KEEP_ALIVE reconnects, and
  its SYNC erases from the backup the files not scanned yet; the two threads can then take
  each other's replies, and the start can hang. `OneUser` says that a slow scan alone puts both on
  the socket.
- `KeptAlive` and `Notices` except `failed`: after an error that is not a lost link the keep-alive
  timer is not set again, and an idle client is cut off and does not notice.

So `BackupQuiet` has no edit of a file the client is at because of what `BackupGone` shows, and because
what the watcher throws when it does not find the file or its entry (`WatchThrows`) ends the client; it
has no drop because of the third and fifth limits; `BackupSteady` has no drop because of `BackupFalseSync` and the third limit,
and a prompt pool because of the fourth;
`BackupHeals` has a link that falls but a server that lives because of the last;
`ViewSound` has one session, and temp names apart, because of the first two.

## 4. Theorems

Every invariant of the passing runs is also a theorem, for every value of the constants that the
named assumptions of the modules allow (`NamesAssumption`, `LinkAssumption` and the like: `None` is
no content, the bounds are numbers) and under the hypotheses stated with each.

| hypothesis | says | why |
|---|---|---|
| `OneSession` | a user has one session at a time | the first limit above |
| `TempsApart` | no path is another's temp name | the second |
| `Steady` | the link is not lost, the pool is prompt and has a thread to spare | `BackupFalseSync`, and the limits about two ERASE and about a lambda that waits |
| `EditsApart` | the user leaves a file alone while the client is at it, and edits any other | `BackupGone`; a file that goes while the watcher hashes it ends the client |
| `TempIsNoDigest` | an MD5 digest is not the word `TEMP` | it is 16 bytes of hash |
| `FiniteNames`, `FiniteFiles` | a directory has finitely many files | `sync()` posts them one by one |
| `ReplyFits` | each TLV of a reply fits in a message of its own | a sign is a path and a digest, far below 64 KiB |

### RequestHandlerProofs

For all connections, users, names, contents and digests. What can happen to the server is stated once,
for any content, chunk and outcome (`AnyStep`, `AnyRequest`), so that the theorems carry over to every
module in which something drives it.

- `TypeCorrect` and `StreamsHaveFiles`. `TypeOK` alone is not inductive: a crash may cut
  the temp file of an open stream, which must exist to be cut. `Safe`, its conjunction with
  `StreamOnDisk`, is.
- `StreamsDoNotLeak`, on top of `TypeCorrect`. A request touches only its own connection and user
  (`ServeFrame`), and the phases of a session only lose a user's readiness in `Shutdown`,
  which erases the stream.
- `ViewIsSound` and `WritesAreUnsynced` (`OneSession`, `TempsApart`). The inductive invariant `Sound`
  says of every ready session and entry that a synced entry is true, that an entry that tells a
  digest at all (`Tells`) tells that of the file, and that the open stream is not on its file:
  an append is the one way a request can change a file it was not sent for. LIST makes
  every entry synced, so no stream may be open then: that is `StreamsDoNotLeak` with
  `Exclusive`.
- `DigestsAreTrue`, from the same invariant: what ALREADY_UPDATED is answered from, the digest of an
  entry that need not be synced, is true, also after uploads that were given up half-way.

### StoreRefinementProofs and BackupStoreProofs

`StoreImplemented` (`OneSession`, `TempsApart`): the server implements the store. `Safe` and `Sound`
are the invariants that carry it. A write made for one name is, for any other path of the session,
nothing or an append to a file the session does not vouch for (`Behind`, from `Sound`); the `...Maps`
lemmas say how the abstract variables follow, and every action is then an abstract action or a
stutter. `PromisesKept`: the abstract store keeps its promises; its
inductive invariant says that a user has one session. With the refinement this is a second way to
`ViewSound`.

### ServerConnectionProofs

For any requests, replies and bounds.

- `OperationsAreSerial` and `ShutdownIsFinal`. The inductive invariant `IInv` adds that at most one
  handler of an operation is queued, and that a shutdown by an error leaves nothing that holds the
  connection, while one by the timer leaves only what returns at the test of `timed_out`.
- `RepliesAreWhole`. `InStep` follows a reply from the queue to the client: while a client reads,
  there are messages still to come (`Coming`: in `replies`, in `msg` before them, or none, by the
  operation under way) with which what it has read and what is on the wire are the reply
  (`Completed`), the END being in the last of them only. If the connection dies they never come,
  and the client never takes what it has for a reply. It rests on three facts about every reply,
  proved by induction: splitting it into messages and joining them gives it back (`QueueKeeps`), no
  message before the last has an END (`QueueEnds`), and none is too long (`QueueFits`).
- `ConnectionTypeCorrect` (`ReplyFits`).

The provers cannot instantiate an induction principle that takes an operator, nor do they find a
recursive function's existence. Both are proved here in a form they can use: `OnNaturals`, that a
set that holds 0 and n + 1 with n holds every natural number (from the least element of a
well-founded order), and `Recursion`, that steps given as a function of functions have a result.
`Flattens`, `SizeSteps` and `QueueSteps` apply it to `FlattenSeq`, `SizeOf` and `Queued`.

### BackupProofs

For any number of files, contents of any length, threads, edits, drops and restarts. `Safe` and
`Sound` hold of the server here too, as the client drives it as any client may.

- `ClientTypeCorrect` (`FiniteNames`). `Typed` adds to `Safe` and `ClientTypeOK` how strand,
  job and watcher fit together (`WellFormed`): a message is sent in a job, and the job has one.
- `NothingIsOrphaned` (`FiniteNames`), without any bound on what the link and the threads do: every
  step that takes a lambda or a job settles the entry or hands it on.
- `HandlersFind` (`Steady`). `Linked` says where the strand is while the client starts, `Orderly`
  that the lambdas and the jobs are of different files and that the entry of each is as its
  lambda left it.
- `SyncedFilesAreStored` (`Steady`, `OneSession`, `TempsApart`, `TempIsNoDigest`). The client never
  looks at the disk: an accepted answer has to mean what it says (`Effected`), an ALREADY_EXIST to
  a CREATE has to be out of reach (`Known`: what the server vouches for is an entry that exists
  there), and a synced entry has the digest of the server's view (`Agreed`), which `Sound` ties to
  the disk.
- `QuietClientStaysUp` (`Steady`, `EditsApart`), with `HandlersFind`'s invariant. `Quiet` says that
  the file the watcher is at is there, and has an entry once one was found, and that no file is
  there of what is to be erased.

The proof of `ClientTypeCorrect` found that the model's `Part` sent an undefined message for an
empty file; it now sends what `next_chunk` does, and empty files are in the runs.

### ClientLinkProofs

For any finite set of files, any two intervals of which the client's is the shorter, and any numbers of
attempts, lost links and queued handlers. The invariant has two regimes:

- before a slow scan (`Alone`), the main thread is the only user of the socket until it watches, and
  the strand from then on. `MainFirst` is the arithmetic of it: the keep-alive timer was set when the
  scan began, or is stopped. `Matched` says that what is on its way is what the one thread asked
  for, and what the answer will be;
- after it, as long as no link is lost and nothing failed (`Beside`), the strand only sends KEEP_ALIVE
  beside the main thread, so a reply is one that somebody waits for, whoever takes it (`Counted`).

On them rest `SocketHasOneUser`; `ServerIsKeptAlive`, with `Alive`, that the server's timer has always as
much more left than the client's as the intervals differ, or somebody is in an exchange, in which no
time passes;
`ErasureHasCause`, with `Whole`, that what the client knows covers what the server holds once the scan
has ended; `GivingUpHasCause`, with `Blameless`, that the session is where the main thread takes
it to be; and `LinkTypeCorrect`.

### FMessageProofs

For every message size, header size, `size_t` and file length within them:
`FMessageTyped`, `CompletedIsWhole`, `FramesFit`, `OnlyTheGapFails`. The inductive invariant says that
what is sent and what remains add up to the length at opening, that full messages carry
`Payload` bytes each, and, of a file nobody touches, where a failure leaves it.

### RestoreProofs

For any names, contents and other clients of the server: `RestoreTyped`,
`NothingTorn`, `WordsAreTrue` and `FailuresHaveCause`. The client drives the server only as
`RequestHandler` allows (`ServerSteps`), so `Safe` carries over. `Honest` says that the file
under way, or the one the process ended at, is the only one that may be neither the old one nor the
listed one, that nothing is said of it yet, nor of a file the loop has not come to; `Caused`, that a
file nothing has gone wrong with is still what was listed, on the server, in the reply, in what was
written from it and in what an exit leaves: so the exception of `NothingTorn` has a cause.

### Only model-checked

`Terminates`, `WaitEnds`, `SilentIsShut`, `Answered`, `Mirrors`, `RestartHeals`, `RestoreEnds`,
`Starts` and `Notices`: liveness under fairness and ENABLED are out of the provers' reach. No module
declares a RECURSIVE operator.

## 5. Not modelled

- the bytes of the codec (`message`, `tlv_view`): lengths and splits are in `ServerConnection` and
  `FMessage`, the encoding itself is planned; the server's malformed-request paths show as `Rejected`;
- the number of the server's threads: handlers of different connections interleave as actions of
  `RequestHandler`, and the mutex of `open_streams` makes each of its operations one step;
- in `ClientLink`, CREATE and UPDATE and changes of the directory (they are in `Backup`, which has
  the start as one step); in `Restore`, the time things take;
- in `Backup`, failures of the server's file system other than a name that cannot be
  opened, and of files the client's scan cannot read;
- options, TLS, certificates, hashing, the logger, the text the programs print: configuration,
  libraries and pure computation or output.

## 6. Plan

Done: `RequestHandler`, `ServerConnection`, `FMessage`, `Backup`, `ClientLink`, `Restore`, `BackupStore`
and its refinement, and a theorem for every invariant of the runs. Next, in this order:

1. `BackupProofs` without `Steady`: which part of `Orderly` survives a lost link, so that
   `SyncedIsStored` can be stated with the exceptions of `BackupFalseSync` instead.
2. An abstract specification of a request and its reply that `ServerConnection` implements, from
   `InStep`.
3. `Wire`: `message`, `tlv_view` as operators over byte sequences with 16-bit lengths;
   decoding what was encoded, by the induction of `ServerConnectionProofs`.
