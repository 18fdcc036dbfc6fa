# TLA+ models of pglite-oxide

pglite-oxide embeds PostgreSQL, compiled to WebAssembly, in a Rust process. A
program either uses the database directly (`Pglite`) or lets a PostgreSQL
client connect to it (`PgliteServer`, `PgliteProxy`). There is one session, one
connection at a time and one process per data directory. What is hard is at the
edges: opening and preparing a directory while other processes do the same or
have died doing it, sharing unpacked and compiled files between processes,
carrying a byte stream into a backend that is called rather than scheduled,
stopping a thread that blocks in `accept`, keeping the client's idea of the
session true while the session is reused, rolled back and replaced, and
shipping a set of build products that belong together.

This directory holds models of those parts, the TLC configurations that check
them, and proofs checked by TLAPS. `PROJECT.json` maps every definition to the
lines it models.

## Inventory

| component | source | state | operations | correct when |
|---|---|---|---|---|
| root lock | `base.rs` `RootLock` | process-wide set of paths, lock file | acquire (reserve path, open, lock), drop | one owner per root in and across processes; nothing outlives its owner |
| root preparation | `base.rs`, `data_dir.rs`, `builder.rs` | layout manifest, PGDATA directory, overlay manifest | open from template, initdb or archive; cleanup; start | a backend sees a whole cluster with the user's data, whatever was interrupted before |
| template caches | `base.rs` | cache entries, staging directories, lock files, per-process `OnceLock` | ask, lock, validate, build, rename, write manifest | a template in use is whole and stays so; nobody waits for ever |
| overlay filesystem, host adapter | `postgres_mod.rs` `EagerCopyOverlayFileSystem`, `sync_host_fs.rs` | upper and lower directory, whiteouts | copy-up, open, rename, remove, mkdir | PostgreSQL sees one directory |
| archives | `data_dir.rs` | a materialised copy | dump, load | the archive is what PostgreSQL sees |
| runtime cache | `base.rs` | unpacked runtime, lock file, per-process answer | locate, repair, unpack, reset | whoever has the runtime has all of it |
| AOT module cache | `aot.rs`, `postgres_mod.rs` | compiled modules and receipts on disk; three mutexes and what they guard | install, verify, map, rebuild, seed | a load repairs what it finds, and returns |
| wire proxy | `proxy.rs`, `wire.rs` | frame reader, batch, startup state, socket | read, classify, batch, flush, COPY handoff, clean up | bytes arrive once and in order; requests are answered; the handler returns |
| protocol pump, bridge | `postgres_mod.rs`, `pglite_wasix_bridge.c` | input buffer, transport mode, prefix, receive buffer | dispatch, drain, stream | the same |
| server lifecycle | `server.rs`, accept loops of `proxy.rs` | lock, listener, thread, shutdown flag | start, bind, accept, stop, wake, join, drop | serves under the lock; stop returns; the endpoint leads to the running server |
| direct client | `client.rs`, `backend.rs` | ready/closed flags, transaction flag, listeners, known types, blob file | exec, query, describe, raw protocol, transaction, listen, dump, close, drop | what the client believes of the session is so; the lock outlives the backend |
| pg_dump | `pg_dump.rs`, `client.rs` 520-597 | runner thread, channel, socket, the shared session | run, connect, serve, join, clean up | `dump_sql` returns |
| extensions | `extensions.rs`, `base.rs`, `postgres_mod.rs`, `client.rs`, `backend.rs` | files and catalogue of a root, seeded modules of a process | resolve, unpack, seed, set up, enable, clone | what the catalogue names can be loaded |
| extension catalogue, build tool | `xtask/` | pins, checkouts, build directory, packaged assets, manifests, committed generated files | build, package, compile, check, download, release | what is shipped belongs together |
| protocol messages, values | `protocol/`, `types.rs`, `parse.rs`, `templating.rs` | parser's partial message | parse, serialise, quote | not modelled |
| configuration, errors, timing, programs, examples | `config.rs`, `src/bin/`, `examples/`, ... | none of interest | | not modelled: plain data and argument parsing |

How they interact. `PgliteBuilder::open` takes the root lock, gets the shared
runtime, prepares the root (which asks for the template cache), unpacks the
requested extensions, starts a backend, whose modules come from the AOT cache
and whose PGDATA may be an overlay, and hands the lock to the `Pglite` or
`PgliteServer` that owns it. The server's thread runs the accept loop; each
connection runs the proxy's `handle_stream`, which calls the protocol pump of
the one backend. The owner's thread and the server's thread share the shutdown
flag and, through the kernel, the listening socket. A direct dump runs pg_dump
on a second thread against the caller's own session. Processes share root
directories, template and runtime caches with their lock files, and the AOT
cache, which has none. The build tool makes what all of this is shipped with,
from tracked inputs through files that git does not track.

What is hard, and listed line by line under `hazards` in `PROJECT.json`:
processes killed between two writes; locks taken in two steps and released in
two; files replaced under a process that uses them; a stop that races an
accept; data of one read split between two buffers and a socket; nested queries
between Parse and Bind; LISTEN and COMMIT; a session that is replaced under a
client that remembers the old one; a timeout that races a connect; build
products of different inputs side by side.

## Modules

| module | models | composed with |
|---|---|---|
| `RootLock` | `RootLock::acquire` and `drop`, process death | |
| `RootPrepare` | `prepare_root`, `prepare_pgdata`, the overlay's manifest, initdb, archive loading | assumes `RootLock` (one opener at a time) |
| `TemplateCache` | `pgdata_template_cache`, `extension_pgdata_template_cache`, `CacheLock` | |
| `Directory` | abstract specification: a directory with open, rename, remove, mkdir | implemented by `Overlay` |
| `Overlay` | `EagerCopyOverlayFileSystem`, whiteouts, `materialize_pgdata_view` | |
| `RuntimeCache` | `runtime_cache`, `ensure_full_runtime` | in `ColdStart` |
| `ModuleCache` | `load_artifact_module` and what it calls, `seed_wasix_module_cache` | in `ColdStart` |
| `ColdStart` | a process gets the runtime, then loads modules; processes die | `RuntimeCache`, `ModuleCache` |
| `WireChannel` | abstract specification: a byte stream delivered once, in order | implemented by `Proxy` |
| `Proxy` | one connection: client, `handle_stream`, pump, bridge, PostgreSQL's main loop and COPY | |
| `Server` | owners, server threads and clients of several `PgliteServer`s | uses the lock's effect |
| `Client` | one `Pglite` with its PostgreSQL session | |
| `ExtensionSet` | `resolve_extension_set`: the order of a set of extensions | extended by `Extensions` |
| `Extensions` | requested sets, unpacking, seeding, setup, `enable_extension`, clones and archives | in `Session` |
| `DirectDump` | `dump_sql` of a direct instance | in `Session` |
| `Session` | extensions and dumps on one session | `Extensions`, `DirectDump` |
| `ExtensionCatalog` | `extension_catalog.rs`: catalogue, build plan, Rust constants | extended by `AssetBuild` |
| `AssetBuild` | checkouts, source spine, the Docker builds and their outputs | extended by `AssetPackage` |
| `AssetPackage` | portable assets, PGDATA template, AOT artifacts, the strict checks | extended by `AssetPipeline` |
| `AssetPipeline` | the commands of `xtask`, edits and failures | |
| `RootProofs` | theorems about `RootLock` and `RootPrepare` | |
| `TemplateProofs` | theorems about `TemplateCache` and `Overlay`, which uses a template | |
| `ServerProofs`, `ProxyProofs`, `ClientProofs`, `ColdStartProofs`, `SessionProofs`, `AssetPipelineProofs` | theorems about the module of that name | |
| `MC*` | instances for TLC | |

Names follow the code: an action carries the name of the function, or of the
part of it, that it models. A definition whose name has a suffix after an
underscore (`TryLock_Ignored`) is a mutant: the code as a plausible bug would
have it, used to show that a property can fail. No specification uses one.

### RootLock

`lockedPaths` is the registry `ROOT_LOCKED_PATHS` of each process, `fileLock`
the kernel's lock per root, `fileOpen` the open handles, `pc` where each opener
is. Reserving the path, opening the file, locking it and each of the two steps
of `drop` are actions of their own; `AbandonAcquire` is every error return.
`Crash` ends a process: its memory is gone and the kernel closes its files.

### RootPrepare

The directory is the set of its pieces: `PG_VERSION`, `pg_control` (the two
markers that `cluster_is_complete` looks for), `relations` for everything else,
the overlay manifest, and `postmaster` for the files of a running backend.
`remove_dir_all`, initdb and unpacking change one piece at a time, and a
manifest is truncated and written in two steps, because a process may be killed
in between. `id`, `over`, `need` and `owed` are not in the code: they say which
cluster the pieces belong to and which one the user is owed, so that the
properties can be stated. `InterruptIn` says where an opener may be killed or
fail.

### TemplateCache

Each process may ask for the base and the extension template. An entry's lock
is the kernel's; `OnceLock` makes the first outcome in a process final, for the
base template errors included. A builder writes a staging directory, renames
it, and (for extension templates) writes the manifest after the rename. `Fails`
is an I/O error at any step and `Die` a killed process.

### Overlay and Directory

`upper` holds the content of each upper file, `whiteouts` the hidden names,
`upperDirs` the directories made on demand. PostgreSQL makes one call at a time
(`call`). An open that may change the file, and a rename, first copy it up
(`CopyBegins`, `CopyReturns`), in place; the library's own overlay then works on
the upper directory (`Open`, `Rename`) or is handed the call as it is
(`OpenToRead`, `RemoveFile`, `CreateDir`). A content is the template file's
name, a value PostgreSQL wrote, or empty or torn. `Crash` may come at any point.

`Directory` is what PostgreSQL may rely on. The refinement mapping shows the old
file while a copy is under way (`Promised`). `Directory` states two deviations
from a plain directory, both of which the code has: `Seen`, because copy-up does
not look at whiteouts, so a template file that was removed is there again for a
call that would change it; and the torn or empty file in `Directory!Crash`.

### RuntimeCache, ModuleCache, ColdStart

`RuntimeCache`: the runtime archive is a sequence of files, unpacked in place
under the file lock; whether it is there is judged by the files in `Module` and
`Support` only. `cut` remembers that an unpacking ended early when all of these
existed. The process keeps its first answer.

`ModuleCache`: `file` and `receipt` are the shared directory; `memory` is
what the statics of each process hold, with the three mutexes; `load` is where
each thread is. Removing, writing, renaming, checking and mapping are separate
steps. In full mode hashes are checked, otherwise receipts are trusted and a map
that fails is followed by one rebuild. `disturbed` notes which artifacts another
process removed, or the disk damaged, under a thread that was using them.

`ColdStart` puts both together: loading begins when the process has the runtime,
and a killed process loses its part of both.

### Proxy

A message is two units (head and body), so that a read can end in the middle of
a frame: message `i` of `sent` is the units `2i-1` and `2i`. `read` cuts the
stream anywhere, and a client that leaves, orderly or with a reset, may have
written its last message in part: of what it sent, `lost` units never arrive.
The end of file thus falls between messages or inside one, in the read loop, in
the dispatch loop and while PostgreSQL reads the stream. The buffers are the frame reader's (`pending`), the rest
of the messages of this read (`todo`), the batch, the host's input buffer,
PostgreSQL's receive buffer and the stream prefix. A batch without COPY is
dispatched whole (`FlushBuffered`); one with COPY FROM STDIN or TO STDOUT hands
over to the socket (`FlushHandoff`, `StreamRead`, `StreamEof`), where
PostgreSQL reads by itself until the stream ends. The call of the backend may
return an error at any point, having taken part of the batch (`FlushFails`) or
of the stream (`StreamFails`); the handler then returns it. A client is a profile: the
kinds of messages it sends and how many, whether its startup packet has been
sent, the size of the receive buffer (`recv`), the entries of the drain loop
beyond `len/5` (`extra`), and whether it sends COPY data only after it saw
`CopyInResponse` (`patient`).

### Server

Owners (`owner`) run `start`, `stop` and `drop`; threads run the accept loop
with its two reads of the flag; clients connect, are queued in a bounded
backlog, are served and leave. `binding` says which server an endpoint leads
to and `holder` who has the lock of a root; `start_unix` removes an existing
socket file first. `stop` connects to its own endpoint to wake the thread, and
the wake is a connection like any other. Which server has which root and
endpoint is chosen at the start (`setup`).

### Client

Calls borrow the instance mutably, so they do not overlap; a call of several
round trips is several actions, and `call` says where it is. The PostgreSQL
session is modelled from outside: its transaction block and who began it, the
channels it listens to now and after a commit, and whether it has an unnamed
statement. Every round trip may fail. `Answers` is `send_protocol`: it starts a
stopped backend again. The program may execute any statements of its own,
transaction control included, except LISTEN and UNLISTEN; `ListenInBlock` and
`RawWhenClosed` switch on two uses for which the properties do not hold (below).
Types stand for OIDs without a built-in parser.

### Extensions, DirectDump, Session

`Extensions`: the requested set is closed under dependencies (`Resolved`);
each archive is unpacked into the root in place unless its files are there
(`UnpackBegins`, `UnpackEnds`, `SkipPreinstalled`), the backend starts and seeds the modules of all
libraries it finds (`Present`), and the setup statements run in order; a server
does this at its first connection. `files`, `catalog` and `unsure` belong to a
root, `seeded` to the process. There is a root that is kept and a temporary one,
and archives and clones lead from one to the other.

`DirectDump`: `caller` is the thread that called `dump_sql`, `runner` the one
that runs pg_dump, `host` the caller's end of the socket, which goes through a
channel of one place. The accept may time out, the runner may fail to load,
pg_dump may leave at any query. `block` is the transaction block pg_dump leaves
in the session.

`Session` runs both on one session: a setup statement fails in a failed block,
a physical dump starts a new session, a dump is made only of a direct instance
that is ready.

### ExtensionCatalog, AssetBuild, AssetPackage, AssetPipeline

`tree` is the tracked inputs (pins, patch, requested extensions, recorded smoke
tests). A module is named by what it was compiled from, and a hash by what it is
the hash of, so that "belongs together" can be stated. Commands are sequences of
steps, one per call that reads or changes the disk; `Assets`, `Extensions`,
`Download` and `Release` start them, `BuildStep`, `PackageStep` and the others
take one step, `Refuse` is a check that fails, `Break` a fault that leaves a step
half done, `EditInputs` and `EditCheckout` are developers at work. The checks
are predicates (the fallback of the AOT check to `crates/aot` is left out, as no
command writes there): `assets check` is `GeneratedOk`, `check-aot` is
`CheckAotPackageManifest`, `install-local` is `InstallLocalOk`, and the library's
own check at startup is `StartupAccepts`.

## Runs

| run | instance | checks |
|---|---|---|
| `root_lock` | 4 openers in 2 processes, 2 roots | `MutualExclusion`, `PathsAccountedFor`, `LockBacked` |
| `proxy` | four clients: any 4 messages of a session from its start; startup and any 4 messages of a patient session that copies in; startup and any 3 of one that copies out as well; startup and any 3 messages of one that pipelines and misuses the protocol, with a receive buffer of 2 messages | `NothingLost`, `ErrHasCause`, `ImplementsChannel`, `QueryAnswered`, `HandlerReturns` |
| `proxy_pipelined_copy` | COPY data behind the COPY command | `InOrder`: violated |
| `server` | 2 servers, with a root each and one TCP address, or with one root and one Unix path; 2 clients | `LockedWhileServing`, `ConnectionsAccounted`, `EndpointLeadsToServer`, `StopReturns`, `QueuedClientLeavesQueue` |
| `prepare` | 3 sources, builds with 2 templates, interruptions where the code recovers | `StartsOnWhole`, `DataKept`, `NeverDiscardsServed`, `Reopens` |
| `prepare_interrupted` | interruptions anywhere | `StartsOnWhole`: violated |
| `template_cache` | 3 processes, both entries | `CacheTypeOK`, `TemplateWhole`, `ErrorIsOwn`, `AskedIsAnswered` |
| `client` | 2 channels, 3 listeners, an array type and one that is none | `LockCoversBackend`, `ListenersHeard`, `TransactionEnds`, `BindFindsStatement`, `BlobOfThisCall` |
| `overlay` | 2 template files, 2 new ones in 2 directories, 5 ways to open | `ArchiveIsView`, `ImplementsDirectory` |
| `cold_start` | 2 processes, 3 threads, 1 artifact, an archive of 2 files, 1 damage | `RuntimeWhole`, `FailureHasCause`, `LoadReturns` |
| `session` | 2 extensions of which one needs the other, 1 fault, 3 queries | `ExtensionUsable`, `OpenNeedsNothing`, `DumpReturns` |
| `assets` | 4 contents of the inputs, 1 extension, 1 target, 2 CI runs, 3 commands, 2 edits or faults | `BuiltFromThePins`, `ArtifactsOfTheModules`, `PackagedTogether`, `DownloadedForThisTree`, `LabelledAsCompiled`, `ReleaseStarts` |

Each property has a mutant of the code that violates it, under the same
configuration.

### Bounds

- `root_lock`: two openers in each of two processes meet both in the registry
  and at the kernel lock; a second root shows that roots do not interfere. The
  theorems hold for any numbers.
- `proxy`: a handoff needs a COPY command, data, its end and a message after it;
  with startup that is five. Each client has the kinds that matter to its
  questions, since the product of all kinds is out of reach. A receive buffer of
  two messages is exceeded by a batch of three.
- `server`: two servers are what contention for an endpoint or a root needs;
  two clients and a backlog of two let a wake find the queue full.
- `prepare`: an open is a finite pass over the directory, and the sequence of
  opens is not bounded; four names for clusters suffice, as at most three are in
  use (a theorem, `FreshIsNew`).
- `template_cache`: a builder, one that waits and one that uses the template.
- `client`: three calls of `listen` give two listeners of one channel and one of
  another. Nothing else is bounded.
- `overlay`: two template files, so that one may be renamed over the other; a
  new file that archives skip; a directory that has to be made first. The number
  of calls is not bounded. The theorems hold for any files.
- `cold_start`: two threads of one process meet at its mutexes, the third is a
  process that verifies hashes and interferes from outside. Each thread loads
  the artifact once per life of its process (`Loads`); processes die and restart
  without a bound. `RuntimeWhole` and `FailureHasCause` are also theorems.
- `session`: the extension with the earlier name needs the other. One fault is
  enough to leave each step half done, and what follows it is not bounded.
  Three queries are the startup, the BEGIN and one that runs in the block.
- `assets`: three commands are build, package and check, or two of them around a
  download; two events are an edit and a fault, or an edit and its reversal. The
  input trees change the patch alone, a pin whose new commit needs a symbol of
  the new patch, and the requested extensions. One extension and one target
  suffice, as none of the checks relates two.

### Fairness

- `Proxy`: weak fairness of the handler's steps. It is a thread that is never
  blocked but in `read`; a read is enabled only when there are bytes or the
  peer has closed. No call has to fail: the failure of a call that reads the
  stream (`StreamFails`) is not among the fair steps, so it is not what makes
  the handler return. Nothing is assumed of the client, except in
  `HandlerReturns`, which speaks of a client that has gone. If the half
  message the backend has when the stream ends counted as input, the dispatch
  loop would not be done with it; that is the mutant of this property.
- `Server`: weak fairness of each owner's `start` and of `stop` once begun, of
  each thread, and of clients that are being served to leave at some time: the
  documentation (`RUNTIME.md`, Root Locking And Lifecycle) asks programs to
  close clients before they stop a server, because the thread waits for them.
- `TemplateCache`: weak fairness of a builder's steps, strong fairness of
  acquiring the lock: the file lock blocks until it is free, and the kernel
  does not pass over one waiter for ever. A process may die at any time; none
  has to.
- `RootPrepare`: an open goes on and opens are repeated (weak fairness);
  `Reopens` is conditional on interruptions ending.
- `ColdStart`: weak fairness of each thread's module steps, waiting for a mutex
  included: loads are finite, so no mutex is taken for ever by others. Nothing
  is assumed of faults, of damages or of the start of loads.
- `Session`: weak fairness of the dump's two threads. The timeout may come
  before or after pg_dump connects.
- `RootLock`, `Client`, `Overlay`, `AssetPipeline`: safety only. A developer
  does not have to run commands, and a command only ends.

## What the runs show to differ

- **COPY data sent with the COPY command** (`proxy_pipelined_copy`). Bytes that
  the proxy had read together with the COPY command are handed over as the
  stream's prefix only after the call in which PostgreSQL has begun to read the
  socket. Data that came later overtakes them.
- **Interrupted initdb or archive load** (`prepare_interrupted`). Both write in
  place and write both markers before the rest. A process killed after that
  leaves a directory that counts as complete.

Other divergences and limits, met while modelling. Where a property has an
exception for one of them, it is named.

Connections and servers:

- A Sync followed in the same read by the Parse of the next group stays in the
  batch while the handler waits for input (`proxy.rs` 890-894 says it does not).
- A COPY FROM of the extended protocol whose batch exceeds the receive buffer is
  parted from its Sync: PostgreSQL reads COPY data from the socket while the
  Sync is still in the host's input, and gets the Sync after them.
- Cancel, Terminate or an SSL request behind a COPY TO that was not flushed: the
  flush before the control packet hands the socket over, and messages read
  behind that packet are dropped. Both are kept out of the refinement theorem
  by its hypotheses (see Proofs).
- The accept loop "forever" (`proxy.rs` 249) ends with the first connection that
  ends in an error.
- Two servers with different roots and the same Unix path: the second removes
  the live socket of the first, whose stop then wakes the wrong thread and does
  not return. Hence `EndpointKept` assumes that a shared path means a shared
  root, and the instance of the run does so.

Roots, overlay and caches:

- A manifest torn by a killed process makes the root unopenable (`Reopens`
  excludes it).
- A template file removed by PostgreSQL comes back for an open that would
  change it, and a kill during copy-up leaves a torn file over a whole one
  (the two deviations of `Directory`).
- An unpacking of the runtime that is cut after the last file that is looked at
  is not noticed by later processes (`cut` in `RuntimeWhole`).
- An error of the first attempt to get the runtime is kept for the life of the
  process, also when its cause is gone.
- With `PGLITE_OXIDE_AOT_VERIFY=full` a process never looks again at an
  artifact it has installed or verified, so a damage after that makes every
  later load fail (`Spoiled`); otherwise the file is rebuilt once.

Direct client and extensions:

- A JSON array for a parameter of a type that is no array makes `query` look the
  type up with a simple query, which drops the statement it has just parsed;
  Bind then fails. Only a lookup that finds an array type makes the
  client parse again. `BindFindsStatement` names this case as its exception, and
  the run has such a type.
- `listen` inside a BEGIN that is rolled back leaves a listener that is not
  heard (`ListenInBlock`).
- `exec_protocol` through a closed instance starts a backend on a root that is
  no longer locked (`RawWhenClosed`).
- A query that is given a blob and has to discover a type loses the blob
  (`BlobOfThisCall` says so).
- A COMMIT that fails leaves `in_transaction` set, and dumps are then refused.
- pg_dump that connects after the caller's timeout is served by nobody, and
  `dump_sql` waits for it for ever (`Orphaned` in `DumpReturns`).
- A direct dump that does not end well leaves its read-only block in the
  session; the cleanup does not roll back. Extensions enabled then fail
  (`OpenNeedsNothing` allows it for `enable_extension` only).
- A physical dump replaces the session: `LOAD` and `SET` of an extension's setup
  are not repeated.
- An archive loaded without naming its extensions has a catalogue without their
  files (`unsure`).

Build tool:

- Packaging without compiling puts artifacts of an earlier build under the hash
  of the new modules (the advice of the tool's own message leads there), and no
  later check can tell (`Mislabelled`). `LabelledAsCompiled` says that a download
  never does so, and a release build only if an input or a checkout is edited
  under it; `package` and `package-aot` are the commands it does not promise this for.
- `check-aot` and the compilation look at the local build directory if there is
  one, where `DEVELOPMENT.md` says that artifacts are generated from the
  packaged portable assets.
- An AOT manifest that lacks an extension's artifact passes; the library then
  finds none at run time.
- A release build uses the committed build plan as it is (hence
  `ExtensionsCheckOk` in `BuiltFromThePins`).
- `assets package` after an edit of the pins records the new pins beside modules
  of the old ones.
- `extensions generate` without packaged assets writes an empty list of
  extensions, and the check of the generated Rust code accepts constants it
  does not expect.
- The check of the pins does not notice a change of the patch, and downloads
  are chosen by the committed fingerprint, which is not computed again (hence
  `fpFile = tree` in `DownloadedForThisTree`).

## Proofs

All are for every value of the constants, from the assumptions named in the
modules (`RootLockAssumption`, `ServerAssumption`, `TemplateCacheAssumption`,
`RootPrepareAssumption`, `ClientAssumption`, `OverlayAssumption`,
`ProxyAssumption`, `RuntimeAssumption`, `ModuleAssumption`, `ExtensionsAssumption`,
`DumpAssumption`, `DepsAssumption`, `SymbolsAssumption`, `InputsAssumption`, `RunsAssumption`). Every
safety invariant and action property that a passing run checks, and both
refinements, are theorems.

- `RootProofs`, the lock: `LockTypeCorrect`, `Exclusion`, `NoLeakedReservation`,
  `NoOrphanLock`. `MutualExclusion` is not inductive. The invariant adds that an
  opener in an owning stage holds the kernel lock (`OwnersHoldLock`) and that
  its handle is open (`HandlesOpen`), so that a crash, which closes handles,
  releases exactly the locks of the openers it ends.
- `ServerProofs`: `ServesUnderLock` and, if servers that share a Unix path share
  a root, `EndpointKept`. The invariant says that owners past `PrepareRoot` hold
  the lock (`OwnersHold`) and that a live thread has such an owner
  (`ThreadsOwned`): the join is before the release. The endpoint follows because
  a second owner of the root would need the lock. `ConnectionsKept`
  (`ConnectionsAccounted`): each client that is connected has exactly one place, a
  position in a backlog or a thread (`Accounted`), and a thread has a connection
  only between accept and the end of `handle_stream` (`OneAtATime`), so that an
  accept moves a client and drops none.
  `ServerTypeCorrect` includes the bound of the backlog.
- `RootProofs`, the preparation: `ServedSurvives`, an action property. A cluster is
  removed when its markers are missing, so the invariant says that the cluster
  last served keeps its markers unless an archive replaces it, and what each
  stage knows of the directory. `PrepareTypeCorrect` adds that a name for a new
  cluster is always free. `UsersDataServed` (`DataKept`) assumes `LoadsFinish`:
  no load of an archive over a cluster is interrupted, since such a load removes
  the cluster first. `WholeWhenServed` (`StartsOnWhole`) assumes `Recovered`:
  builds have a template, and interruptions are anywhere but in initdb, unpack
  and the removal of a load; these write in place and are what
  `prepare_interrupted` shows to fail. Its invariant (`Wholeness`) says that a
  directory with both markers is whole, and that an overlay's manifest names the
  template below it or is torn. The instance of `prepare` satisfies both
  hypotheses.
- `TemplateProofs`, the cache: `CacheTypeCorrect` (with mutual exclusion inside an
  entry) and `UsedTemplateWhole`. The invariant describes an entry at each stage
  of its builder, and that a template in use is valid, so that no later process
  removes it. `RefusedForOwnError` (`ErrorIsOwn`): from the same description, what a
  builder finds on disk is used or rebuilt, so that a process is refused a
  template only after an error of its own or for a torn manifest (`Stuck`).
- `ProxyProofs`, for any clients, read sizes, receive buffer and drain limit. The
  code keeps no position in the stream; the invariant (`Inv`) makes it explicit.
  All units up to `Taken` have left the socket, the frame reader has cut `r`
  messages off them, and `todo` is the last of these (`Reader`); per stage, which
  buffers are empty. On it rest
  - `ErrorsHaveCauses`: the causes are the client's leaving, its breaking the
    protocol, a backend that did not start or a call into it that failed, a COPY
    with more behind it than the receive buffer or the dispatch loop takes, and a
    control packet behind a COPY.
    An error that is recorded while the backend still has the
    socket has a cause that nothing takes back (`StandingCause`);
  - `NoUnitLost`: each unit is counted in every buffer and among the delivered
    ones, and the sum is one (`Balanced`);
  - `ConnectionImplementsChannel`: the refinement of `WireChannel`. In the read
    loop, what was delivered together with the batch is exactly the units of the
    handled messages (`HandledInOrder`); after the handoff, what was delivered is
    exactly the units before those of the prefix and the socket
    (`StreamedInOrder`); a client that waits has no COPY data behind an
    unanswered COPY FROM (`Waiting`). The hypotheses are about clients that wait
    for `CopyInResponse`, the only ones the channel promises anything to:
    `PatientBehave` (no COPY FROM already in the prelude; no control packets in a
    session that leaves COPY TO unflushed) and `CopyFits` (a batch with a COPY is
    shorter than the receive buffer). TLC gives counterexamples to the refinement
    without either; they are the two limits above. The clients of the `proxy` run
    satisfy both;
  - `ConnectionTypeCorrect`: the types, among them that no more COPY FROMs are
    answered than messages were sent. The stream may be answered out of order,
    so the invariant (`CopyInv`) counts the messages that end in the continuation
    or the socket and have not been seen.
- `ClientProofs`: `LockHeld`, `HeardAlways`, `StatementFound`, `NoBlockLeft`,
  `OwnBlob` and `ClientTypeCorrect`.
  For the lock: an instance that gave it up is closed, its backend is stopped,
  and it has no listener left whose removal would send UNLISTEN and so start the
  backend again. For the listeners: every channel with a listener is listened to
  now *and after a commit*, and a ready instance has a stopped backend only
  while a dump restarts it. These two assume `~RawWhenClosed` and
  `~ListenInBlock`. For the statement: each step that
  leads to Bind leaves it in the session or parses it again, except after a
  lookup by the same call of a type that is no array. For transactions: the flag
  is set whenever a block of `transaction` may be open, and a handle that was
  closed has ended its block and can start no call. For the blob: from
  Parse to Bind the file holds what this call was given, and once a lookup of a
  type has run it is gone.
- `TemplateProofs`, the overlay: `OverlayTypeCorrect`, `ArchiveComplete` and
  `Refinement`, the last one showing that every step of the overlay is a step of `Directory` or a
  stutter. Besides the types it needs to know what a copy-up has made so far
  (`CopySoFar`): torn while it runs, then the template's content, or empty if
  the open truncates. The archive needs only that a whiteout hides nothing but a
  template file.
- `ColdStartProofs`: `CachesTypeCorrect`, `RuntimeIsWhole` and `LoadsRepair`. For
  the runtime (`Known`): unless `cut`, at each stage of the lock's holder the
  files before the one it writes are whole and, once all files that are looked
  at exist, all are. For the loads (`Causes`): an artifact that a process
  remembers as installed is whole or was spoiled; what a thread has just
  verified or written stays so until another process or the disk touches it,
  since the threads of its own process are kept out by the mutexes
  (`MutexesHeld`); a process that verifies hashes never enters the rebuild.
  `FailureHasCause` as first stated, with damages counted per load in both
  modes, was not inductive, and not true: in full mode two threads of a process
  share what one of them verified. The statement was corrected.

- `SessionProofs`: `SessionTypeCorrect`, `LibrariesOpen` (`ExtensionUsable`) and
  `OpenFailsOnlyByFault` (`OpenNeedsNothing`), for any catalogue of extensions
  that is resolved in order. This hypothesis, `ResolvesInOrder`, says of
  `resolve_extension_set` that all that was asked for is in the list, each after
  what it needs. The function recurses over the catalogue, and what a recursion
  computes for every input is an induction over data, out of the prover's reach;
  TLC evaluates it for the catalogue of the run and for all acyclic ones of three
  extensions (`CatalogueResolves`, `AllResolve` in `MCSession`). The invariant says,
  stage by stage, that each extension still to be set up finds what it needs
  before it in the list or in the catalogue (`Ordered`), and that what the
  catalogue names has its files and its modules (`FilesThere`, `FilesKept`,
  `ModulesSeeded`), unless an archive came without them (`unsure`).
- `AssetPipelineProofs`: `BuildsThePins`, `ArtifactsMatch`, `PackagesFitTogether`,
  `DownloadsThisTree`, `ReleasesStart`, `LabelsTrue` and `PipelineTypeCorrect`.
  The model's command is a sequence of steps, so the proof is one of a program: a
  relation says which step may follow which (`Edges`, `WellFormed`), and the
  invariant what holds when a command has come to a step (`At`): which checkouts
  are at their pins (`AtTarget`), what was compiled and copied so far
  (`PackagingInv`), that a packaged manifest describes consistent modules
  (`ManifestOk`), that a download under way has installed what it verified
  (`Installed`) and what the release workspace holds (`Released`). A broken or
  refused command leaves no step behind, so only `ManifestOk` has to hold outside
  of commands. It does because the manifest goes with the first thing that is
  cleared and is written from outputs that passed the link checks and from the
  template made of them, or copied from a run that did so. For `LabelsTrue`, a
  release build compiles the modules after it has built them and nothing changes
  them before it copies the artifacts (`ArtifactsMade`); what a download copies
  was labelled by the release build of a CI run. `RunsAssumption` says that the assets of a CI run passed
  the link check of the build that made them, `InputsAssumption` that the trees'
  pins are commits and their extensions known, `DepsAssumption` that dependencies
  are extensions and that these are finitely many.

  `ReleaseStarts` was first stated for all files of the release workspace. The
  proof failed, for a good reason: a download copies over what is there, so the
  archive of an earlier build may remain that no manifest lists. The library looks
  for a module's hash in the manifest first (`aot.rs` 405) and does not load it.
  The property now speaks of the modules the manifest lists.

Only model-checked:

- liveness (`HandlerReturns`, `QueryAnswered`, `StopReturns`,
  `QueuedClientLeavesQueue`, `AskedIsAnswered`, `Reopens`, `LoadReturns`,
  `DumpReturns`), which depends on fairness and is out of the prover's reach;
- `ResolvesInOrder`, as said above.

## Limits

- PostgreSQL, pg_dump, Wasmer's overlay, the compilers, the operating system and
  the clients are modelled from how the code uses them (marked external in the
  map).
- Error recovery by longjmp or trap in the guest and guest memory are not
  modelled; a dispatch either works or returns an error after part of its input.
- `Proxy` models one connection. That the next one finds a clean session rests
  on `rollback_connection_state`, which is in `Cleanup`.
- `RootPrepare` leaves out the full-local runtime layout and the cloned (not
  overlaid) template.
- `Overlay` leaves out the removal of directories, symbolic links, handles that
  stay open over a rename, and calls of several threads.
- `Client` leaves out delivery of notifications and `on_notification`; one
  unknown type per statement stands for several.
- `AssetPipeline` assumes that compiling is deterministic and initdb is not (a
  template is told from every other), that one command runs at a time, and that
  every requested extension is stable, native and built from a checkout of its
  own. The fingerprint that a download compares is the file committed in the CI
  run, which that run has verified against its inputs (`verify-committed`,
  `assets.yml` 82), and is modelled by these. `initdb` stands for the runtime-support modules and pg_dump. Two
  processes' temporary files, which are never cleaned up, are left out of
  `ModuleCache`.

Not modelled: the benchmarks of the build tool (`xtask perf`, about 4000
lines), its audit of upstream, smoke tests, size and text checks, which read and
report; the encodings of protocol messages and values, which are pure and byte by
byte; command line programs and examples.

## Plan

Done: all modules above, with proofs of their safety properties and
refinements.

Left:

1. `MessageParser`: the client's parser of partial backend messages
   (`protocol/parser.rs`) against a reference over all cuts of a stream; array
   literals (`types.rs`) parsed and serialised.
2. Composition: `RootPrepare` under `RootLock` with openers in several
   processes, in place of the assumption of one opener.
