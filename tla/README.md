# TLA+ models of the camlistore blob server core

This directory holds TLA+ models of the code under `src/`, the TLC
configurations that check them, and `PROJECT.json`. `PROJECT.json` lists the
components, runs, mutants, source map, findings and hazards.

## 1. The system (inventory)

Three source files make up the system:

| file | what it is |
|---|---|
| `src/unnamed/part_000` | `localdisk` package: `diskStorage.ReceiveBlob`, the write path of the local blob store (lines 34-120) |
| `src/lib/go/camli/index/index.go` | `index` package: the `IndexStorage`/`BatchMutation` key/value contract and the `batch` type (lines 28-57), the `Index` storage target (59-80), and search methods that are stubs returning "TODO" errors (82-126). Lines 126-221 are a TODO text file with no code. |
| `src/unnamed/part_001` | `camlistored` main: config file discovery and generation, identity key ring, self-signed TLS, SIGHUP restart, listening |

### Components, their state and their operations

**ReceivePipeline** (`ReceiveBlob`, part_000:34-86). It has no state of its
own. It shares the file system with every other call: the blob's shard
directory, temporary files, the canonical file, and partition links. One call
goes through these steps:

1. `MkdirAll(dir)`.
2. `TempFile(dir, base+".tmp")`. This creates a fresh name with O_EXCL.
3. `io.Copy` into the file and into the hash.
4. `Sync`, then `Close`.
5. `HashMatches`.
6. `Rename(temp, canonical)`. This is the commit.
7. `Lstat`, with the check `IsRegular && Size == written`.

Every early return after step 2 runs a deferred function. It removes
`tempFile.Name()` unless `success` is set. The removal goes by name, not by
file descriptor.

**PartitionMirror** (part_000:87-97). For each partition, in order, it calls
`MkdirAll(partitionDir)`, then `os.Link(canonical, partitionFile)`. The first
error returns. Links already made stay in place.

**NotificationHub** (part_000:112-117; the hub type is not in `src/`). After
`success = true`, the call runs `GetBlobHub(DefaultPartition).NotifyBlobReceived`,
then does the same for each mirror partition in order. The hub's state is an
in-memory set of subscribers per partition, and it is lost on a crash.

**DiskLayout** (`blobDirectoryName`, `blobFileName`, `partitionBlobFileName`).
These functions are not in `src/`. They are pure functions from (partition,
blob) to a path.

**IndexStorage / BatchMutation** (index.go:28-57). The contract is
`Set`/`Delete`/`BeginBatch`/`CommitBatch`. `batch` appends mutations to a
slice. No implementation of `CommitBatch` is in `src/`. The spec says a commit
is all-or-nothing.

**Index** (index.go:59-126). It is a storage target that embeds a hub map.
Its search methods are stubs that return "TODO" errors.

- The two streaming methods take a result channel `dest`.
  `GetRecentPermanodes` closes it with `defer`; `SearchPermanodesWithAttr`
  does not.
- The other methods are plain lookups.

**ServerBootstrap** (part_001). Its persistent state is four files: the config
file, the identity secret ring, the TLS cert and the TLS key. Its operations:

- `findConfigFile`: generates the default config only when the file is absent.
- `newDefaultConfigFile`: makes the blob dir, reuses or generates the secret
  ring, then writes the config.
- `setupTLS` and `genSelfTLS`: write the cert, then the key.
- `listenAndBaseURL`.
- `handleSignals`: SIGHUP restarts the process.

**ShowImagesHook** (part_000:102-110). It runs `eog` on the new file. It is
best effort.

### How they interact

`ReceiveBlob` calls run concurrently, one per request. They share only the
file system namespace, plus the hub map through `GetBlobHub`. Two calls for the
same blob share three things:

- the temp-name prefix;
- the canonical name;
- the partition names.

An index backend is attached as a storage target. It hears about blobs through
the hub and writes through `IndexStorage`. The bootstrap runs before any of
this, and again after every SIGHUP restart and every crash.

### What is hard

- **Names versus descriptors.** A call writes through its descriptor, but its
  rename and its deferred Remove use the name. After the rename, the name is
  free for `TempFile` to hand out again.
- **Concurrency on one blob.** A rename replaces the canonical file between
  another call's rename and its `Lstat` or `Link`. `Link` fails with EEXIST
  when the partition already holds the blob.
- **Partial failure.** Each syscall may fail. Failures after the commit leave
  the canonical file and some partition links in place.
- **Crashes.** Data not yet synced is torn. Temporary files survive. A
  rename that no journal commit has reached is undone, because no directory
  is fsynced. The hubs and their subscribers are gone. During bootstrap, a half-written key ring or config file
  survives the crash.

### What makes each component correct

- **ReceivePipeline:**
  - a name of a blob only ever holds that blob's bytes;
  - a failure before the commit leaves nothing;
  - success means the file is visible;
  - no temp file outlives its call, unless a crash killed the call;
  - a success survives a crash.
- **PartitionMirror:** success means every requested partition is linked. A
  retry of a committed blob succeeds (spec 4.3).
- **NotificationHub:** it announces a blob only once the blob is stored
  under that hub's partition. A subscriber registered throughout a
  successful call hears of its blob, and the hub never blocks the receive;
  the hub is not in `src/`, so only the first claim is checked.
- **IndexStorage batch:** a commit is one atomic map update, and the last
  mutation of a key wins. No backend is in `src/`, so this is not checked.
- **ServerBootstrap:** after any crash, a later start succeeds, or fails only
  on a fault that is still present.

## 2. Modules

### LocalDiskReceive (done): ReceivePipeline + PartitionMirror + hub calls

The state maps to the code as follows:

- `ns`, the directory entries, maps each path to an inode. `dns` is the
  namespace on disk, which a crash goes back to.
- `ino` holds the inode contents: `data` plus whether it has been `synced`.
  Data is a blob ref (the right bytes), `Garbage` (bytes that hash to no
  blob) or `Partial` (a strict prefix).
- Each receiver has the following variables:
  - `pc`: the step of ReceiveBlob it is at;
  - the call's arguments `blob`, `stream` and `mirrors`;
  - `mi`: the index of the mirror loop, and of the notification loop;
  - `tmp`: the suffix `TempFile` chose;
  - `res`: the returned error.
- The inode a call writes is `<<r, calls[r]>>`, which is the `*os.File`.
- `hubLog` is the ordered `NotifyBlobReceived` calls per hub.
- `orphans` is a history variable: the temp paths that existed at a crash.

There is one action per syscall, and each one has its error disjunct:

- `Start`, `Mkdir`, `TempFile`, `Copy`, `SyncClose`, `HashMatches`, `Rename`
  and `Lstat`;
- `MirrorMkdir` and `MirrorLink`, with `NextPartition` as the loop;
- `Notify`, both loops;
- `Cleanup`, the deferred Remove.

`Crash` kills every call, tears unsynced inodes and empties the hubs. It
also sets `ns` back to `dns`.

Constants switch three things:

- `Faults` turns syscall faults on and off.
- `FreshTempNames = FALSE` lets `TempFile` return a suffix it returned
  before. `TempFile` only guarantees that a name is absent when the file is
  created.
- `DurableNames` says whether a namespace operation is on disk when it
  returns.

When `DurableNames` is FALSE, each step that changes `ns` (`Persist`) either
leaves `dns` as it is or commits the whole current namespace. This is a
journal commit, which keeps namespace operations in order. The code never
fsyncs a directory, so nothing else forces a commit.

### IndexBatch (done): batch type and a mutex-held CommitBatch

The batch type comes from the code. `BeginBatch` starts an empty `b.m`.
`BatchSet` and `BatchDelete` append `mutation{key, value, delete}`.

`src/` has no `IndexStorage` implementation. The store operations are
therefore spec-modelled, as an implementation of the usual shape:

- `Set` and `Delete` write the map while the mutex is free.
- `CommitBatch` is three actions:
  - `CommitBegin` takes the mutex;
  - `CommitApply` applies `b.m[ci]` (`ApplyOne`);
  - `CommitEnd` releases the mutex.

Each writer is a goroutine with its own batch, and a batch is committed
once: spec 4.5 says the handle is then spent.

Only `TypeOK` is checked here. With no backend in `src/`, a property of the
mutex and the apply loop would only check a design this project wrote, and
would hold by construction. The module keeps the one piece of code that is
there, the batch type, in its concurrent setting.

### IndexSearch (done): the search methods and their callers

Each caller makes one request, calling a method from `Methods`. A plain
lookup (`Lookup`) returns its error at once. For a streaming method, the
caller does three things:

1. `CallStream`: it starts `go func() { errc <- m(dest) }()`.
2. `RangeEnds`: it ranges over `dest` until `dest` is closed.
3. `DeliverErr`: it receives the error on the unbuffered `errc`.

This caller is not in `src/`. It follows the search handler pattern and is
marked spec-modelled. The method's goroutine (`GetRecentPermanodes`,
`SearchPermanodesWithAttr`) returns its error. The deferred close, if the
method has one, runs before the wrapper sends on `errc`.

### ServerBootstrap (done): camlistored start-up

The files are `config`, `ring`, `cert` and `key`. Each one is `absent`,
`partial` or `complete`. A file is `partial` between the syscall that creates
or truncates it and the write that fills it. Three more variables record
file contents:

- `conf` holds the config's settings (`https`, TLS names, `identity`);
- `ringId` is the key id held in the ring;
- `paired` says whether the key came from the same `genSelfTLS` call as the
  cert.

`pc` is the step of `main` the process is at. There is one action per step,
in the code's order:

- `StatConfig`;
- `MkDir`;
- `StatRing`, `ReadRing`, `NewEntity`, `CreateRing` and `WriteRing`;
- `CreateConfig` and `WriteConfig`;
- `Load`;
- `SetupTLS`;
- `GenKey`, `CreateCert`, `EncodeCert`, `OpenKey` and `EncodeKey`;
- `Install` and `Listen`.

`Faults` adds each call's error disjunct. Every `exitf` or returned error
leads to `down`. Three more actions come from outside start-up:

- `Sighup` is `handleSignals`, which re-executes main;
- `Crash` stops the process at any step, and what it wrote stays;
- `Restart` starts a stopped server again.

`Init` is a state that an earlier run leaves with no half-written file. The
cert is always written before the key.

`flag` is `*flagConfigFile` and stays fixed for a behaviour. Its values come
from the constant `ConfigFlags`: `""` for the default config, or `"explicit"`.
With `"explicit"`, `config` is the file the user named. Init gives the user's
ring alongside it, but the named file may be missing. `StatConfig` follows
`findConfigFile`: for an explicit name it only calls `os.Stat`, and any error
there is `main`'s exitf. Only the default branch generates a config.
`bootstrap_fresh` keeps `ConfigFlags = {""}`, and `bootstrap_crash` takes both
values.

`listenFlag` is whether `-listen` is set, and it also stays fixed. Its values
come from `ListenFlags`. `HasListen` is `listenAndBaseURL`'s check: without
a flag or a `"listen"` in the config, `Load` exits. A config's `tls` is one of
four values:

- `none`: no files named; `genSelfTLS` runs on every start;
- `default`: `defCert` and `defKey`;
- `own`: the user's own files, passed to `ws.SetTLS` unchecked and recorded
  as `"user"`;
- `half`: only one of the two names set, which is an exitf (`NamedTLSFiles`).

`https` counts as true when the config leaves it out. Configs that lack
`"listen"` or name half a pair appear in Init only when `BadConfigs` is TRUE,
which `bootstrap_crash` sets. Those configs can never serve, so the liveness
run leaves them out.

### BlobHub (done, spec-modelled): the hubs of a storage

The hub type (`SimpleBlobHubPartitionMap` and its hubs) is not in `src/`. Its
operations follow spec 4.4 and 9.

Its state:

- `hubs`: the partitions whose hub `GetBlobHub` has created. `Init` starts
  the map empty. The map `ReceiveBlob` uses is `diskStorage`'s, whose
  constructor is not in `src/`.
- `sub`: the hub each subscription handle is on, or `NoHub`.
- `queue`: the events waiting on each handle, at most `QueueCap` of them.
- `heard`: a history variable, the blobs put on the handle's queue since it
  subscribed.

Its actions:

- `Subscribe(s, p)` registers a handle on p's hub and creates the hub.
- `Unsubscribe(s)` removes the handle, together with its queue.
- `Consume(s)`: the subscriber reads its oldest event.
- `NotifyBlobReceived(p, b)` appends `b` to every subscriber of p that has
  room and drops it for the rest (drop-new). It never waits.

### ReceiveWithHub (done): ReceiveBlob composed with the hubs

`ReceiveWithHub` EXTENDS `LocalDiskReceive` and takes the hubs with
`INSTANCE BlobHub`.

- `HubNotify` is one step of ReceiveBlob's notify loop
  (part_000:112-117). It is `Notify` joined with
  `NotifyBlobReceived(NotifyPartition(r), blob[r])`: the default hub first,
  then each mirror partition.
- The other ReceiveBlob steps (`PipelineStep`) leave the hubs alone.
- Subscribers act on the hubs only.
- `HubCrash` is `Crash` with the hubs and every subscription emptied, since
  they live in memory.
- The hub is the project's own, written from spec 4.4 to never wait, so
  nothing is claimed about what a subscriber hears or about calls returning;
  those would hold by construction. `EventStored` is about the code's order:
  a hub is told only after the rename and after every link.

## 3. Runs

The receive runs use `MCLocalDiskReceive.tla`, and `receive_with_hub` uses
`MCReceiveWithHub.tla`. They have up to three receivers (`r1`-`r3`) and one
blob `b1`. Calls interact only through a shared blob. It
has partitions `p1`, `p2`. `MCSize` gives `Garbage` the blob's length, so the
size check cannot catch it, and gives a torn file a smaller length.

| run | cfg | expect | checks |
|---|---|---|---|
| receive_with_hub | `MCReceiveWithHub.cfg` | pass | `HubTypeOK`, `StoredIntact`, `SuccessVisible`, `FailedCommitLeavesNoTrace`, `NoOrphanTemp` and `EventStored`. It has 2 receivers × 1 call, mirror lists `<<>>`/`<<p1>>`, faults, 1 crash, fresh temp names, and 1 subscriber with a one-event queue |
| dir_not_synced | `_dirsync` | violation | `SuccessVisible` when namespace changes reach the disk only at a journal commit: 1 receiver, 1 crash |
| mirror_retry | `_retry` | violation | `ValidReceiveSucceeds`: 2 receivers, list `<<p1>>`, no faults |
| temp_reuse | `_tempreuse` | violation | `StoredIntact` with temp names reused |
| index_batch | `MCIndexBatch.cfg` | pass | `TypeOK`: 2 writers, keys `k1`, `k2`, one value besides Missing, batches of up to 2 mutations, 2 operations per writer |
| search_attr_blocks | `IndexSearch_attr.cfg` | violation | `SearchCompletes`, with 2 requests on the streaming methods |
| bootstrap_fresh | `ServerBootstrap_fresh.cfg` | pass | `SetTLSPairValid`, with no faults and no crash, from every clean start state |
| bootstrap_crash | `ServerBootstrap_crash.cfg` | pass | `ServingIdentityValid`, with both `-configfile` values, bad configs, faults and 1 crash |
| bootstrap_stuck | `ServerBootstrap_stuck.cfg` | violation | `StartupServes`, with 1 crash |
| tls_partial_key | `ServerBootstrap_tlskey.cfg` | violation | `SetTLSPairValid`, with 1 crash |

The bounds are enough for what these runs look for:

- Two calls are enough for two receives to rename over one canonical name
  and to race one link. One subscriber with a queue of one can be on either
  hub. Its second event (the other call's) is dropped unless it has read the
  first, and a hub that waited instead would block the call.
- Three calls are the fewest that reach the temp-name interleaving. In it, A
  renames, B takes A's released name, A's cleanup removes B's file, C takes
  the name again, and B renames C's file.
- One crash is enough to tear every unsynced file at every point of the
  pipeline.
- One blob suffices, because calls on different blobs share no names.
- Each receiver makes a single call. Retries happen through the other
  receivers, since a later call on the same blob is what a retry is.

For the index run, two writers let a write meet another writer's commit,
and two keys let a batch touch a key the write does not.

For the search run, two callers on the two streaming methods are enough to
reach the blocked request beside one that completes.

For the bootstrap runs, one crash is enough: a second crash only repeats the
first one's effect on the files.

### What the violations show (see `findings`)

- **mirror_retry.** One receive links `p1`. A second receive of the same
  blob, a retry, fails with `MirrorFailed` on `os.Link` EEXIST. Spec 4.3 says
  an existing link target is already satisfied.
- **temp_reuse.** Call A renames its temp file, and a later error, such as a
  `MirrorMkdir` failure, sends it to the deferred cleanup. That cleanup
  removes the name, which call B has meanwhile re-created. Call C re-creates
  the name, and B renames C's empty file over the canonical name. B's
  `Lstat` reports `VerificationFailed`, and the blob's name holds C's
  unwritten file. Readers see wrong bytes until C's copy completes, and for
  good if it fails or streams other bytes.
  This needs `TempFile` to repeat a random suffix, which is improbable but
  allowed by its contract.
- **dir_not_synced.** A receive syncs its temp file, renames it and returns
  success. The crash comes before the file system's next journal commit. The
  directory was never fsynced, so the rename is undone and the blob is gone.
  Spec 1 says the engine guarantees durability.
- **search_attr_blocks.** `SearchPermanodesWithAttr` returns without closing
  `dest`. The caller stays blocked in `range`, and the goroutine sending the
  error stays blocked on `errc`. Both leak for each request.
- **bootstrap_stuck.** A crash inside `ioutil.WriteFile` of the default
  config leaves a truncated file. `findConfigFile` only checks that the file
  exists, and `serverconfig.Load` fails on every later start. A ring left
  partial by `generateNewSecRing` blocks start-up the same way.
- **tls_partial_key.** The config names the default cert and key. A crash
  after `genSelfTLS` truncated the key leaves a cert and a truncated key.
  Both exist, so `setupTLS` hands them to `SetTLS` on every later start.

## 4. Fairness

The index runs check safety only.

The receive runs check safety only, so `ReceiveWithHub.HubSpec` has no
fairness.

`IndexSearch.Spec` has weak fairness per caller. It covers the caller and
the goroutine it started, because the Go scheduler eventually runs every
runnable goroutine. The search cfg sets `CHECK_DEADLOCK FALSE`. When all of
its requests are answered or blocked, camlistored goes on serving (`ws.Serve`,
`handleSignals`), so such a state is not a stop of the system. The liveness
properties ask whether each request ends.

`ServerBootstrap.Spec` has weak fairness on `Step`. A running process keeps
executing main: nothing in main blocks before `Serve`. It also has weak
fairness on `Restart`. That is an assumption about whoever runs the server,
such as a supervisor or the user, and `StartupServes` in `bootstrap_stuck`
asks whether restarting is enough. `Sighup`, `Crash` and the fault disjuncts get no fairness. The
liveness run therefore sets `Faults = FALSE`; with faults, a fault on every
attempt defeats any liveness.

## 5. What is not modelled, and why

- **Directory sharding and file name strings.** Only the distinctness of the
  paths matters, so each path is one abstract name.
- **`MkdirAll` directory state.** Directories are never removed, so only the
  outcome (success or fault) is kept.
- **`IsRegular`.** Nothing in the system creates a non-regular file at a
  blob path.
- **The `-showimages` hook.** It runs `eog` as a best-effort side effect.
- **The `Index` struct and `New`** (index.go:59-80). They hold the
  storage and the hub map, and no method uses either.
- **Removing temp files left by a crash.** Nothing in `src/` removes them
  at start-up. `NoOrphanTemp` checks that a crash is the only way an orphan
  comes about, which differs from spec 1 ("avoid orphaned temporary
  state").
- **A consumer that must hear of blobs across restarts.** An example is an
  indexer that rescans storage on start. No such consumer is in `src/`. A
  crash between the rename and the notification takes the subscribers with
  it, so no live subscriber misses an event.
- **The TODO text in index.go.** It is not code.
- **An `IndexStorage` backend.** None is in `src/`, so the mutex-and-loop
  commit is spec-modelled.
- **Bootstrap settings with no file state.** These are how a
  `-configfile` path is resolved (it is absolute or joined to the config
  directory, which is string handling only), the base URL, and opening the
  UI in a browser.
- **Directory fsync in passing runs.** `receive_with_hub` takes renames and
  links as durable when they return, which is the journalling file system
  case. `dir_not_synced` shows what happens without that.
