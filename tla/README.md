# rapid in TLA+

`rapid` installs npm packages without unpacking them. The command line
(`packages/cli`) reads the package lock; the downloader (`packages/downloader`,
through the N-API `packages/binding`) fetches tarballs and appends them to a few
*bucket* files, keeping a table of contents (TOC) of every entry in every
bucket; a file system image that points into the buckets is generated
(`cli/lib/npm_fs`, `packages/bootstrap`), and `nydusd` plus an overlay mount
make it appear as `node_modules`. A background process (`packages/deamon`; the
code spells it so, and so do the modules) mounts a project again when its mount
has died.

This directory holds a model of that program: state machines for its parts, the
formats they exchange included, TLC configurations that check them on small instances, and theorems that
TLAPS proves for every instance. Source paths below are relative to
`src/packages/`. `PROJECT.json` is the index: which definition stands for which
lines (`map`), what each run checks (`runs`), a plausible bug for every property
(`mutants`), the dangers of the code at their lines (`hazards`).

Contents: [1 the system](#1-the-system), [2 the modules](#2-the-modules),
[3 the runs](#3-the-runs), [4 disagreements found](#4-disagreements-found),
[5 fairness](#5-fairness), [6 the proofs](#6-the-proofs),
[7 what is not modelled](#7-what-is-not-modelled), [8 the plan](#8-the-plan).

## 1 The system

### Inventory

| component | state | operations | module |
|---|---|---|---|
| executor pool, `downloader/src/pool.rs` | a deque of idle executors and a deque of waiting oneshots, each behind its own async mutex | `create_request`, `PoolRequest::execute`, `batch_execute_with_sender`, `batch_execute_with_receiver`, `into_inner` | `Pool`, `Lending` |
| bucket store, `downloader/src/store` | one append-only file per bucket, its length, the writer's buffer, a file lock | open, `set_len`, flock, `add_package`, rollback, timeout, flush, `notify_package`, shutdown | `Bucket` |
| TOC in memory, `downloader/src/toc_index_store.rs` | bucket to entries, package to ranges of those lists | `add_package`, `has_package`, `get_package`, `dump` | `TocData`, `TocIndexStore` |
| TOC on disk, `cli/lib/download_dependency.js`, `binding/src/lib.rs` | a map file and an index file | restore at construction, two `writeFile`s after shutdown | `TocFiles` |
| batch download, `downloader/src/download.rs` | five tasks per attempt, three bounded channels, two pools | partition, fetch, map, store, record, reuse, retry, shutdown | `Downloader` |
| entry listener, `store/listener.rs`, `store/tar.rs`, `binding/src/lib.rs` | a channel of capacity 1, a pipe per entry, the JS call queue, the blob manager's maps | send, copy, read, call, `addPackage`, `setGyp`, shutdown handshake | `EntryListener` |
| deamon, `deamon/src` | a map of projects with their pids behind a mutex, the handlers' `RouteState` mutex, a kill channel | restore, serve, check, restart, add, delete, alive, kill | `Deamon` |
| deamon client and commands, `cli/lib/deamon.js`, `index.js`, `nydusd/fuse_mode.js` | metadata files, mounts, the projects' base directories | install, clean, `addProject`, `delProject` | `Deamon` |
| tar reader and writer, `tokio-tar/src` | the stream's position, the header read so far, collected long names and extensions | builder's appends, `poll_next`, `poll_read` of entries | `TarHeader`, `TarBuilder`, `TarReader` |
| async writers, `downloader/src/util.rs`, `store/tar.rs` | bytes accepted and not yet passed on, hash, count | `poll_write`, `poll_flush`, `TarConcater::append` | `TarConcat` |
| bootstrap builder, `bootstrap/src` | a tree of nodes, inode and hard link maps, hints, the file | build, lay out, dump; read a parent back and apply | `RafsLayout`, `Bootstrap`, `LayerBuilder` |
| `rafs/src/metadata` | the mapped file, or inodes loaded as objects | load, look up, read, prefetch, swap | `RafsLayout`, `RafsSuper` |
| npm fs builder, `cli/lib/npm_fs`, `package_lock.js` | none: lock and TOC to the entries of a file system | `generateFsMeta` in both layouts | `NpmFs`, `TnpmFs` |
| install orchestration, `cli/lib/index.js`, `download_dependency.js`, `downloader.js` | directories of a project, indexes | install, clean | `Install` |
| nydusd client and mounts, `cli/lib/nydusd` | nydusd's mount table, tmpfs and overlay mounts, disk images | start, mount, unmount | `Install` |
| lifecycle scripts, `cli/lib/scripts.js` | a list of install tasks | `storeLifecycleScripts`, `runLifecycleScripts` | `NpmFs`, `Install` |
| file lock, `fcntl` | one `flock` | lock, unlock | a step of `Bucket` and `TocFiles` |
| `utils`, `bootstrap-bin`, loggers, FUSE-T installer | | | not modelled |

### How the parts interact

An install constructs a `JsDownloader`, which restores the TOC from its two
files, then opens and locks the buckets (`NpmStore::new`). `batch_download`
splits its packages into those the TOC knows and those it must fetch. For the
latter, three tasks and two pools form a pipeline; a bucket appends a tarball
and, for every `package.json` and `binding.gyp`, opens a pipe to the entry
listener, whose one reader queues calls of a JS function that fills the
`NpmBlobManager`. A fourth task records what was stored, a fifth announces the
packages already there. At the end the CLI dumps the TOC, shuts the downloader
down (flush, unlock, wait for the listener), writes the two TOC files, builds
the image and mounts it, and registers the project with the deamon: a metadata
file, then a request. `rapid clean` goes the other way.

Messages are tokio channels, oneshots and pipes; N-API calls and promises; HTTP
over a unix socket. Shared state is behind async mutexes in one process, and
behind nothing but `flock` between processes that share the cache directory. A
release build has `panic = "abort"`: a panic in any task ends the process.

### What is hard about it, and what makes it correct

* **Pool.** A mutex is released between looking for an executor and queueing for
  one, and between giving one back and notifying. Correct: no executor is lent
  twice or lost; the queue of waiters is exactly the tasks that wait; a batch
  returns when, and only when, all its commands are over.
* **Bucket.** Offsets are computed, never read back; bytes sit in a buffer;
  calls fail or time out half-way; processes crash, and compete for the file.
  Correct: an offset in the TOC is where the payload is, always.
* **TOC.** `add_package` takes its mutex twice; the files are written one after
  the other, outside the lock. Correct: a range delimits its package's entries,
  in memory, in dumps and across runs.
* **Batch.** The first failing handler ends an attempt whose other handlers go
  on beside the next attempt. Correct: nothing is stored twice, nothing is lost,
  `Ok` means recorded, and nobody waits for ever.
* **Entries.** A channel of one and pipes of 4096 bytes join all the buckets to
  one reader. Correct: every `package.json` is with the blob manager when the
  install looks for it, whole, and the install is not blocked.
* **Archive.** The tar stream suspends anywhere; names and sparse maps come in
  members of their own; the TOC's positions are those of a counter beside the
  writer. Correct: whatever parts are read and written, an entry has its own
  name and bytes, and the TOC says where they are.
* **Image.** The offsets of a bootstrap are computed before it is written, from
  sizes that are computed again when it is; another bootstrap may be mapped
  during a look-up. Correct: a path finds what the TOC lists, a read fetches that
  file's bytes from the bucket, and nothing else is taken for an inode.
* **Install.** One lock file describes what is downloaded, what is in the image,
  what is linked and which scripts run, each derived by other code; packages are
  mounted and unmounted in parallel by commands that fail. Correct: node finds
  what the lock promises; what the commands report is so; nothing mounted is
  removed.
* **Deamon.** A restart takes long, holds the map's mutex, and races with
  deletes, kills, crashes and second deamons. Correct: what was cleaned stays
  clean; what was registered is mounted again; map and metadata agree.

## 2 The modules

The grain of an action is the code between two points where others can run: an
`await` that can block, the acquisition of a mutex, a system call another
process can see. Mutants stand next to the definition they are a variant of.

**`Pool`** has an action per mutex acquisition. A caller's loop is `phase`:
`TakeCommand`, then `GetExecutor` or `GetNothing` (`get_executor`), `WaitFree`
(`wait_free`), `Resume` (the oneshot has fired), `EndLoop` and `ReturnBatch`
(`join_executor_handlers`). A spawned task is `job`: `Execute`, `BackExecutor`,
`NotifyFree`, then `Send`, or `SendFails` when the receiver is gone. The input
of `batch_execute_with_receiver` is `Offer` and `CloseInput`, the reader of the
results `Receive` and `DropReceiver`; both belong to other tasks.
**`Lending`** is what callers rely on: a command runs at most once, on an
executor nobody else has, and a batch answers when its commands are over.
`Pool` states the refinement (`ImplementsLending`), with
`on <- held`, the commands past `BackExecutor` for `ended`, and the callers that
have returned for `answered`.

**`Bucket`** is one bucket file over several runs of several processes. A *cell*
is one part (header, payload, padding) of one entry, which is enough to tell
whether an offset is right and how much of a package has reached the file;
`BufCap` is the writer's capacity in cells. `RestoreToc`, `OpenFile`,
`FixLength` and `LockFile` are the opening in the code's order (truncation
before the lock included); `StartAdd`, `WriteHeader`, `WritePayload`,
`FlushPending`, `EndEntry`, `EndAdd` follow `do_add_package` and
`TarConcater::append`; `FailAdd` is its rollback, `TimeoutAdd` the dropped
future, `Shutdown` the flush (which may fail unseen), `TruncMap`, `WriteMap`,
`TruncIndex` and `WriteIndex` the two `fs.writeFile` of the TOC, `Crash` the end of
a process anywhere, inside these too. A file that is missing or cut is in `torn`,
and `RestoreToc` starts with nothing then, as `JsDownloader::new` does. `Calm` says
that no two runs have overlapped and no call has failed, `cut` that a run has ended
between the truncation of the first TOC file and the writing of the second.

**`TocData`** holds the TOC as data, an entry being `<<k, n>>`, the n-th of
package k, and the functions that extend and read it. **`TocIndexStore`** puts
them between mutex acquisitions, with tasks that add, readers that ask
`has_package` and later `get_package`, and dumps. **`TocFiles`** uses the same
data for the two files across runs, processes and crashes; a file that is being
written is `Torn`, a prefix without content, which does not parse, so that the
restore starts empty.

**`Downloader`** has `stage[r][k]`, where package k is in the pipeline of attempt
r; the five handlers move it, `Await...` is the caller, `RetryOrFail` its loop.
Channels are the number of packages in a stage, pools the number in `fetching`
and `storing` over all attempts. Of the pools' waiting only the part that matters
here is repeated from `Pool`: a handler that finds no executor (`FindNone`) queues
its oneshot later (`WaitFree`, now `asleep`), and who gives an executor back wakes
one that sleeps already (`GiveBack`). What a bucket or an HTTP client does with a
package is its own module's subject.

**`EntryListener`** follows a package's listed entries from the bucket
(`Send`, `Copy`, `Done`, `Fail`) or the reuse task over the channel to
`handle_new_entry` (`Take`, `Deliver`) and the JS thread (`JsTurn`, `JsEntry`).
An entry larger than a pipe (`NeedsReader`) cannot be copied to its end before
the reader has come to it. A retry may start as soon as its package has failed;
in the code it waits for the attempt, so the model has more orders than the
code. The FIFO order of thread-safe function calls and of the promise that ends
`shutdown` is that of N-API and taken as external.

**`Deamon`** composes the deamon's main loop (`Tick`, `Check`, `RestartOk`,
`RestartUnlisted` when only the listing of the new processes fails, `RestartFails`,
`EndCheck`, and `KillPids` for a mount whose processes are there but
whose directory cannot be read), its handlers (`HandleAdd` then `Insert`, or
`AddFails`, `HandleDel`, `Kill`), its life (`Launch`, `Serve`, `Exit`, `Crash`) and the
commands (`StartInstall`, `StartClean`, and one action per step that others can
see). `routes[d]` is the `RouteState` mutex; the map's mutex is held during
`checking` (`MapFree`). It is the macOS build, with one command per project at a
time. History variables say that a request was given up or refused by a deamon
about to serve (`missed`), that two deamons have run at once (`twice`), and which
projects' processes a deamon could not list when it was to add them (`unlisted`).

**`TarHeader`** is a header's fields and what their sizes lose: a name cut or
split for ustar, a link, a size in octal digits or base 256, the checksum, the
type. A path is a sequence of components with their lengths, so that limits can
be met with short paths. **`TarBuilder`** writes members of all kinds with
`append_path`'s long names, and raw ones that stand for other tools (pax
extensions, sparse files). **`TarReader`** is `Entries::poll_next` and an
entry's `poll_read` as the state that survives a `Pending` (`held`, `pos`,
`next`, `meta`) and the state that does not (`start`, `acc`): `Skip`, `ReadHeader`,
`ReadMeta` and `ReadExtension` take any number of bytes, `Suspend` ends a poll. **`TarConcat`** puts `TarConcater::append`
behind it: `BeginEntry` renames and writes the header, then cells go straight to
the bucket (`CopyDirect`) or, for a listened entry, through `AllWriter` and
`MultiWriter` to bucket and pipe, which take any part (`CopyBoth`, `FlushOne`,
`FlushTwo`), and `EndEntry` records the entry. It is what `Bucket` and `EntryListener` take as steps.

**`RafsLayout`** is the file as a map from offsets to what was written there;
reading a structure where none starts yields `Garbage`. **`Bootstrap`** follows
`build_bootstrap`: entries to nodes with lost directories and hard links, nodes
to the tree, `build_rafs` directory by directory, tables, dump. **`RafsSuper`**
mounts the result in direct or cached mode, looks up paths and numbers, reads
and prefetches, and in direct mode maps the next image between the two loads of
the mapping's state (`Update` between `PinTable` and `Wrap`). **`LayerBuilder`** is
the other builder of the package, `builder.rs`, a library interface that no binary
of the repository calls: `create` shares the parsing with `Bootstrap` and then has its
own layout (`EnterDir`, `PushChild`, `LeaveDir`), which notes the numbers of hinted
files, digests, prefetch table and dump; `apply_to_bootstrap` opens a parent image
(`OpenParent`), reads it inode by inode through the checks of `RafsSuper`
(`LoadParent`), puts the new nodes on top (`ApplyUpper`) and lays all out again.

**`NpmFs`** and **`TnpmFs`** are operators: the tarballs chosen from the lock
file (`CreateDownloadTask`), the packages known afterwards, and the map from
paths to TOC entries and links for npm's and npminstall's layout, as folds over
the lists the code iterates over. **`Install`** is the state machine around
them: `Install`, `PrepareBase`, `Download`, `InitDaemon`, `InitDeamon`,
`GenerateBootstrap`, per package `MountNydus`, `MountTmpfs`, `MountOverlay`,
then `RunScript`s and `AddProject`; `Clean`, `BeginClean` and per package
`UmountNm`, `UmountTmp`, `UmountNydusd`, `RemoveBase`. `cmd.at[p]` is where
package p's promise is. nydusd may refuse to mount an image and to give one up; the
code looks at the status of neither answer, so the command goes on, and `harm` and
`kept` remember the package. `RemoveBase` may remove a part of a directory before it
meets a mount. `outcome` is what the last command reported, and whether one has
failed since the last complete clean (`failed`). `Work` and `Leave` (somebody uses a
`node_modules`, so that it cannot be unmounted), `NydusdDies` and its restart by the
deamon are events of the machine.

The eight modules `...Proofs` hold the theorems, `MC...` the instances.

## 3 The runs

| run | question | instance |
|---|---|---|
| `pool` | Are executors, waiters and results right with two batches at one pool? | 2 executors, a batch of two from a Vec, one of one from a channel, result channels of 1 |
| `pool_return` | Does a batch with more commands than executors return? (no) | 4 commands, 2 executors, as in `http/pool.rs`'s test |
| `bucket` | Are offsets right through runs, crashes and competing processes? | 2 processes, 3 runs, 2 calls, a package of two entries and one of one, all `package.json`s listened to, a buffer of 6 cells |
| `toc_store` | Do ranges stay exact under concurrent adds, reuse and dumps? | 4 adds (one package twice, one without entries) to 2 buckets, 2 readers |
| `toc_files` | Is what a run restores consistent? | 2 processes, 3 runs, 1 crash |
| `download` | Is the outcome of a batch right although attempts overlap, and does everything end that is not parked? | 4 packages, one known, 1 retry, 1 client, 1 bucket, all faults |
| `entries` | Does every `package.json` arrive in time, and the install go on? | 2 downloaded packages (one large entry; a nested file and a gyp), 1 reused, 2 buckets, 1 retry, 2 failures in all |
| `deamon` | Do cleaned projects stay clean and registered ones come back; do kills and commands end? | 2 projects, 1 deamon, 2 commands, 1 dying mount, 2 kills or crashes |
| `tar` | Does a package come through the tar stream and the writers unchanged, under its own names? | 11 archives of 1 to 3 members, whole or cut at 6 lengths, fields of 5 and 4 bytes, a pipe of 2 |
| `tar_lost` | Does it for any suspension of the source? (no) | the same |
| `image` | Is the image what the TOC says, through every way of reading it? | 12 builds (nested, hard links, chunks, a late directory, no root entry, one image replaced by another, 5 with files hinted for prefetch or layers on a parent), 2 hosts, reads of 4 lengths at every offset |
| `install` | Is an installed project what its lock file promises, and are the commands' reports true? | 9 projects in both layouts and on both systems, with workspaces or a single mount, aliases, bundled, optional and dev dependencies; 3 commands, 1 fault |

What the properties say is stated above each in its module. Every one has a
mutant, a change of a modelled definition as a slip in the code would be,
under which TLC finds the property violated in the same instance.

**Bounds.** All are constants, named in the configurations. They are chosen so
that every action fires and each race has the actors it needs: a lost wake-up
needs one caller, one executor in use and a task giving it back; a waiters'
queue of two needs two callers; a lent executor can be confused with another
only if there are two. `Bucket` needs a run after a run after a crash (3) and a
package before the one that goes wrong (2 adds). In `TocIndexStore` two tasks
append to one bucket between the halves of a third's `add_package`, and a
package without entries makes an empty range. `Downloader`'s channel capacities
are `2 * BucketCount` and `BucketCount`, as in the code; with one bucket and
four packages they fill. One retry is enough for two attempts to overlap; more
would be the same relation between each two. In `EntryListener` one entry is
being copied, one is in the channel and one waits. Two failures are a retry that
fails again, or a failure on either side of a wait. In
`TarConcat` a component of three bytes exceeds a name field of five together with
its prefix, and sizes above three need base 256; each archive exists for one way
through builder or reader. In `MCImage` a block is 4 bytes and names have 3, 9
and 4, so that sizes are aligned in different ways; one parent of a layered build
has links and extended attributes, one shares a directory with
the layer on top, and one has no digests and is refused. In `MCInstall` three
commands are an install, what comes after it and what comes after that (a clean that
fails, say, and the next clean), and one fault may strike at any step of one. The counters of runs, calls,
failures, crashes, deaths and stops are the only limits of behaviours that could go on.

`CHECK_DEADLOCK FALSE` stands where a run of the system really ends: a batch has
returned, an install has gone on or died, an archive is read, a request is
answered, the bounded runs or commands are used up. `Deamon` is checked for
deadlock. The other type invariants are conjuncts of a property; those of `Pool`
and `TocIndexStore` are proved and not run again.

**Properties with conditions.** `OffsetsHold` and `ListenedReadable` hold while
`Calm`: section 4 says why a failed call ends that, and overlapping runs
end it because the TOC is restored before the lock and saved after it.
`SavedIsRestored` needs that no runs overlapped and that none has ended inside the
writing of the TOC (`cut`): after that a file may not parse, the next run starts
with nothing, and what it saves replaces what was there; `OffsetsHold` survives
this. `ListenedReadable` covers what
an earlier run stored and entries that an entry without listener follows,
because `io::copy` flushes the writer at the end of the latter and
`MultiWriter` keeps the flush to itself; a `package.json` that ends its tarball
can still be in the buffer of the downloader that stored it. `NothingLost`
(in `StoredOnce`) is about batches in which no download failed, `FirstTry` about
those that needed no retry; `AllEnds` does not claim the end of a batch one of whose
handlers is parked for ever beside an idle pool. `WholeUnlessTorn` is about streams no poll of which
was suspended inside a header or a long name: `tar_lost` is the other case. `PlainJob`,
at the end of `TarConcat`'s actions, is the condition of the theorems about it
and `ReadInOrder`, not of the properties: the run has an archive with a sparse file too.
`PathsResolve` is stated for TOCs that list a directory before what is in it
(`Orderly`) and for look-ups in which no image was swapped; `NeverGarbage` names
the same exceptions (both of them, for any image of the build) and a host with extended attributes on `/`, which are in the
sizes and not in the table. Images of the layered builder are `Orderly` if no file is
longer than a block and no layer has a path of the one below. `FilesPlaced`, `LinksResolve` and `OnlyFaultsFail`
exclude the projects (`NoClash`, `NotMixed`, `NoAlias`, `Plain`, and `--single-mount`
in npm's layout) for which
section 4 describes what really happens; all of them are among the instance's
projects, and their other properties are checked. `ReportsAreTrue` names what an
install may lack without knowing (the image of a package in `harm`, and node-gyp's
scripts with it), what a clean may leave (the image of one in `kept`), and says nothing of
a clean that finds nothing mounted after a command that failed; `RemovedUnmounted` has
the same exception of `kept`. `CommandsSettle` excepts a command that waits for ever
where the code has no limit (`Waits`). `RequestsAnswered` lets a build panic for a TOC
without a root, and fail for a parent whose digests are wrong, and nothing else. `FullCleanStaysClean` and `MapIsMetadata` exclude requests nobody
answered, two deamons at a time, and projects with equal names, each of which
really breaks them; `MapIsMetadata` further excepts the projects whose processes the
deamon could not list (`unlisted`).

## 4 Disagreements found

Two are runs that expect a violation, with the line they contradict in
`PROJECT.json`:

* `pool_return`: a caller that finds no executor queues its oneshot under another
  mutex; an executor given back and notified in between leaves it asleep beside
  idle executors. The test of the HTTP pool expects the batch to return.
* `tar_lost`: when the source suspends inside a header, the next poll tests only
  what it reads itself for being all zero (`archive.rs:400`). The last 167 bytes
  of most headers are, so the rest of the archive is dropped without an error and
  the package recorded without those files. The comment says a header that is
  not all zeros is another header.

The others came up while the models were written and are the reason for the
conditions above; removing the named condition shows each.

* `bucket.rs:111` (`Calm` in `OffsetsHold`): the rollback of a failed package
  truncates the file but keeps the writer's buffer; the failed bytes are written
  later, and every following offset is wrong. `stargz.rs:67` documents the offset
  as where the data is.
* `download.rs:191` (`FirstTry`'s condition): failures of handlers an attempt has
  not awaited are lost; a retry of the others returns `Ok`.
* `download_dependency.js:121` (`cut` in `SavedIsRestored`, `MaxCrashes`): the two
  writes below `FIXME atomic write`. A run that dies inside one leaves a file that
  does not parse: the next run starts with nothing and overwrites what was saved.
  One that dies between them leaves a new map and an old index, which both parse.
* `index.js:87` (`FullCleanStaysClean` is about a clean that found the mounts):
  `clean` of a project whose mount has just died finds none, says it is finished
  and leaves the project registered; the deamon mounts it again.
* `pid.rs:120` (`unlisted` in `MapIsMetadata`): `add_project` fails if the project's
  processes cannot be listed: `ps` fails, or a path, which goes into a regular
  expression unescaped, makes none. The answer is code -1, which `addProject`
  ignores; the metadata file stays, and until the next launch of the deamon nobody
  looks after the project.
* `npm_fs_builder.js:43` (`NoClash`): workspaces are told apart by `startsWith`;
  `packages/a` takes the entries of `packages/a-b` too.
* `downloader.js:113` (`NotMixed`): a tarball that an optional dependency of
  another platform shares with a valid one is not downloaded if the former comes
  last, unless it is a dev dependency and the valid one is not: only then is it passed
  over. With two dev entries the tarball is lost, and the install fails.
* `tnpm_fs_builder.js:107` (`NoAlias`): the link to an aliased package is made
  from the alias and leads nowhere. npminstall's layout also ignores a
  workspace's path and `--single-mount`.
* `fuse_mode.js:58` (`Plain`): `--single-mount` with workspaces writes one index and
  asks for one per workspace: it never installs. Without workspaces it does, in npm's
  layout with every package a `node_modules` too deep: the index says `node_modules/a`
  and is mounted at the root's `node_modules` (`npm_fs_builder.js:67`), and neither node
  nor a script finds it (`FilesPlaced` excludes single mounts, `Misplaced`).
* `index.js:40`, `fuse_mode.js:190` (`Plain`): a second install or clean takes a
  workspace for a project of its own and unmounts directories nobody has
  mounted; on Linux, where `umount` is not guarded, it fails. So does a second
  clean after one that failed half-way. A second install after a failed overlay
  mount stacks another tmpfs (`tmp >= 1` in `ReportsAreTrue`).
* `builder.rs:376` (`Orderly`): `apply_to_bootstrap` finds the place of a node with a
  trace that knows nothing of the parent's tree; a directory that both layers have
  comes out twice.
* `builder.rs:403` (`NeverGarbage`): `dump_blob` leaves a symlink without a digest, which
  the reader of a parent checks; an image with a symlink cannot be applied upon.
* `builder.rs:190` (`ReadsExact`): `need_prefetch` passes over inodes of size 0, directories
  included; a hint that is a directory is dropped, and so is every hint below it.
* `deamon.js:159` (`deamon.killed`): `registerDeamon`, when it finds another version,
  kills the nydusd the same install has started.
* `nydusd_api.js:187` (`harm`): the status of nydusd's answer to a mount is ignored,
  and an install over no image, or an older one, is reported as done. node-gyp's install
  scripts are then left out without a word, because `scripts.js:98` looks for
  `binding.gyp` in the empty `node_modules` (`MayMiss`).
* `nydusd_api.js:221` (`kept`): so is the status of its answer to an unmount: the
  project's directory is removed with its image still served, the clean reports
  success, and the next install is refused its mount point.
* `nydusd_api.js:101` (`InitDaemon`, `Waits`): a nydusd that exits with another code than 1
  counts as started; and `checkDaemon` has no limit for a socket that answers
  something other than 200.
* `index.js:87` (`failed` in `ReportsAreTrue`): a clean looks at the mounts of
  `node_modules` only. After an install that failed before these, or a clean that failed
  after them, it reports success and leaves tmpfs, nydusd's mount and the directory.
* `fuse_mode.js:250`: an `rm -rf` that meets a mount fails, but what it has removed before,
  the index or the bootstrap, is gone (`RemoveBase`).
* `index.js` runs scripts after the mounts and before registering: a script that
  fails leaves the project mounted and unknown to the deamon. The scripts of a
  workspace's own dependencies never run.

## 5 Fairness

Safety runs use no fairness. For liveness:

* `Pool.FairSpec`: weak fairness of every caller and spawned task, because the
  tokio runtime polls each task that is ready. Nothing is assumed of the reader
  of the results, which is why only executors and wake-ups are promised.
  `DrainedSpec` adds that inputs end and results are read, as in the test.
* `Downloader.FairSpec`: weak fairness of the caller and of each handler of each
  attempt. A handler that found no executor and queued its oneshot too late sleeps
  beside an idle pool (`pool_return`), and nothing wakes it: `AllEnds` says that the
  batch and what it left behind end unless that happens and lasts. A fetch ends
  because the server answers or the connection breaks (an assumption about the
  network: the client sets no timeout of its own), a store because `add_package`
  has a timeout.
* `EntryListener.FairSpec`: tasks, the reader and the event loop go on while the
  process lives. `Fail`, the timeout included, is never required.
* `TarConcat.Spec`: the builder, the reader with its writer, and the listener at
  the other end of the pipe go on. The source may suspend at every read, but not
  for ever: `gzip` over HTTP yields bytes, an end or an error at last.
* `LayerBuilder.Spec`: the builder and the one user go on.
* `Install.FairSpec`: the event loop takes some next step while one is enabled;
  which promise goes on is not promised. No fault is required. A command or script
  that was started ends (an assumption). Nothing is assumed of the download, whose
  batch may be parked for ever (`pool_return`), nor of the start of nydusd, which
  `checkDaemon` may await for ever: `Waits` are outside the fairness.
* `Deamon.FairSpec`: the loop and the commands are weakly fair; strong fairness
  where the step competes for a mutex (tokio's are FIFO), where `select!`
  chooses between the kill and the timer (it polls in random order), and for a
  restart that could succeed again and again. Launch, kill, crash, death and
  request timeouts are never required.

## 6 The proofs

All theorems are proved by TLAPS from the named assumptions on the constants
only (`PoolAssumption`, `BucketAssumption`, `TocAssumption`, `StoreAssumption`,
`FilesAssumption`, `DownloaderAssumption`, `EntryListenerAssumption`,
`DeamonAssumption`, `ListsAssumption`, `TarHeaderAssumption`, `JobsAssumption`,
`CutsAssumption`, `TarConcatAssumption`, `NoneAssumption`): that counts, lengths and
capacities are numbers, that what is a subset, a function or a sequence
is one, and that markers are not values. `ListsAssumption` also says that the list of a
project's scripts, a concatenation, is a sequence: the folds it is made of are
outside what the provers compute. The theorems hold for any number of executors,
callers, commands, processes, runs, tasks, packages, entries, buckets, retries,
projects, deamons, workspaces, scripts and faults, and for archives of any
length with any names, contents and field widths. In each module a lemma per invariant says that the initial
states have it and one that every step keeps it, action by action; TLC had found
each invariant to hold in the module's instance before it was proved.

| module | theorem | property |
|---|---|---|
| `PoolProofs` | `TypeCorrect`, `ExecutorsAreExclusive`, `WaitersAreExact`, `ReturnedBatchesAreOver`, `PoolLends` | `Typing`, `ExecutorsExact`, `WaiterQueueExact`, `ReturnedMeansOver`, `ImplementsLending` |
| `BucketProofs` | `OneWriterAlways`, `SavedAlwaysRestored`, `OffsetsAlwaysHold`, `ListenedAlwaysReadable` | `OneWriter`, `SavedIsRestored`, `OffsetsHold`, `ListenedReadable` |
| `TocProofs` | `TocIsConsistent`, `ReuseAlwaysSucceeds`, `TocOnlyGrows`, `RestoredIsConsistent` | `TocConsistent`, `ReuseSucceeds`, `OnlyGrows`, `RestoredConsistent` |
| `DownloaderProofs` | `PackagesStoredOnce`, `FirstAttemptIsWhole` | `StoredOnce`, `FirstTry` |
| `EntryListenerProofs` | `EverythingAnnounced`, `OnlyFailuresTruncate`, `NothingComesLate` | `AllAnnounced`, `WholeUnlessFailed`, `NoLateEntry` |
| `DeamonProofs` | `LivePidsAreMounts`, `CleanedStaysUnmounted`, `MapMatchesFiles` | `LiveIsMounted`, `FullCleanStaysClean`, `MapIsMetadata` |
| `InstallProofs` | `ReportsHold`, `NothingInUseIsRemoved` | `ReportsAreTrue`, `RemovedUnmounted` |
| `TarProofs` | `TocDescribesBucketHolds`, `PlainArchivesReadInOrder`, `PlainArchivesWholeUnlessTorn` | `TocDescribesBucket`, `ReadInOrder`, `WholeUnlessTorn` |

These are all the safety and action properties that the runs `pool`, `bucket`,
`toc_store`, `toc_files`, `download`, `entries`, `deamon` and `tar` check, with the one
refinement, and those of `Install` that are about its commands and not about what
a lock file says. The last two are proved for archives without sparse files.

**`PoolProofs`.** `TypeCorrect` shows `Spec => []Typing`, the type invariant
together with `RequestOpen`: a caller between taking a command and getting an
executor has a command of its own batch whose task does not exist yet, and a
command holds an executor exactly while its task is before `BackExecutor`.
Without that, nothing keeps `GetExecutor` from overwriting the executor of a
running task. On top of it `ExecutorsAreExclusive` shows
`Spec => []ExecutorsExact`: the deque has no
duplicates, is disjoint from what is lent, and both together are all executors.
The argument follows an executor from the head of the deque (`GetExecutor`) to
its end (`BackExecutor`); the other actions move none.
`WaitersAreExact` needs `SignalledParked`: a oneshot that has
fired belongs to a caller that has not resumed, so that it is in the queue no
more and cannot be woken again. `ReturnedBatchesAreOver` needs `JoinInv`: a batch
that joins has a closed input and nothing to spawn, so that no task appears after
the handlers were counted. `PoolLends` is the refinement, `Spec => ImplementsLending`:
`GetExecutor`, `BackExecutor` and `ReturnBatch` are `Begin`, `End` and `Answer`, all
other steps change nothing a caller of `Lending` sees. `Begin` needs
`ExecutorsExact` (the head of the deque is lent to nobody), `Answer` needs
`RequestOpen` (a task that is done holds no executor).

**`BucketProofs`.** `OneWriterAlways` needs `AddingNamed`: a call is in progress
exactly while its process adds. `SavedAlwaysRestored` needs `KeepInv`: without
overlap one process at most is not idle and the files hold nothing but what has been
saved (`AloneInv`); and if no run was cut while it saved either, the files are
`Whole` whenever nobody saves, and what the process at work will save contains what
was saved (`UncutInv`). Between the two writes only the map is known to be that
process' own, which is what the index is completed with. `OffsetsAlwaysHold` rests on both and on `OffsetInv`. Its `Sound` says that a
process at work knows where it is in the file: `position`, plus what the call has
`written`, is the length of the file with the buffer (`Content`); and all it has
recorded is there, but for the entry whose header is written, whose payload comes
next (`Ahead`). Appending never moves what is in place (`StaysInPlace`), a flush does
not change `Content`, and `fix_length` cuts nothing, because `position` is the
length. A failed call breaks exactly that equality, which is why `Calm` is there.
`ListenedAlwaysReadable` adds `ReadInv`: the entries a call has passed are in the
file, not in the buffer, as soon as an entry without a listener has come after
them (`Behind`). `ListenedReadable` speaks of what is in the TOC; without `Behind`
nothing is known, when `EndAdd` records the package, of what its flushes did.

**`TocProofs`, in memory.** Lemmas on the operators of `TocData` first, which both
specifications use: appending
keeps what is placed and places the new entries at the old length
(`AddTocPlaces`), recording a placed range keeps consistency
(`AddIndexConsistent`), a consistent range yields its package's entries
(`FoundIsEntries`). The inductive invariant `IInv` adds to the properties
`Pending`: between the halves of `add_package`, a task's entries are where it
remembers, whoever appended since. `TocConsistent` alone is not inductive for want
of it. `TocIsConsistent` is `Spec => [](TypeOK /\ TocConsistent)`. `ReuseAlwaysSucceeds`
adds `StillThere` (a package found stays
found) and shows that a reader told "has" gets all the entries. `TocOnlyGrows` is
the action property behind both: no step drops an entry or a package.

**`TocProofs`, on disk.** The invariant holds while no runs overlap and one process at
most has died. Then one process at most is at work (`Alone`), on a store that is
consistent (`Sound`), and the files are what the line it has reached has made of
them (`Written`). Between the two writes the map is new and the index old. What
saves a crash there is `Old`: until somebody has died, the index of the run before
is consistent with the map of this one too, because this run began with both and has
only added. After the one crash the two files may be of different runs only if one
does not parse, so that the next run starts empty; it then writes both without
dying. `RestoredConsistent` itself says nothing of the files and is far from
inductive. A second crash breaks `Old`, which is the finding about
`download_dependency.js:121`.

**`DownloaderProofs`.** A retry leaves handlers of the attempt before it running. The
invariant says what they can still hold: what an attempt has, those before it have
failed (`Retried`), attempts to come have nothing (`Begun`), reuse and download
never meet (`Reused`), a package named in the error has failed in every attempt
(`FailedInv`), and what the caller has waited for is over in the current attempt
(`Awaited`). `Tracked` is what `NothingLost` needs in between: a package is in its
bucket, or the current attempt has it, or the error names it. A handler's step is
always one of fourteen arcs between two stages (`HandlersMove`), so that one lemma
(`NextMove`) is enough for all of them.

**`EntryListenerProofs`.** The path of an entry is bucket, pipe, channel of one,
listener, call queue, JavaScript. `SentInv` says that each entry a task has passed is
on that path in its last attempt (`Underway`) or has been given to the blob
manager (`Given`); `PipeInv` that the entry a bucket copies is the one in the channel
or being read, and that only a failure cuts a pipe; `CallerInv` that
the `None` of `shutdown` is behind every entry, and the promise that ends it behind every
call. Together they give `AllAnnounced`: when the install goes on, both queues are
empty and all tasks have passed all their entries. `BrokenInv` traces a call with a
truncated file to a failed or retried package.

**`DeamonProofs`.** `LivePidsAreMounts` needs `RoutesExact` and `SnapMounted`:
`handle_add` looks for the processes before it has the map's mutex, and what it saw
must still be so when it inserts, or have been marked dead with the mount.
`CleanedStaysUnmounted` and `MapMatchesFiles` share `MetaInv`: the loop restarts only
what is in its map, whose mutex it holds (`LoopInv`); there is one deamon, at the socket
(`OneDeamon`); a command has written or removed the metadata file it says it has
(`FileInv`); and a project is in the map if it has a metadata file, except while a
command is between the two or if its processes could not be listed (`MapInv`). So the delete that `clean` has had answered
took the project out of a map no check was using, and no later launch can read it
back (`CleanInv`).

**`InstallProofs`.** `RemovedUnmounted` and `ReportsAreTrue` follow from one invariant,
with a conjunct for each phase of a command. `Unmounts` says how far `clean` is with
each package: once its node_modules has been unmounted nothing is mounted there, once
nydusd has answered it serves nothing or has refused (`kept`), when its directory is
gone the overlay is too. `Tidy` says that nothing is left while no command has failed
and no node_modules is mounted, which is what a clean that finds nothing relies on.
That one `umount` is enough is `Once`, and `Once` holds because of what the
install knows when it begins: every mount it finds is in `seen` and its package is still
ahead in the loop (`Prepares`), so that all packages are unmounted when the
mounts begin (`Fresh`). This last step uses that an image is generated for
every workspace: an install with `singleMount` that does not know the workspaces'
mounts fails there, before it could mount one twice. `Imaged` follows `mountNydus`
through its list: every package it has passed is served from this install's
image or has been refused or lost. `Ran` says that the scripts that are left are a
suffix of the list, and that what has run is the rest in its order but for
those that `MayMiss` allows (`RanGrows`, `RanSkips`), of which there are only more as
packages come to harm (`MissesMore`). nydusd's death and its restart, and whoever works in a
node_modules, touch none of this (`MachineKeeps`).

**`TarProofs`, what is appended.** `TocDescribesBucketHolds` is about any archive a
caller can ask the builder for, sparse ones included, and follows the bytes from the reader
to the bucket. `AppendInv` has four parts besides types. `Source` says what the
reader has at hand, and that the appender works on the entry being read. `Written`
is the appender in the middle of an entry: what the hasher has seen is what the file
has from `offset` on, and with what `AllWriter` still holds (`one`) it is the part
copied so far. `Told` says the same of the pipe: what the listener has heard, what is
in the pipe and what is left for it (`two`). `Recorded` says that a TOC entry
describes an entry that was read and its place in the file; appending to the file
keeps that. `TocDescribesBucket` is not inductive without `Written`: before
`EndEntry` nothing of the entry is in the TOC.

**`TarProofs`, what is read.** `PlainArchivesReadInOrder` and
`PlainArchivesWholeUnlessTorn` relate the reader to the builder, two programs that
share nothing but bytes. They are about `PlainJob`s (in `TarConcat`): no
sparse files, sizes in headers that say what follows, no `.` in a path given to
the builder (it drops them), and no extension whose path
contradicts the request it comes before. Packages as npm publishes them, with and
without pax names, and what the builder's own `append_...` calls make
are of that kind, and TLC evaluates that all archives of the `tar` instance are except the one with a sparse
file (`PlainJobsAssumption`). Nothing is assumed of where the file is cut, of
where the source suspends or of how far the builder gets.

`PlainInv` says that there are an archive F as it was built and, for each position
in it, the names T a reader has collected there. `Chain` is the archive's structure,
whatever has been read: from the first header to the end each header's own size
leads to the next, a header of an extension adds its name to what is collected
(`OfMeta`), and any other starts the next member, whose name, link and data are
what header and collected names give (`OfMember`). `Building` is the builder between two
members: a long name is written before the header whose name is cut, so T at the end
of F is what the coming header needs to be read under the path that was asked for.
The lemmas of `TarHeader`'s conversions are used here: that a name put into a
header and read from it is the same or was cut and has been written in full before, and
that a size in octal or base 256 is read back unless its setter refused it.
`Shown` says that `bytes` is F, cut or ended by two zero blocks (`Close`,
`Truncate`). `Reading` puts the reader at a position of the chain: between two headers with
the part of the next it holds (`AtHeader`), in the body of an extension (`AtMeta`),
in a member's data (`AtEntry`). `Partly` allows that names are missing from what it
has collected, because a suspended poll forgets them (`Suspend` sets `torn`);
that is all a suspension can do, and why the order holds for torn
streams and the names need `WholeUnlessTorn`'s condition. Bytes that were
consumed in a poll that suspends are in `held`, so that no position is lost. Without
`Chain` nothing relates `next`, a sum of sizes the reader has parsed, to a place
where a header was written.

The archive grows only at its end, which keeps all of the chain (`ChainGrows`);
for the reader the archive is constant. The length of a path and the digits of a
size with their weights are functions defined by recursion; what is needed of them is proved by induction over the natural numbers in the form "a
set that has 0 and successors has all of them" (`SetInduction`), which needs no
theorem with an operator for a parameter.

Checked by TLC but not proved: `RafsSuper`'s `PathsResolve`, `ReadsExact`,
`NeverGarbage` and `LayoutSound`; of `Install` `FilesPlaced`,
`LinksResolve` and `OnlyFaultsFail`, which speak of what the folds over a lock file
compute; `ReadInOrder` and `WholeUnlessTorn` for archives with sparse files;
and all liveness (fairness and `ENABLED` are outside what the prover does).
What the image modules compute is defined by recursion over the tree, with
`RECURSIVE` operators; it would take induction over data.

## 7 What is not modelled

*Across the modules*: contents of files other than by identity, formatting and
logging, owners, modes and times; errors of `flock` other than "locked".

*Downloader*: `download_pkg` for single packages and the JS `doDownloadTask` with
its joined callers and retries; digests other than that the hash is of the
payload; `BufWriter` and `DropLastWrite`, which have no user; `addBlob`.

*Tar*: `unpack` and everything below it (rapid never unpacks), `append_dir_all`,
raw entries, `ignore_zeros`, the Windows and wasm variants.

*Image*: `Tree::apply` with its whiteouts, which nothing calls; the dumping of files
into a blob, which builders of a TOC do not reach; the tree the validator prints;
`rafs/src/fs.rs` (commented out of the build), `io_stats`,
destroying and storing a super block, parsing of attribute pairs, version 4.
Within the repository only the checker reads an image; nydusd, which does it in
earnest, is built from this library elsewhere.

*Install*: npm's own generation of a missing lock file, the environment of
scripts, `list`, `getNydusMode`, `exitDaemon`, `forceExitDaemon` and `remount`,
which install and clean do not call; two projects or two commands at once;
FUSE-T. The restart of dead mounts by the deamon is in `Deamon`, with mounts as
one step. *Deamon*: the parts of a restart, nydusd's own restarts, clients that
die, workspaces, and the Linux build, where the deamon finds no pids and
restarts nothing while the project directory can be read.

`utils`, `bootstrap-bin`, loggers, mirror configuration and the FUSE-T installer
have no state of their own. Hazards without a property say so, with the reason,
in `PROJECT.json`.

## 8 The plan

What is modelled is meant to stay as it is; what could be added:

1. A client of the deamon that dies while it writes a metadata file
   (`config.rs:484`), and two projects in folders of one name
   (`fuse_mode.js:26`): both need two machines' worth of commands in one module,
   `Install` over `Deamon`.
2. `DownloadTasks`: single downloads, their joined callers and retries.
3. Buckets behind the pool of `Downloader`, so that `Lending`'s promise is what
   `Bucket` relies on.

To be proved next: the two theorems about plain archives for sparse ones, whose
members are in pieces.
