# ESFS in TLA+

ESFS mounts Elasticsearch indices as directories and documents as JSON files, and
routes `ls`, `find` and `grep` inside the mount to Elasticsearch queries. This
directory holds TLA+ models of it, the instances TLC checks, and theorems about the
models that TLAPS checks. `src/` stands for the repository; every module names the
files it models and `PROJECT.json` maps each definition to its lines.

Everything runs from this directory:

    tlc -workers 2 -config WritePathEditors.cfg MCWritePath.tla
    tlapm WritePath_proofs.tla

## 1. The system

| Component | Source | State it keeps | Operations |
|---|---|---|---|
| VFS write path | `internal/vfs/write.go` | per open: staging buffer, dirty flag, createOnly, OCC metadata, flushedErr | OpenWrite, WriteAt, Truncate, Flush, Release, Unlink, Rename |
| VFS reads | `internal/vfs/vfs.go` | none of its own | Stat, ReadAll, ReadAt, ReadDir, ReadDirStream, virtual files |
| FUSE adapter | `internal/fusefs/fusefs.go` | file handles, directory streams | one goroutine per kernel request: Lookup, Getattr, Setattr, Open, Create, Read, Write, Flush, Release, Unlink, Readdir |
| Documents | `internal/escore/esclient.go`, `client.go` | docCache, three metadata caches, reverse map of hashed names, request semaphore | Get, Put, Delete, MGet; Indices, IndexInfo, Mapping, FieldCaps |
| Streams | `internal/escore/search.go` | a point in time and a goroutine per stream | List, Search over openPIT, streamPIT, closePIT |
| TTL cache | `internal/escore/cache.go` | recency list, map, clock | Get, Put, Invalidate |
| Sync tracker | `internal/escore/sync.go` | last write, error, pending_docs, per index | RecordWrite, RecordError, SetPending, rendering |
| Routed commands | `internal/cmdshim/` | counters, a temporary tree | RunLs, RunFind, RunGrep, the exact fallback |
| Query planning | `internal/escore/query.go` | none | planQuery |
| Names, paths, routing | `internal/contract/`, `internal/routing/`, the reverse map in `esclient.go` | hashed names of each index | EncodeID, DecodeID, ParsePath, Resolve, rememberHashed, ResolveHashed |
| Catalog, configuration | `internal/escore/config.go`, `esclient.go` | cached catalogs | visible indices, alias write index, ForIndex |
| Profiles | `internal/profile/` | two caches of rendered text | MountProfile, IndexProfile |
| Mount lifecycle, CLI | `internal/cli/`, `internal/appctx/` | the FUSE server | mount, signals, unmount, the other commands |

How they interact. FUSE calls the VFS; the VFS calls the document client and the
streams, through interfaces that `fake.go` implements for the unit tests. All requests
of a process share one semaphore in `httpClient.do` and one HTTP timeout. All reads and
opens share `docCache`; Put and Delete change it after the server has answered. A
stream is a goroutine that hands hits over an unbuffered channel; `ReadDirStream` puts
a second goroutine behind it, and the consumer asks for the error through a callback
that waits for the producer to finish. Elasticsearch is shared with clients that know
nothing of the mount.

What is hard:

- *Concurrency on one handle.* `vfs.Handle` has no lock. A descriptor that is shared
  (dup, fork, threads) is written to while and after it is flushed.
- *Shared memory.* Flush passes a slice of its buffer to Put, which caches that slice.
- *Waiting.* Between a state read and its use lie the semaphore and the network: a
  Get that was answered before a Put may fill the cache after it.
- *Lost answers.* A PUT that timed out may have been applied, or be applied later.
  Release flushes again what the failed Flush left dirty.
- *Stale state.* An open may stage from a cache entry that other clients have outdated.
- *Names.* Ids are arbitrary texts and some look like file names. Names of long ids are
  hashes, which only the process that met the id can resolve, until it restarts.
- *Caches over caches.* A profile is cached over cached capabilities over a cached list
  of indices, all read by concurrent requests, while mappings change. `grep` plans from
  its own, and two packages decide separately what mode a search has.
- *Two goroutines and a channel per stream*: closing a directory half-read, stopping at
  a limit, failing between pages, one semaphore for streams and the reads they cause.

What makes each part correct is stated by the properties of section 3; the list of
hazards, each at its line and with the property that would catch it, is in
`PROJECT.json`.

## 2. The modules

### WritePath

Writers, readers and the cache of one index. `es` is Elasticsearch: the history of each
document, a version naming its author; a document's `_seq_no` is the length of its
history. `late` holds the write requests that the client gave up on. `cache` is
`docCache`, `hd` the `vfs.Handle` of each open, `proc` what each goroutine serving a
FUSE request is doing, `sync` the index's `SyncEvent`.

A call is split where the code waits and nowhere else:

| Code | Actions |
|---|---|
| `ESClient.Get` from Stat and ReadAll | ReadStart, EsGet, ReadFinish (a hit changes nothing) |
| `VFS.OpenWrite` | OpenHit; or OpenMiss, EsGet, OpenFinish |
| `Handle.WriteAt`, `Truncate` | WriteAt, Truncate, in place or on a new array |
| `Handle.Flush`, `Release` over `ESClient.Put` | FlushClean, FlushInvalid; or FlushStart, Send, EsWrite, FlushDone or FlushFailed |
| `VFS.Unlink` over `ESClient.Delete` | UnlinkStart, EsWrite, UnlinkDone or UnlinkFailed |
| `httpClient.do` failing, at any point | GiveUp; then perhaps EsLateWrite |
| TTL expiry and eviction | Expire |
| other clients | ExternalWrite, ExternalDelete |

`Send` is a step of its own because `do` marshals the body only after it has a slot:
until then the request's body is still the live buffer. `late` requests are applied at
most once, at any time, if their precondition then holds. Buffers hold an element of
`Body` (a JSON object, up to formatting), `Empty`, or `Broken` (bytes that are not an
object). `SharedFd` says whether a descriptor may be written to during and after a
flush; with `FALSE` a handle is used as `open; write; close` uses it. `loaded` is a
history variable: the version OpenWrite staged from.

`OccDoc` states what this amounts to for a user, without caches, buffers, requests or
retries: a document is a list of versions, and an editor may store one of its own only on
the version it saw when it opened, on its own last one, or, having seen none, where there
is none. Everybody else may change any document at any time. WritePath implements it with
`Bases` as refinement mapping (an opened handle saw what it staged, `loaded`); deletions,
late requests and other clients map to the changes of everybody else or, if they carry a
handle's save, to that editor's.

### Catalog

Names, and what the client knows of them. `es` gives each index whether it exists, its
incarnation and the versions of one document; `alias` each alias's indices and write
index; `list` is `idxCache`, `cache` is `docCache` by name, `entered` the index
directories that the kernel has looked up, `hd` and `proc` opens and calls.

| Code | Actions |
|---|---|
| `VFS.Stat` of an index, `IndexInfo`, `VisibleIndices`, `filterVisible` | Lookup; or Lookup, EsResolve, ResolveDone or ResolveFailed |
| `VFS.OpenWrite` | OpenWrite, perhaps EsResolve and ResolveDone, perhaps EsGet and GetDone |
| `ESClient.Get` under Stat and ReadAll | Read, EsGet, GetDone |
| `ESClient.Put` under Flush | Save, EsPut, SaveDone |
| `ESClient.Delete` under Unlink | Unlink, EsDelete, UnlinkDone |
| `Release`, expiry, a crash and a new mount | Release, ExpireList, ExpireDoc, Remount |
| Elasticsearch and its other users | RemoveIndex, CreateIndex (whose `_seq_no` start again), SwitchAlias, ExternalWrite |

A version that the client knows (`Ref`) is an index, an incarnation and a `_seq_no`, and
`moves` at the time: a history variable that counts how often what a name means has
changed, so that properties can say "unless the name has moved since". `on` and `via` of
a stored version say which version its save's precondition named and through which name it
came. Statuses are those that `statusError` tells apart, and a write may be applied although
its answer is lost. Where WritePath has the buffer, its flags and the write that is applied
after the client gave up, Catalog has the names; opens and saves are the same calls in
both. An alias always has an index, and primary terms stay equal.

### MountLifecycle

`esfs mount` from its configuration to its exit, `esfs doctor`, and the decision of the
shims to route. `stack` is the kernel's mounts at one mountpoint: they stack, an unmount
removes the top one unless files are open in it, and one whose process died stays and
answers ENOTCONN. `world` is the machine: the config file and what it says, the
environment, shims, directories, `/dev/fuse`, and the clusters that answer; anything in it
may change at any time.

| Code | Actions |
|---|---|
| `LoadConfig`, flags, `NewClient` in `cmdMount` | Start |
| `Ping`, `MkdirAll`, `fusefs.Mount`, `signal.Notify` | Reach, MkdirAll, Mount, Notify |
| the signal goroutine, `server.Unmount`, `server.Wait` | Handle, ServerUnmount, WaitDone |
| SIGINT or SIGTERM before and after Notify; a kill | Signal, Die |
| `esfs doctor` | RunDoctor |
| users and clients of the mount | UnmountCommand, OpenFile, CloseFile, Change |

`trust` marks a process that was started after doctor found nothing wrong, without flags,
while nothing has changed since. Doctor's listing of the indices is part of `Ping`, as both
ask the cluster.

### TTLCache and LossyMap

`ttlCache` with its list and map, each operation one action, since each holds the mutex
throughout. `LossyMap` is what its users may rely on: a map that may forget entries but
never answers with anything other than the last value put, nor after its TTL. `TTLCache`
refines it with `store <- items`. In `WritePath` the same cache appears as what a single
key of it can do: hold, be replaced, expire.

### HitStream

A stream from `streamPIT` to its consumer. `prod` is the producing goroutine, `fwd` the
forwarding one of `ReadDirStream`, `cons` the consumer, whose `kind` is a FUSE directory
(`dir`), `ReadDir`, routed `ls`/`find`, ranked `grep` (`search`) or the exact fallback.
`slots` are the slots of the semaphore. An unbuffered send is one step of both sides. A
request holds its slot from Acquire to its answer; the deferred closePIT is a request too
(ClosePIT), unless its own timeout ends while it waits for a slot (CloseTimeout: no request
is made). `pits` and `left` of a producer are history: the indices whose point in time it was
given and has not asked to be closed, and those of them where that timeout was the reason.

### Naming

A text is a sequence of tokens, a word after any number of marks: `@e=` (percent-encoded,
as EncodeID writes it), `@e~` (other spellings of the same), `@e!` (undecodable) and
`@h=` (hashed). Encoding adds a mark and decoding removes one, so that texts which look
encoded already are ordinary members of the model. Which words are long, unsafe, or
reserved are constants.

| Code | Actions |
|---|---|
| `ESClient.List` under `ReadDirStream` | ListProduce (remember), ListEmit (the kernel sees it) |
| `Stat`, `ReadAll`, `OpenWrite`, `Unlink` through `resolveDocID` | Read, OpenWrite, Unlink; then GetDone, PutDone, DeleteDone or GiveUp |
| a crash or unmount, and a new mount | Remount |
| `find`, `grep`, `esfs path` and `ls`, in processes of their own | PrintPath, PrintOperand |

`hashed` is the reverse map of the mount. `told` (a name that was printed, the document that
was meant, and by what: this mount since it started, `ls` or `find` for an operand that is a
hashed name, or anything else) and `served` (what the mount last read, stored or deleted, under
which name) are observations that the properties compare. Documents come and go at any
time: a Get finds a document or does not.

### RoutedSearch

Two processes over one Elasticsearch whose mappings change. The `grep` process resolves
its operands (ScopeDone, ScopeFailed), plans index by index in alphabetical order
(PlanDone, PlanFailed), discloses its mode and streams (Disclose, StreamIndex,
StreamEnd), or takes the exact path (ExactIndex, ExactEnd). Every exit resets `grep`, so
commands follow one another. Planning is a set of operators with the names of
`query.go`; a query is its mode, its fields and its time field.

The mount serves `profile.md` through its two client caches and that of the generator:
ReadProfile, InfoDone, CapsAnswer (Elasticsearch answers), CapsDone (the answer enters
the cache), SampleDone or SampleFails (the search for a sample asks for capabilities
again), Expire\*, Remount. `es` gives each index the capabilities that `_field_caps` may
yield: a set, because FieldCaps takes the first type of a Go map for an alias whose
indices disagree, and the empty set when the index is not open. `Remount` also stands for
the crash that unguarded writes to `Generator.idxCache` may cause.

## 3. What TLC checks

| Run | Question | Instance |
|---|---|---|
| WritePathEditors | NoSilentOverwrite, PendingDrains, ImplementsOccDoc: two editors race over a document that exists or not, other clients write, requests fail and arrive late, the cache expires | 1 document, 2 handles, 1 goroutine, 1 body, 3 versions, 1 late request; 878 thousand states. Also checked once with 2 goroutines, 3 versions, no late request and openers that all pass `O_CREAT`, 4.5 million states |
| WritePathCoherence | EditLandsOnItsBase, CacheCoherent, CleanBufferIsStored, LostEditsReported: one handle, any open flags, lost answers and late writes | 1 handle, 2 goroutines, 2 bodies, 3 versions, 1 late request; 1.2 million states |
| WritePathShared | TypeOK, ConflictsAreReal, StaleEntriesLeave: a shared descriptor that goes on being edited after and while it is saved | 1 handle, 1 goroutine, 1 body, 3 versions, 1 late request; 143 thousand states. Also checked once with 2 goroutines: without StaleEntriesLeave, 4.6 million states; all of it with a descriptor that is not shared and no late request, 238 thousand states |
| TTLCacheLRU | ListMatchesMap, Bounded, EvictsOldest, MapSpec | capacity 2, 3 keys, TTL 1, 4 ticks, 5 uses |
| NamingSessions | ShownResolves, NamesKeepMeaning, PrintedPathsComeBack, TypeOK: listings, operations by name, remounts, paths that other processes print and take back | 1 index, 6 ids (plain, one that looks encoded, long, one that looks hashed, a virtual file, `.`), 5 typed names, 1 goroutine; 47 thousand states |
| RoutedSearchChanges | ModeByPrecedence, SinceRespected, NothingPartial, ProfileTellsMode, StaleProfilesLeave, TypeOK: commands one after another and reads of profiles while mappings change | 3 configurations, 6 requests, an index and an alias, 4 fields, 3 mappings, 1 change, 1 reader; 334 thousand states |
| HitStreamUses | InOrder, CompleteOnSuccess, PitsReleased, NoneStuck, StreamsEnd: every pair of a command and a directory read | indices of 3 and 1 documents, pages of 2, limit 2, one slot; 463 thousand states |
| CatalogChanges | AllowlistHolds, SaveStaysHome, PoliciesHold, DefiniteAnswers, StaleListsLeave, TypeOK: lookups, opens, saves and deletions by name while indices and aliases change, with answers that are lost | 2 indices, one create-only and one not on the allowlist, an alias with policies of its own, 1 handle, 1 goroutine, 2 versions, 1 change; 1.2 million states |
| MountLifecycleSignals | EndedHoldsNothing, DoctorPredictsMount, DoctorPredictsRouting, IdleSignalEnds, TypeOK: mounts that stack, signals and kills at any moment, busy files, doctor before or after | 2 processes, 2 clusters, 9 machines, 2 sets of flags, 2 mounts; 270 thousand states |

Why the bounds suffice. The write path's hazards are between one stale version and newer
ones of the same document. Three versions are what an overwrite needs, the base, theirs and
yours, and what a retried save needs: the base, the save whose answer was lost, and its
repetition. The two editors of WritePathEditors share one goroutine, since what stands
between them is Elasticsearch: opens, edits, flushes and late requests of both still
alternate in any order, and only two requests under way at once are left to the other
instance; WritePathCoherence has two goroutines besides a late request. Documents do not
interact except through goroutines, which are interchangeable. Capacity 2 with 3 keys is
the least with an eviction that could choose wrongly. Three documents at two per page
are a full page followed by a short one, one document is a page that is not full, and
one slot is the tightest semaphore. The ids of NamingSessions cover each branch of EncodeID
and each collision its escape prefix exists to prevent; goroutines affect one another
only through the map. The configurations of RoutedSearchChanges and
requests let every level of precedence decide, and override a setting of each kind; one change of one index makes every
cached answer stale. In CatalogChanges a save goes wrong after one move of a name at most,
two versions in the index that an alias moves to make `_seq_no` coincide, and two in the
create-only index are one to protect and one that must not replace it. Two mounts at
one place are what one process can do to another. `MaxVersions` (in Catalog one per
index), `MaxLate`, `MaxTime`, `MaxUses`, `MaxChanges` and `MaxStack` are the only bounds in
guards. Symmetry is used on handles,
goroutines and bodies in runs of invariants; WritePathShared, which has liveness, has single
elements instead.

Fairness. `WritePath!FairSpec` has a goroutine's call go on (every request ends: the
HTTP client has a timeout, `client.go:43`) and entries expire (the default TTL is
positive); nothing forces users or other clients to act. An expired entry may come back from
an answer that is under way, so StaleEntriesLeave, like the liveness of the other caches,
says that stale values are gone for good from some time on (`<>[]`). `HitStream!FairSpec` has
runnable goroutines run (`ProdRun`), a request that waits get a slot, and the kernel release
each directory in the end, but not that it reads the directory to its end; nothing relies on
the timeout of closePIT.
`RoutedSearch!FairSpec` has reads of profiles go on and cached entries expire; no user has
to run or read anything. `Catalog!FairSpec` has requests end and the list expire, with no
obligation on users or on Elasticsearch. `MountLifecycle!FairSpec` has the signal
goroutine, `server.Unmount` and `server.Wait` scheduled once they can go on; nobody has to
signal, close files or unmount. Deadlock is checked everywhere but in HitStream, where
commands return and directories are closed for good.

### Where the code differs from what it says

Three runs are expected to fail; each counterexample is a behaviour of the code.

- **WritePathNoCreate** (`write.go:76`). An open without `O_CREAT` of a document that is
  absent, or whose Get failed for any reason, has neither metadata nor createOnly: its
  save is an unconditional PUT. README.md:186 promises that "version conflicts surface
  as errors, never silent overwrites".
- **WritePathLostEdit** (`write.go:154`). A write that arrives while Put is under way is
  marked clean by the assignment after it, and Release pushes nothing.
- **HitStreamExactCap** (`grep.go:250`). At `maxExactDocs` the loop over the channel is
  left and `lerr()` waits for a producer that waits for a receiver: `grep` hangs, with a
  point in time open.

Met while modelling and not given a run of their own. The cached Source is the staging
buffer (`esclient.go:177`): with a shared descriptor later edits show to readers before,
or without, being saved, so that CacheCoherent is about descriptors that are not shared. So is
LostEditsReported: after the trace of WritePathLostEdit, a release reports nothing, as it
finds the buffer clean. The answer to a PUT is decoded without a look at the error
(`esclient.go:176`): after a 2xx without a readable `_seq_no` the next save would carry no
precondition; the models take it that Elasticsearch always states one.
closePIT's context has a timeout of its own (`search.go:56`), which may end while the request
waits for one of the slots (`client.go:72`): the point in time then stays until its
keep_alive ends, as best effort allows (`search.go:55`), and PitsReleased excepts exactly
those. One whose opening was answered but whose answer was lost is unknown to the client,
and neither closed nor counted.
`dirStream` never calls `errf` (`fusefs.go:217`, against `docs/CONTRACTS.md:66`): a failed
listing looks complete. The upsert policy ignores the OCC metadata of existing documents
too (`esclient.go:157`, against `types.go:199`); under create-only the second save through
one handle always conflicts (`write.go:140`). Two flushes that overlap through a shared
descriptor carry the same precondition, so that the second meets a conflict of the handle's
own making, and so does a repetition after an answer that was lost (`write.go:144`);
ConflictsAreReal says that nothing else does. `pending_docs` is set to 1 and 0 by concurrent
handles instead of counted (`write.go:82`, `162`, against `sync.go:83`). The exact
fallback's exit code ignores listing errors (`grep.go:255`, against `docs/CONTRACTS.md`).
`Generator.idxCache` is an unguarded map (`profile.go:112`). A descriptor opened for reading
and writing reads as empty, since Read serves only the bytes of a read-only open
(`fusefs.go:165`), and a change of size that comes without a handle, as of `truncate(2)` by
path, is acknowledged and ignored (`fusefs.go:128`).

*Catalog.* A precondition is a pair of numbers that every index counts for itself: after
an alias moves, or an index is created anew, a stale `_seq_no` may coincide with that of
another document (README.md:186); SaveStaysHome therefore speaks of names that have not
moved. Reads of a document through an alias of several indices fail with EINVAL
(`client.go:120`) although they are listed. An alias that names a write index among
several is refused at open (`esclient.go:296`, against `docs/CONTRACTS.md:54`). Policies
are those of the name used: a create-only index can be overwritten through an alias.
What DefiniteAnswers says rests on an assumption about Elasticsearch and any gateway before
it: the statuses that `statusError` calls definite (400, 401, 403, 404, 409) mean that nothing
was done, and a PUT or DELETE is not answered by a redirect, which `client.go:99` would follow.
Under a stale list an open through an alias that now has several indices finds its Get
refused and stages an absent document, and a save to an index that is gone may create it
(README.md:189). Unlink checks no visibility of its own; AllowlistHolds shows that the
lookup before it suffices.

*Mounts.* Only the first signal is handled (`mount.go:103`, against the comment at
`mount.go:23`): if the mount is busy then, the process stays until someone unmounts. A
signal between the mount and Notify kills the process and leaves its mount, which then
answers ENOTCONN and makes each restart (`packaging/esfs.service:15`) fail at MkdirAll;
doctor looks neither for that nor for fusermount. A signal to one process may unmount
another's mount that was stacked on it. Flags of `esfs mount` are unknown to routed
commands, which may speak to another cluster; `ESFS_DELETE_SYNC` can only turn deletion
on; `write_policy` in the config's legacy form is not validated; `.sync.json` shows the
global policy also where an index overrides it; a timeout that is not positive becomes
10 s, a `cache_ttl` of 0 never expires.

*Names.* A hashed name that `find`, `grep` or `esfs path` prints is ENOENT in the mount
until the mount has listed the directory (`pathenc.go:70`, `cli/path.go:11`);
PrintedPathsComeBack therefore asks only that the path denote the same name. `ls` and
`find` of a hashed document as operand print the path of the empty id instead of that of the
operand (`lsfind.go:61`, `107`): `told` keeps the document that was meant, and
PrintedPathsComeBack excepts these lines, which do not lead back. NamesKeepMeaning includes
them: no document has the empty id, so the wrong path reaches none. Ids `.` and `..` are left as they are (`pathenc.go:45`) and
cannot be reached; the properties except them. An index called `profile.md` is hidden by
the virtual file. The fallback to the node's id in `write.go:46` is unreachable.

*Search.* Ranked hits are requested by ascending `_score` (`search.go:192`, against
`search.go:141`). The mode label is that of the last index (`search.go:181`),
and the limit applies to each index, not to the search (`search.go:111`). `--since`
with something that is no duration is ignored without a message (`grep.go:99`), and the
exact fallback ignores `--since` and `--limit` (`grep.go:220`); SinceRespected is about
ranked searches with a duration. The time field in profile.md is chosen differently
from the one `grep` accepts (`profile.go:142`, any single date field, against
`query.go:12`, four names), so that a profile may recommend a `--since` that is refused.
`ls` checks that an index is visible, `grep` and `find` of an index operand do not.
Neither configured semantic fields nor `grep_mode` are validated: with a
`grep_mode` other than the three of `docs/CONFIGURATION.md:20`, which is all the model
allows, `grep` searches lexically (`query.go:101`) and profile.md says auto
(`profile.go:261`). One index without a date field fails a
`--since` search of the whole mount. With `CacheTTL` 0 the client's caches never expire
while the profile's default to 30 s (`profile.go:44`), and stale profiles may then stay.

## 4. What is proved

For every set of documents, handles, goroutines and bodies, every policy, every set of
open flags, shared descriptors or not, and without regard to the bounds' values:

| Theorem (WritePath_proofs) | Says | Assumes |
|---|---|---|
| TypeCorrect | `Spec => []TypeOK` | |
| SeenBeforeOverwritten | `Spec => []NoSilentOverwrite` | create-only, or safe-create-update with openers that all pass `O_CREAT` or `O_EXCL` |
| EditsLandOnTheirBase | `Spec => []EditLandsOnItsBase` | safe-create-update, any flags |

The assumption of SeenBeforeOverwritten is exactly what WritePathNoCreate shows to be
needed (`node.Create` always passes Create; `node.Open` passes on what the kernel gives it); EditsLandOnTheirBase needs none on the flags.

The argument. Neither property is inductive: that a stored version overwrote nothing
unseen follows from the precondition its request carried, which was chosen when the
flush began, from metadata captured when the handle was opened or last saved, and it may
be checked by Elasticsearch after the client has given up. `IInv` therefore says where
every precondition comes from:

- `TypeInv`, the types, with what each kind of call carries;
- `Protocol`: a handle being opened has one opener, only open handles are flushed;
- `HandleInv`: an open handle's metadata names the version it was staged from or one it
  stored (`Base`), or it insists on absence; a handle not yet open has left no trace in
  `es` or `late`;
- `CallInv`, `RequestInv`: the precondition of every save under way, and of every
  request given up on, is `Justified` for its handle, and a positive answer names a
  version that handle stored;
- `SoundHistory`: the two properties, per handle and document.

What a precondition may rest on is stated over values (a handle's state, a document's
history), so that it carries over to the next state by one fact: histories only grow
(`Extends`). `GoodStep` lists what a step may do without disturbing any of this,
`GoodStepsKeepOCC` proves that, and one lemma per action shows the action to be such a
step; `HistoryGrows` is the heart: a version appended after Elasticsearch checked a
justified precondition is one the properties allow.

| Theorem (OccDoc_proofs) | Says | Assumes |
|---|---|---|
| CacheHoldsStoredVersions, CleanBuffersAreStored | `Spec => []CacheCoherent`, `[]CleanBufferIsStored` | descriptors are not shared |
| ConflictsHaveCauses | `Spec => ConflictsAreReal` | as SeenBeforeOverwritten, safe-create-update |
| LostEditsAreReported | `Spec => []LostEditsReported` | descriptors are not shared |
| PendingAlwaysDrains | `Spec => []PendingDrains` | |
| StaleVersionsAlwaysDwindle | `Spec => StaleVersionsDwindle`: the safety side of StaleEntriesLeave | |
| WritePathImplementsOccDoc | `Spec => ImplementsOccDoc`: WritePath refines OccDoc | as SeenBeforeOverwritten, safe-create-update |

On top of `IInv`, `Coherent` says under which stored version every copy of a document is
held: cache entries (`EntryInv`), answers of Gets under way (`AnswerInv`), bodies of saves
(`SaveInv`), clean buffers (`BufferInv`) and requests given up on (`LateInv`).
`CoherentStep` lists what a step may do to each, and histories that only grow do the rest.
`SyncStep` is the same for `.sync.json`, and gives DirtyAlwaysReported for any descriptors: a
handle released dirty has failed its last flush. LostEditsAreReported adds CleanBuffersAreStored
to it, for what is not dirty is stored only where descriptors are not shared. The refinement needs no invariant of its own: a
step that appends a version is allowed by NoSilentOverwrite's reason for it (`StoreAllowed`),
every other step stutters or opens.

ConflictsAreReal speaks of a step and needs an invariant of its own (ConflictsInvAlways),
per handle: as long as nobody else has changed its document, an open handle is `Ready` (what
its next save requires is what Elasticsearch has), or remembers a flush that failed, or has
a flush that is about to end; whatever of its requests was given up on is behind its
metadata. A version that is stored but not yet taken over is then the latest, so that
FlushDone makes the handle ready, and a late request can be accepted only while a failure is
remembered. A handle may be disturbed only by others, which `OthersKeepConflictInv` settles
at once for all steps of others. The assumption is needed: TLC finds a handle opened without
`O_CREAT` whose first PUT, unconditional and given up on, is applied after a later save and
makes the next one conflict, and under create-only every second save does.

| Theorem (TTLCache_proofs) | Says |
|---|---|
| ListAndMapAgree, CapacityRespected, TypeCorrect | `Spec => []ListMatchesMap`, `[]Bounded`, `[]TypeOK` |
| LRUEviction | `Spec => EvictsOldest` |
| Refinement | `Spec => MapSpec`: the cache implements `LossyMap` |

For every capacity (including the default that replaces one that is not positive), TTL
and key set. The invariant adds to these that the list is in the order of latest use;
the lemmas on the list operations (what they do to positions, distinctness and order)
carry the proof.

| Theorem (Naming_proofs) | Says |
|---|---|
| TypeCorrect, NamesAreStable | `Spec => []TypeOK`, `[]NamesKeepMeaning` |
| ShownIsReachable, PrintedIsOperand | `Spec => []ShownResolves`, `[]PrintedPathsComeBack` |
| NamesDenoteTheirDocuments | no two ids share a name, and a name in a path denotes the document it was made from, never a virtual file |

For every set of ids, typed names, indices and goroutines, under `WordAssumption` and
`TextAssumption`: an encoded name that is not too long to escape, and every hashed name,
fits in a file name, hashes do not collide, indices have valid names. The argument: what
a name may mean is a function of the name (`Means`, proved functional from EncodeID and
DecodeID alone), and every place that pairs a name with an id pairs it with its meaning:
the reverse map (`MapInv`), calls under way (`CallInv`), what was served (`ServedInv`),
what was shown (`ToldInv`, which adds that what this mount shows it remembers, as
`ListInv` says of a hit that is on its way, and that a line printed for a hashed operand has
the name of the empty id, which nothing served has). NamesDenoteTheirDocuments needs no state: it is
about EncodeID, DecodeID and ParsePath, for every text and not only for ids that documents
get. Collisions of the hash are what it leaves out.

| Theorem (RoutedSearch_proofs) | Says |
|---|---|
| TypeCorrect | `Spec => []TypeOK` |
| PrecedenceHolds, TimeLimitsHold | `Spec => []ModeByPrecedence`, `[]SinceRespected` |
| NothingPrintedEarly | `Spec => []NothingPartial` |
| ProfilesAgree | `Spec => []ProfileTellsMode` |
| StaleCapsAlwaysDescend | `Spec => StaleCapsDescend`: the safety side of StaleProfilesLeave |

For every configuration, request, mapping, set of indices, fields and readers. The
properties speak of plans and profiles that earlier states made, so the invariant records
how: a plan is `planQuery` of the capabilities it keeps (`PlannedInv`), a profile is
`Digest` of those it was made from (`ProfileInv`), and each phase of a grep has done what
comes before it (`PhaseInv`, in particular that the scope is covered by what is planned
and what is still to do). Lemmas about planning alone carry the rest: `Precedence` (the
overrides of ForIndex and Search amount to the documented order), `TextFacts`,
`SinceFacts`, and `DigestFacts` (two packages decide alike).

| Theorem (Catalog_proofs) | Says | Assumes |
|---|---|---|
| TypeCorrect, AllowlistAlwaysHolds | `Spec => []TypeOK`, `[]AllowlistHolds` | |
| StaleListsAlwaysDwindle | `Spec => StaleListsDwindle`: the safety side of StaleListsLeave | |
| SavesStayHome, AnswersAreDefinite | `Spec => []SaveStaysHome`, `[]DefiniteAnswers` | |
| PoliciesAlwaysHold | `Spec => []PoliciesHold` | openers pass `O_CREAT` or `O_EXCL` |

For every set of indices, aliases, hidden names, allowlist, overrides, handles and
goroutines. The key is `RefOK`: a version known by a name was in the one index that writes
through the name go to, or the name has moved since. Storing keeps it
(`StoringKeepsRefs`), and a change of the catalog keeps it because `moves` counts the
change (`MovingKeepsRefs`). It holds of the cache (`CacheInv`), of handles
(`HandleInv`) and of calls (`CallInv`), where a save's guard is `Justified` by the policy of
its name; `Protocol` keeps a call's handle to itself; `HistoryInv` is what the properties
say of each stored version.

| Theorem (MountLifecycle_proofs) | Says |
|---|---|
| TypeCorrect, EndedProcessesHoldNothing | `Spec => []TypeOK`, `[]EndedHoldsNothing` |
| DoctorIsRightAboutMounts, DoctorIsRightAboutRouting | `Spec => []DoctorPredictsMount`, `[]DoctorPredictsRouting` |

For any number of processes, clusters, machines, flags and mounts. `Owners`: the owner of
a mount is a process that is mounted or serving, and owns no other, which every way to
shorten the stack keeps (`ShrinkingKeepsOwners`). `Advice`: while doctor's word is good the
machine is `Healthy`, and a process that trusts it works with the configuration that
`LoadConfig` gives to everyone else.

| Theorem (HitStream_proofs) | Says |
|---|---|
| TypeCorrect, InOrderAlways | `Spec => []TypeOK`, `[]InOrder` |
| CompleteIfSuccessful, PitsAlwaysReleased | `Spec => []CompleteOnSuccess`, `[]PitsReleased` |
| NobodyWaitsForever | `Spec => []NoneStuck` |
| NobodyGoesOnForever | `Spec => StreamsWearOut`, over a tuple `Left(p)` of naturals |

For any number of streams, indices and documents, any page size, limit and semaphore.
Streams affect each other only through slots, so the invariant is one predicate of a
single stream, `Good`, over its producer, forwarder, consumer and output: `Paging` (what
`after` counts, and that a producer which stops on its own has emitted what is due),
`Handover` (nothing is between producer and consumer but the entry that the forwarder
holds), `Output` (prefixes in order; indices left behind without an error are complete) and
`Success`. `StreamStep` carries it over to all streams, and one lemma per action shows the
stream that steps to be `Good` again.

NoneStuck adds what ties the three parts of a stream together: `Links` (who has closed
which channel, who is cancelled, and what each has still to hand over, so that whenever one
of them waits the one it waits for can go on) and `SlotsAnswering` (a slot is held by a
request that is being answered and by nobody who waits for anything else: no hold and wait,
hence no circle over the semaphore). `ProdReady`, `FwdReady` and `ConsReady` are written
out as state predicates; TLC has compared them with ENABLED of the actions on the instances
of both HitStream runs. `Left(p)` counts, from the most to the least significant, the
indices and hits a stream has before it, the phases of its three parts, and the requests
that have no slot yet: every step lowers it for exactly one
stream and leaves the others' alone (StreamsWearOut, which TLC has checked on the instance
of HitStreamUses as well), so that no stream can step for ever. Together this is all of
StreamsEnd that is not about fairness: whoever is given a turn in the end, ends.

Three theorems say of the caches what NobodyGoesOnForever says of streams. A stale value can
come back after it has expired, brought by an answer that was given earlier; it is gone for
good only because nobody new comes to bring it and every bringer brings it once
(`Brings`, `Carries`). For profiles there are three places to pass through, and a value only
moves on: answers under way, the cache of capabilities, the readers that make a profile of
it, the cache of profiles (`Descends`). Each is an action property about every stale value
of every step; they need type correctness only, and TLC has checked them on the instances of
the runs of their modules (StaleCapsDescend over the capabilities that mappings mention).

Only model-checked: the liveness properties (StreamsEnd, StaleEntriesLeave,
StaleProfilesLeave, StaleListsLeave, IdleSignalEnds), since fairness and ENABLED are out of
the prover's reach. Of the first four the safety side is proved, as just said: what is left to
fairness is that whoever can take a step is given a turn, and that entries expire. Every
invariant and action property that a passing run checks is proved, under the assumptions
stated.

## 5. What is not modelled, and the plan

Left out for good: formatting and parsing of JSON, profile text, HTTP and TLS details,
inode attributes, Docker and packaging. `fake.go` replaces Elasticsearch in unit tests
and is not part of the program.

Further out: `MGet` (no caller in the mount), the rendering of `.sync.json`, `.mapping.json`
and `.fields.json`, argument parsing of `ls` and `find`, the commands of `internal/cli` that
only print, and writing configuration files. The root directory is a list that one
request answers, of the names that Catalog's Lookup admits; listing it adds no state, and
the mount's own `profile.md` is cached like those of RoutedSearch over the list of Catalog.
PIT ids are one per stream in HitStream: `closePIT` is called with the id it was given when
the point in time was opened (`search.go:69`), which matters only if Elasticsearch stops
accepting an id that it has refreshed. Scores are not modelled, an order is that of the sort
keys.

What could follow, in the order of weight:

1. Composing Catalog with WritePath's late requests: a write that is applied after its
   alias has moved.
2. A HitStream whose point in time expires between pages (`keep_alive`) and whose PIT ids
   change.
3. The mount's `profile.md` and root listing in RoutedSearch; operands of `ls` and `find`.
