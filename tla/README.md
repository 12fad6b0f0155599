# standalone-binaries: verification

TLA+ models of the programs of this repository, the TLC runs that check them on
small instances, and theorems about them that TLAPS proves for every instance.
`PROJECT.json` lists the components, the runs, the source lines behind every
definition, the hazards of the code and the theorems.

The repository builds standalone packages with Nix, keeps their closures in a
cache in an OCI registry, and publishes them as OCI images that a small package
manager installs. Three Go programs and some GitHub workflows carry the logic:

| program | what it does |
| --- | --- |
| `cmd/binman` (`bm`) | installs and removes packages in a prefix, and links their files into it |
| `cmd/nixcache` | a Nix binary cache in a registry: push, serve, prune |
| `cmd/artifact` | turns a Nix closure into a relocatable tree and an archive |
| `.github/workflows` | discover, build, push, publish, prune |

## 1. Inventory

### bm: store, link projection, prefix lock (`cmd/binman/install.go`, `store.go`)

*State.* On disk: `store/<package>/` with its files and `.binman-meta` (digest
and link targets), symlinks from paths in the prefix into the store, and
`store/.lock`. In memory: the plan, the artifacts resolved, what was downloaded.

*Operations.* `install` resolves and reads metadata without the lock, downloads
what changed, then takes the lock (`withPrefixLock`, flock) and commits:
checks again (pass 1), unlinks and replaces each package or rewrites its metadata
(pass 2), and links the operations of the plan in order (`linkPackage`).
`remove` takes the lock, unlinks and deletes. `install.sh` bootstraps bm itself
and does not take the lock.

*Hard.* Metadata read before the lock and used after it; kills between any two
renames, links and writes; operations that fail halfway, `RemoveAll` among them;
links that packages take from each other; symlinks to directories that an older bm
projected and a new one does not. `os.Root` follows symlinks that stay in the prefix, so a symlink on the
way to a destination, of the user's or of an older bm's, takes links to other places than the plan has.

*Correct when* no link dangles or escapes the metadata; a package is what its
metadata says; a successful install leaves what the plan declares; no file or directory of the
user's, and nothing of another package's that is not in the way, is lost; every command ends.

### bm: manifest, registry client, extraction (`manifest.go`, `registry.go`, `store.go`)

*State.* None across calls. `plan` merges the manifest with the packages of the
command line; `resolve` picks the image of a platform and its single layer;
`extractTarGz` unpacks one archive and refuses entries that leave it.
*Hard.* Operations that are asked for twice, in the file and on the command line; entries of
an archive in any order, that replace or pass through what others made; links that are
harmless each and lead out together.
*Correct when* a plan has everything once and in order, packages of the command
line come last, and an archive cannot write, or point, outside its package, which is
then exactly what the archive says.

### nixcache: prune (`prune.go`, `gc.go`, `ghcr.go`, `roots.go`)

*State.* In the registry: segments (one tag and manifest each) and GC records
(tags that sort by time). In a run: tags, segments, previous record, plan, versions.

*Operations.* `pruneCache` lists, fetches (a segment that is gone is skipped),
chooses candidates by retention and by the roots that are protected, carries
waiting times over from the newest record (`gcPlan`), and `executeGC` maps tags to
versions, resolves every digest again, saves the new record, deletes the old ones
and deletes the segments whose 24 hours are over.

*Hard.* A run dies anywhere; the answer to a request is lost; a segment is pushed
while a run is under way; runners' clocks disagree. Groups and snapshots shrink from
run to run, and the roots change; two builds of a path have different references.

*Correct when* the version that is deleted waited for the whole period, as
`docs/release-model.md` 61-70 promises, and no failure makes the period shorter; the closures of the roots stay served, and
history goes only for something newer.

### nixcache: serve and frozen index (`serve.go`, `index.go`)

*State.* `segments` and `current` (path to narinfo, NAR URL to blob) under a lock;
or an index file frozen at one moment. `refresh` lists, fetches what is new, merges
and replaces both; requests read `current`.

*Hard.* Segments that vanish between listing and fetching; a conflict or a foreign
segment, which fails every refresh; a client that reads a narinfo from one index
and the NAR from the next.

*Correct when* whatever is served is backed by a segment, closures are complete, a
URL handed out stays served while its segment exists, and new segments are served
eventually.

### nixcache: push, registry requests, probe, publication

*State.* Blobs and manifests in the registry. `pushSegment` uploads blobs that are
missing, then the config, then the manifest under a fresh tag; `registryRequest`
retries; `loadTags` fetches concurrently and cancels on the first error; probe and
publication look one path or one tag up.

*Hard.* A blob found present whose last manifest a prune deletes meanwhile; an
error that arrives together with a "not found"; a request that times out and is sent
again, beside others that cancel it.
*Correct when* a failure never looks like a segment that is gone, every request ends,
and the blobs of every segment are there.

### Workflows

*State.* The two registries: segments with their blobs, tools with tags, untagged manifests and
layers; and what GitHub keeps: the run in progress, the run that waits.

*Operations.* `build.yaml` (push, schedule, dispatch), `prune-nix-cache.yaml` and
`prune-obsolete-images.yaml` share the concurrency group `nix-cache-lifecycle`, which runs one
and lets one wait; `delete-untagged-images.yaml` is outside. The discovery job freezes the index, and
asks probe and publication for each package; the jobs of the matrix build, push the
closure and then publish.

*Hard.* A run that waits is displaced by a newer one; a layer that a publication has found is
collected by a clean-up outside the group; a job fails between pushing and publishing; a package
goes back to a version whose manifest is still there without its layer.

*Correct when* a query that fails fails the discovery (`docs/release-model.md`
30-31), discovery selects what lacks something and nothing else, an image is published only when
its closure is in the cache, the frozen index can be served as long as it is used, and the tools
become those of master.

### artifact (`cmd/artifact`)

*State.* One tree in a work directory, and the archive. Sequential: copy with links resolved,
remove what nobody reads, unwrap, remove dangling links, rewrite every file by its kind (ELF, Mach-O,
text), archive.

*Hard.* The order of the passes; links through other store paths, back, and in circles; lists of files that
are made before the files change; Mach-O metadata read before and after an edit; a
program, `bm`, that reads the archive with rules of its own.

*Correct when* the archive needs nothing of the store, has every file of the package where
the package has it, and is one that `bm` accepts; a binary runs without the store, is
signed, and is otherwise unchanged.

### Packages (`packages/`, `lib/*.nix`)

Declarative; no operations to model.

## 2. Plan

| | module | what | state |
| --- | --- | --- | --- |
| 1 | `NixcacheGC`, `GracePeriod`, `NixcacheGCProofs` | the prune protocol, its promise, refinement, proofs | done |
| 2 | `BinmanStore`, `BinmanStoreProofs` | bm on one prefix, and its proofs | done |
| 3 | `NixcacheIndex`, `NixcacheIndexProofs` | live index: refresh, clients, a registry that changes; proofs | done |
| 4 | `NixcacheRetention`, `NixcacheRetentionProofs` | what a run may delete: snapshots, packages, root closures, over many runs; proofs | done |
| 5 | `Release`, `ReleaseProofs` | triggers, group, discovery, jobs, push, publication and clean-ups; proofs | done |
| 6 | `NixcacheRequests`, `Listing` | `registryRequest` and `loadTags`, what they promise, refinement; proofs in `NixcacheIndexProofs` | done |
| 7 | `FileTree`, `ArtifactTree`, `BinmanExtract`, `Delivery`, `DeliveryProofs`, `DeliveredProofs` | the passes over a package, the extraction of an archive, and the two composed; proofs | done |
| 8 | `PortableBinary`, `PortableBinaryProofs` | what happens to one file, by its kind; proofs | done |
| 9 | `BinmanPlan` | the merge of manifest and command line; proofs in `BinmanStoreProofs` | done |

`FileTree` is extended by `ArtifactTree` and `BinmanExtract`; `Delivery` extends the former and
instantiates the latter. `BinmanStoreProofs` extends `BinmanPlan` beside `BinmanStore`: the plan that one makes is what the other carries out. `NixcacheIndexProofs` extends `NixcacheRequests` beside `NixcacheIndex`: the lists that one makes are what the other refreshes from. `DeliveredProofs` extends `DeliveryProofs`. `NixcacheGC` instantiates `GracePeriod`, `NixcacheRequests` instantiates `Listing`. The
prune is split by concern: `NixcacheRetention` says which segments a run may choose, `NixcacheGC` when
they go, for any choice, and `Release` what that does to builds, for any segments a prune may delete.

Worth doing next: the bootstrap script beside `bm`; the atomic write and the validation of the index file.

## 3. Modules

### NixcacheGC: the prune run

A run is one record, `run`, whose fields are the local variables of `pruneCache`
and `executeGC`; its `pc` is where it stands. One action per registry round:
`ListTags`, `FetchSegments`, `MakePlan` (candidates, `loadGC`, `gcPlan`),
`MapVersions` (`versionsByTag` and the check that every tag is known),
`CheckDigests`, `SaveGC`, `DeleteOldRecord`, `DeleteSegment`, `Finish`. `Fail`
ends a run anywhere. `SaveGC` may store its manifest and still end in an error.
`Push` tags a new version at any moment, also during a run. A version number stands
for a manifest digest with its GHCR version: every push makes a new one.
Which of the fetched segments are candidates is left open here, so that what is shown
holds for every retention policy (see `NixcacheRetention`). `journal` and the field `wall` of a record are history.

Prune runs exclude each other in the model, because the workflow's concurrency
group does (`prune-nix-cache.yaml` 6-8).

### GracePeriod: the promise

The state is what is tagged and the verdict in force. A verdict is passed in one
step and may carry a time over only for the version it already listed; a deletion
needs a verdict that listed this version for the grace period.
`NixcacheGC!ImplementsGracePeriod` maps the verdict to the newest record in the
registry: saving a record is the step that passes the verdict, everything else a
run does is a deletion or a stutter.

### BinmanStore: install and remove on one prefix

| variable | on disk or in the program |
| --- | --- |
| `prefix[l]` | what is at path `l`: nothing, a directory, a file of the user's, a symlink of the user's with where it leads, a link to a file of a package with the number of `..` in its text |
| `store[p]` | `store/<p>`: present, the digest and targets of `.binman-meta`, the files; `alien` if something was written there that is not of the layer |
| `holder` | the flock on `store/.lock` |
| `cmd[s]` | the command process `s` runs: the locals of `install`, `commitInstall`, `remove` |
| `torn`, `astray` | history: packages whose removal was interrupted; packages with a link, or a store, that is not as planned |

| actions | code |
| --- | --- |
| `StartInstall`, `ReadMetadata`, `Stage` | `install` 21-99: resolve, read metadata without the lock, download |
| `StartRemove` | `remove` 157-171 |
| `Lock`, `Check` | `withPrefixLock`; pass 1 of `commitInstall`, and the loop that `remove` starts with |
| `NextJob`, `Unlink`, `UnlinkFails`, `Unlinked` | `unlinkPackage`, link by link |
| `BackUp`, `Put`, `PutBack` | `replaceStore`: two renames, and the first one undone |
| `WriteMetadata` | `writeMetadata` for a package that is not downloaded again |
| `RemoveSome`, `Removed` | `os.RemoveAll`, in any order and interruptible |
| `ListFiles`, `MakeDir`, `LinkFile`, `KeepLink`, `RemoveStale`, `LinkInStore`, `LinkElsewhere`, `LinkFails`, `NextOperation` | `linkPackage`, one system call at a time |
| `Unlock`, `Abort` | the return; a kill or a failing call anywhere, which also releases the flock |

`writeMetadata` writes a file beside and renames it, so it is one step. The
temporary file it may leave behind is not modelled, nor is the workspace.
An archive delivers the files of its layer (`Content`); `BinmanExtract` models how.
The registry may have any layer of a package when an install resolves it.
The constants describe a prefix: which paths lie above which, where a file lands
under a target, what the user keeps there (`Existing`, symlinks included). `StoreAssumption` says of them
that they are of the right kind, that two files of a target have two paths (`filepath.Join`), and that a plan links its own packages.
`Legacy` packages were projected by an older bm, directory symlinks included.

*Symlinks on the way.* `Place(l)` is what `os.Root` makes of a path: `l` itself, another path of the prefix, a place in the store
of a package, nowhere (it cannot be followed), or a path that is not among those of the model. `Leads` says where one symlink leads: the user's where the user
has it lead, a package's into its store, if there is a directory, and nowhere if there is a file. Every action of `linkPackage`
and `unlinkPackage` works at the place of a destination. When a link is made somewhere else than at its own destination,
`astray` remembers the package and, in a store, its owner:
`LinkFile`, `RemoveStale` and `KeepLink` at another path of the prefix (`Strays`), `LinkInStore`, `LinkElsewhere`.

Three things are coarser than the code. What is written into a store through a symlink makes it `alien`: of its files only the
names are known by then, so listing them may fail or leave any of them out (`ListFiles`, `ListFails`), and unlinking it may go on or fail (`MayBeStuck`).
Of a path that leads into a store or out of the modelled paths, `Readlink` may fail or not (`Uncertain`). And a link
in a store is not a path of the prefix: that `unlinkPackage` would remove it is not seen.

`NoOrphanLinks` and `Reconciled` are about packages that are not astray, `Complete` about packages that are neither alien nor torn:
of the others they would be false, as `Findings` shows.

### NixcacheIndex: the live index

| variable | code |
| --- | --- |
| `registry`, `blobs` | the tags and NAR blobs of the OCI repository |
| `segments`, `current` | the fields of `cacheIndex`; `current.ready` is FALSE for a nil pointer |
| `refresh` | whether the server runs, and the locals of `refresh` |
| `client` | what a Nix client got so far: a narinfo, then an answer to the request for its NAR |

`Start` listens without an index; `List`, `Load`, `Skip` and `Store` are `refresh`: the
listing, one fetch of `loadTags` each, the merge and the replacement. `Abandon` is every
error return; before the first index it ends the process, as `serveCache` does. `Skip`
covers "not found" for a segment that is gone, and for one that the registry does
not show yet (`TestCacheRefreshRetriesDisappearedTag`). `GetNarInfo`, `GetNAR` and `ReadBlob`
are `serveHTTP`; the blob is fetched after the index was read. `Push` and `Delete`
are atomic here. `Collect` is the registry's own garbage collection.
A segment is `Invalid` if `getSegment` or `refresh` refuses it (another version, another system).
A NAR URL made by `nix copy` names the file's hash, so `Conflict` arises only in
an instance that is made for it, as the one of the run is.

A kill ends the substitutions of the server's clients: `IssuedServed` is about one life
of the server. Across a restart it does not hold, since a new server may be told "not
found" for a segment it knew before.

### NixcacheRetention: what a run may delete

The constants are the segments that are ever pushed, with their fields; `Age` is the order of
`compareSegments`. `present` is the registry. A run fetches (`Start`), walks the roots
of one system after the other (`Seed`, `Visit` for each path of the worklist, `Walked`),
decides (`Plan`) and deletes (`Delete`). `KeptChoices` are the results `keptSnapshots` may have: it ranks
what comes out of a Go map with an unstable sort, so snapshots with the same time may come
in either order. The stack of the worklist is a set here: the order of paths shows only in
how long the walk takes. Which candidates have waited long enough is left open
(any subset): `NixcacheGC` decides it. The roots of a run are one of `Roots`, and may differ from run to run.

`nix copy` to an empty directory exports whole closures, so a segment has the references of its
paths (`RetentionAssumption`); the code does not check it, and `ClosureComplete` rests on it.
A segment may be pushed after one with a later time. References belong to a build of a path
(`Entries[s][p]`), since the code reads them from the narinfo of the provider.

### Release: from master to the registries

| variable | code |
| --- | --- |
| `want` | master: the version of each package, or none |
| `events`, `pending`, `run` | triggers on their way, the run that waits in the group, the run in progress |
| `phase`, `index`, `unchecked`, `selected` | discovery: the frozen index, the packages not asked about yet, the matrix |
| `job`, `todo` | each job of the matrix and the blobs it has still to push |
| `segments`, `blobs` | the cache |
| `tag`, `untagged`, `layers` | the tools: what each tag points to, manifests that lost their tag, layers |

One platform; a build is a package in a version, and its store paths are given by `Root` and `Requires`. `Commit`,
`Dispatch`, `WeeklyBuild` and `WeeklyCleanUp` are the triggers; `Queue` and `Start` the group, in which a run that waits gives
way to a newer one. `CreateIndex` is `createFrozenIndex`; `Check` asks `probeStorePath` for the roots and
`publicationReady`; `Abort` is every answer that is neither found nor missing. `NixBuild`, `PushFile`,
`PushSegment`, `PushLayer`, `PushTag` are one job; `Fail` ends a job anywhere, and only that job
(`fail-fast: false`). `PushFile` skips a blob that exists. `DeleteSegment` is a prune (any segment whose loss the roots of master survive),
`DeleteObsolete` and `EndCleanUp` are `prune-obsolete-images`, `DeleteUntagged` the workflow outside the group, at any moment.

A blob or layer goes with the last manifest that has it, at once: the registry's own delay is left out. Two
segments of the same build are one. An index or a manifest that is invalid, rather than missing or there, is not
modelled; a command that is used wrongly exits like one that found nothing, which the workflow does not provoke.

### NixcacheRequests and Listing: no short list

`Listing` is the promise of `loadTags`: one answer, a failure or the complete list without segments that have
disappeared. `NixcacheRequests` has the goroutine of each tag (`Go` under the limit, `Begin`), its two
requests with their attempts (`Succeed`, `NotFound`, `Timeout`, `Error`), the context that the first failure cancels, and
`Return`. A request that is under way when the context is cancelled may still be answered, and its answer
counts, except that `registryRequest` reports the cancellation in the place of an error. A segment may disappear at any
moment, also between the two requests. `ImplementsListing` maps `Return` to the answer and everything else but
`Disappear` to stutters.

### FileTree, ArtifactTree, BinmanExtract, Delivery: a package on its way

`FileTree` has trees of directories, files and links (`IsTree`: only directories have entries), and `Eval`, the resolution of a path
with its outcomes: found, absent, through a file, out of the tree, in a circle. `MaxWalk` bounds a walk; the instance has no longer ones but circles.

`ArtifactTree` is `normalize` and `createArchive`: `disk` is the store with the output in it, `pass` where the program is, `todo` the
list the pass made when it began. `CopyLink`, `CopyDir`, `CopyFile` are `copyNode` with its stack of active
directories; `Drop` (of the directories nobody reads, one at a time), `RemoveStatic`, `Unwrap`, `RemoveDangling`, `Rewrite` and `ArchiveEntry` the passes. The copy goes depth first in the order of
the directory, as the code does. `Drop` fails where `os.RemoveAll` does: on the way are a circle or a file, or what it leads to is in the store. What `normalizeFile` does to contents is a function, `Rewritten`, which may refuse; `PortableBinary` models it. File modes,
hard links of the store and tar headers are left out. The constants describe the stores that are considered (`TreesAssumption`):
they are trees of finitely many nodes, in which the package is a directory (if not, `copyTree` fails at once); neither a path nor a link has the name of the output in it, because that is a digest of its inputs; and
no link leads to `/nix/store` as a whole.

`BinmanExtract` is `extractTarGz`, one step per entry: directories, files, links, hard links with shared
inodes, and the check of every link at the end. `os.Root` refuses what leaves the directory (`Eval` gives "escape").
`Unpacks` says which entries bm takes where it stands, by their kind; any other is refused (`Refuse`).

`Delivery` composes them: a package is built, archived and unpacked, or an archive comes from elsewhere (`Foreign`): any sequence
of entries with names and nodes (`ArchivesAssumption`).
`Delivered` compares the installation with the package in the store, path by path through all links: the store as `normalize` leaves it,
without static libraries, wrappers and what is dropped (`Left`). `NeverRefused` says that bm takes what artifact makes. Both have the premise `Anchored`, which says
what a link that leads into the package may be: a relative one of its own, which leads there within the package, by its text and on its way through other
links (`Own`; the hook `make-symlinks-relative` of nixpkgs leaves packages like that), or an absolute one, wherever it is, if what is copied in its place
has no link in it (`Linkless`). Without it, and as the code is:
a relative link that leaves the package and comes back (`../../X/f`, or `d/l/../X/f` where `d/l` leads to `..`) is kept, because where it
ends is in the package, and leads back to the store in the copy; bm refuses the archive, in the first case by the text of the link, in the second by the look at every link; a link
in a directory of the package that is copied a second time through an absolute link means something else
there, and is removed if it dangles; and so may a relative link that goes through an absolute one.
The other premises are `Paired`, where a program was wrapped twice the wrapper in between is a file and listed after what it hides (otherwise the
inner program takes a name that is hidden itself, after that name's turn); `Wrapped`, wrappers and what they hide are files, and no link that is copied as what it leads to leads to
a wrapper, in the package or in another store path (the copy would have the wrapper alone, without the program);
`Unreserved`, nothing in the package has the name of bm's own file, or gets it (bm refuses that name); and `Shallow`, no path
is longer than the bound on a walk.

### PortableBinary: one file

`normalizeFile` on one file: `Dispatch` by magic number, then ELF (`Nuke`, `ValidateELF`), Mach-O (`Inspect`, `Edit`, `Sign`,
`Reinspect`, `ValidateMachO`) or text (`RewriteText`). Paths in a file are members of a small set (the store, libresolv of the store, relative, the
system). `info` is what the last inspection saw: it, and not the file, decides. The external tools may fail.

### BinmanPlan: the plan of an install

The groups of the file, with the group of the command line appended, are gone through one package at a time (`BeginGroup`, `TakePackage`,
`EndPlan`), as `plan` does; `Clean` and `Valid` are `cleanLinkTo` and `validatePackageName` as tables. A plan is compared with the `Mentions`
of the groups: what is asked for at each place, places in the order in which they are read.

## 4. Runs

| run | instance | shows |
| --- | --- | --- |
| `gc` | 2 tags, 3 pushes, clock to 3, runners ahead by up to 1, grace 2 | the newest record survives every failure; what was reported deleted is gone; the grace period, less the skew in real time; the refinement |
| `index` | 4 segments (2 builds of a path, one of them pushed again, a NAR under the URL of another, a refused segment), 1 client, 2 faults | `IndexMatches`, `IssuedServed`; `IndexFollows` under fairness |
| `retention` | 2 systems, 7 segments: 3 snapshots with 2 kept, a package with 4 segments of which 2 are kept, a segment without key, equal times, 2 roots files | `ClosureComplete`, `RootsServed`, `DeletedSuperseded`, `VerdictStable` |
| `store` | 2 processes, 2 packages with a file in common, 2 digests, 2 plans, 1 interruption; a prefix without packages, or with links of an older bm (one of them to a directory, on the way to a file of the other package), or a file of the user's, or symlinks of the user's (at a destination, and above one: within the prefix, out of the modelled paths, out of the prefix) | the lock; `NoOrphanLinks`, `Complete`, `Reconciled`, `OthersKept`, `UserFilesKept`; `CommandsEnd` under fairness |
| `store_astray` | a prefix with the links of an older bm, installs of the other package | **violated**: see Findings |
| `store_remove` | a package whose file is the target directory of another; 3 commands, no interruption | **violated**: see Findings |
| `delivery` | packages with up to three of some forty additions (links up, across, out and back, wrappers of wrappers, libraries, documentation); every archive of up to 3 of 17 entries from elsewhere | `CopyBounded`, `SelfContained`, `NothingHidden`, `Delivered`, `NeverRefused`, `AcceptedClosed`, `Verbatim` |
| `portable` | ELF files of every make; Mach-O files with one or two slices; classes and fat files at the number that tells them apart; both platforms | `RunsOnDarwin`, `Signed`, `DataIntact`, `Repaired` |
| `release` | 1 package, 2 versions with a library in common, 2 commits or dispatches, weekly triggers without end, 1 failure | `SegmentsIntact`, `IndexServable`, `PublishedIsCached`, `SelectsExactly`; `Converges` under fairness |
| `requests` | 4 tags, 2 at a time, 3 attempts | the limit; `ImplementsListing`; `Answers` under fairness |
| `plan` | files of up to two groups, with every kind of target and of command line | `Faithful` |
| `plan_order` | the same | **violated**: see Findings |

Bounds. `gc`: a period is reset by a third record, and the readings of a runner's clock go from 1 to 4; two tags let one deletion fail while the other takes
effect, and three versions let a tag be pushed again before and after it is planned. `store`:
two commands are enough for one to invalidate what the other read, and one
interruption for a state no complete command leaves.
The two targets have each flat and nested destinations; each outcome of `Place` occurs: a symlink above a destination leads to another path of the prefix,
into a store, to somewhere else, or out of the prefix.
`store_remove` needs three commands: one to put the link in the way, one to record
the target, one to stumble over it.
`index`: a client matters to no
other, so one is enough; a URL can be lost only by a segment that is dropped and one that is
not, in one refresh after the narinfo, and the second fault lets a lagging answer follow a restart. The first two
segments block each other; the second and third do not, so the index goes on with a newer build.
`retention`: three snapshots where two are kept, and four segments where two are kept, give every
rank a neighbour on either side; `s2` and `s3` are snapshots of one time; `r` is needed by `s2` and served from
`s3`, whose snapshot may be given up, so that only the walk protects it.
`delivery`: each addition disturbs one pass, and three of them are what it takes for a link, the
directory it goes through and the file it leads to; deeper trees repeat these. A chain out of a package needs two links
and a directory.
`release`: a version that comes back needs two commits; a displaced run needs two triggers; the properties that
several packages could disturb are proved for any number of them, and so is everything but `Converges`. A weekly run ends before the next
trigger of its kind (in the code it has a week), and a trigger reaches the group before the next trigger but a commit comes.
`requests`: with two at a time, two wait, and one starts after a failure; two attempts and a last one.
Processes and tags are symmetric where no liveness is checked.

Deadlock is checked in `gc`, `index` and `retention`. It is not in the others, where the system may stop: commands run out
in the store runs (that each of them ends is `CommandsEnd`), a package is installed or refused, a file kept or rejected, a plan made, a list returned; and in
`release`, where failures and requests are bounded.

Fairness. In `BinmanStore`, `FairSpec` asks weak fairness of `Step(self)` only: the operating system
runs a process that can go on, and gives it the flock when it is free. Nothing is
assumed of kills, of new commands or of the registry. Weak fairness suffices for
the lock because the number of commands is bounded: a process can lose the race for
it only finitely often. In `NixcacheIndex` it is weak fairness of `Refresh`: the ticker goes
on, and each request ends, by `registryTimeout` at the latest. That not every refresh fails
is the bound on faults; a segment that makes every refresh fail is an alternative in the
property (`Blocked`). Nothing is assumed about restarts. In `NixcacheRequests` it is weak fairness of
`Proceed`: every request has a deadline, so that one of its outcomes comes. Nothing is assumed of `Disappear` and `Interrupt`. In `Release`, a run that is in progress
goes on and ends (job timeouts), and triggers reach the group: weak fairness. The weekly triggers
and the start of a waiting run have strong fairness, the first because their enabling is interrupted only by the
model's bound on triggers, the second because a waiting run may be displaced by one of another kind at any time: it is
assumed that this does not happen whenever the group becomes free. Nothing is assumed of commits, failures, prunes and the untagged clean-up.

Every property has a mutant of the code's own definitions that breaks it; the mutants
stand in the modules beside the definition they change.

### Findings

`store_astray`: `linkPackage` goes to a destination through whatever symlink of the prefix is on the way (`store.go` 248, 255, 272). Where an
older bm left `sbin -> store/a/sbin` (`main_test.go` 331 makes such a prefix), an install of a package *b* with a file `sbin/x`
writes the link into the store of *a*. It dangles, since its text is relative to another directory; *a* is no longer its layer, and
listing its files fails from then on (`store.go` 214-217); and the install reports success, though `USAGE.md` 31-32 says that it links the leaf files
into the prefix. A symlink of the user's to a directory of the prefix has a similar effect, at another path. Reinstalling *a* first, which removes the old
link, avoids it.

`store_remove`: `unlinkPackage` treats any `Readlink` error but "does not exist" and
"not a symlink" as fatal (`store.go` 299). Package *b* links its file `p` at the top of the
prefix; an install of *a* with target `p` records the target and then fails on the
directory; from then on `remove a` fails with ENOTDIR before it deletes the store,
though `USAGE.md` 87 says that remove cleans up the links and deletes the store. Removing
*b* first, or deleting the link by hand, gets out of it.

`plan_order`: `plan` passes over an operation that was asked for before (`manifest.go` 81), so it keeps its first
place. With a file that links *a* and then *b* to the prefix, `bm install -f FILE a` links *a*
first, and *b* wins the files they share, though `USAGE.md` 72 says that packages of the command line
come later when files conflict. It is so only if file and command line name the same package with the same target.

## 5. Proofs

### NixcacheGCProofs

For any set of tags, grace period, skew and bounds (`GCAssumption` only says they are
numbers). `Inv` is the conjunction of the types and:

* `HistoryInv`: the records present are from the journal, which is ordered by time; the
  newest one ever saved is present; a listed version was listed by every record
  since the time it carries (`Chained`).
* `RegistryInv`: versions are unique to a tag.
* `RunInv`: what a run may rely on at each phase: that the records it listed are
  still the records, that its plan is newer than the whole history and carries
  times over only from the newest record, that a digest checked is the version mapped.
* `ReportInv`.

None of them is inductive alone. The grace period needs `Chained` of the newest
record, which a new record inherits only because the run that plans it listed that newest record
(`RunInv`), which was there because no failure loses it (`HistoryInv`), which
in turn needs that old records are deleted only after the new one is saved.
From `Inv` follow `HistoryIsKept`, `ReportedIsGone`, `GraceIsHonoured`,
`WallGraceIsHonoured` and `RunsImplementGracePeriod` (the initial state maps to an initial
state, `SaveGC` to `PassVerdict`, `DeleteSegment` to `Delete`, `Push` to `Publish`, the rest
to stutters).

### BinmanStoreProofs

For any packages, files, prefix with any symlinks in it, plans, number of processes, commands and
interruptions, from `StoreAssumption`. `Inv` adds to the types, `NoOrphanLinks` and
`Complete` three things. `Standing`: whatever stands in the prefix stands in directories, so a link that stands at its own destination is
found there again, and no symlink can come between as long as it stands. `AlienAstray`: a store that was written to has its package among
those astray. And what a command relies on at each point (`CommandInv`):

* `JobInv`: packages not yet done are as the check saw them (`Passed`); those
  done are as the plan wants them (`Ready`).
* `CurInv`: when a store is replaced or deleted, no link leads to it, or its package is astray (`NoLinks`);
  what `PutBack` would restore is complete.
* `LinkInv`: while linking, all packages of the plan are `Ready`, and the files that are left are
  files of the package.

`OthersStep` is where the lock matters: a step of one command changes the disk only
if it holds the lock, and then no other command relies on the disk. `NoLinks`
follows when unlinking is complete, because `NoOrphanLinks` says that every link is at
one of the recorded targets: this is why the metadata must name every target before the
first link is made, and the links must be gone before the metadata is.
From `Inv` follow `StoreTypes`, `LinksAreNeverOrphaned` and
`PackagesAreComplete`, and with `PrefixStep`, which says how a step may change a path,
`OthersAreKept` and `UserFilesAreKept`. `LinksAreNeverOrphaned` says nothing of a package that is astray, `PackagesAreComplete` nothing of one whose
removal was interrupted or into whose store a link was written, and `UserFilesAreKept` nothing of symlinks: there the claims
would be false.

The second half of the module is about installs that succeed, and leave what their plan declares. `RecInv` adds to `Inv`, for each command, two
facts. `JobsRec`: when the jobs are done, no link leads to a package of the plan, and each has the digest that was resolved, so whatever
links there are afterwards were made by the operations of the plan. `LinksRec`: the operations that are done hold the paths they
claim until a later one claims them (`Placed`), and links to the packages of the plan are only where an operation claims the path
(`OnlyPlanned`), if none of its packages is astray (`OnCourse`). Both need the lock (`RecOthers`): a command may undo what another has done only after that one has returned.
`InstallReconciles` follows.

The last part is about the plan. While the groups are read, `PlanningInv` says that each of the three tables lists what was asked for so far
(`ReadSoFar`). The place at hand is later than all of these, so what is asked for there is listed already or belongs at the end
(`ListsOneMore`). The code appends to `linkTo` when the *operation* is new; that this is when the target is new for its package is what the tables
say of each other. `PlanIsFaithful` follows for any file and command line (`PlanAssumption` says only that they are sequences), and
`PlanFitsTheStore`: what is planned satisfies what `StoreAssumption` says of a plan, and `LinkTo` of the store model is the table `linkTo`.

### NixcacheIndexProofs

For any cache, URLs, clients and faults. `IndexAssumption` says what `compareSegments` is: a
total order in which every set of segments has a newest one. `Inv` says that
the index is the merge of `segments` (`IndexInv`); that tagged segments have their
blobs (`RegistryInv`); that while a refresh is under way a known segment was listed or is gone
(`RefreshInv`); and that the segments a client relies on are gone or in the index until it has looked
the URL up, and that what it found is what it was issued (`SubstitutionInv`).
`FoundIsIssued` is the core: while one such segment is left, the URL leads to the very blob.
`IndexTypes`, `IndexIsMerged` and `IssuedIsServed` follow.

About `loadTags`, for any number of tags, limit and attempts: `Honest` is the core. A goroutine ends as "missing" only when its segment
is gone, because the one that sees the context cancelled ends as "failed". `Counting` bounds the attempts, and the limit is a count of
the goroutines under way (`OneMoreBusy`, `NoMoreBusy`). `LoadTypes` and `LoadImplementsListing`, the refinement of `Listing`, follow.

### NixcacheRetentionProofs

For any segments, roots and retention, from `RetentionAssumption`: the order is total and has a newest
element in each set, and segments are closed under references. `WalkInv` keeps the books of the worklist: what was
visited lacks only what is pending, and all of it has a provider. `Saved` says of a system
that the providers of its closure are protected. The closure is defined as the least set that has the cached roots and
follows references; when the worklist is empty the visited paths are such a set, hence contain it
(`ReachableWithin`, `WalkedStep`). `RunInv` carries this through the other systems, the pushes and the deletions, which are of
candidates only. `RetentionTypes`, `ClosureIsComplete` and `RootsAreServed` follow.

`History` adds to `Inv` that the registry is finite, and what a run knows while it deletes (`Verdicts`): what it kept is a choice that
`keptSnapshots` may make, and all it retains is still there. Two facts about what a run retains carry the rest. The newest
segment of a kept snapshot, and the newest of each package in it, are retained (`NewestRetained`, `NewestOfGroupRetained`), so the
snapshots rank as before (`SameSnapshots`). And of the segments of a package that are newer than a given one, fewer than
`PackageKeep` exist, or `PackageKeep` are retained (`NewestFew`), so the verdict on it is the same (`SameVerdicts`). Hence a run that fails
between two deletions changes nothing for the next one, whatever the pushes (`VerdictsAreStable`), and what is gone stays
superseded by something that is there (`DeletedIsSuperseded`).

### PortableBinaryProofs

For any files, strings in them and number of slices; `FilesAssumption` says that a thin Mach-O file has one slice, that a class has a version
of at least `MaxFatArch`, and that a package's signatures are intact. The invariant says of each step what is known of the file:
`MachOInv` is the core, because `validateMachO` decides on `info`. It says that `info` describes the file as it is by then, and that a
file which is signed again differs from the original (`EditedFrom`). `RemoveFirstIs` says what `-delete_rpath` leaves;
`EditedFileIs` that some load command has changed whenever `install_name_tool` was run, in every slice or not at all, and that a file that needs
no more than the two repairs needs nothing after them. `ShippedRunsOnDarwin`, `EditedIsSigned`, `DataStaysIntact` and
`RepairedIsShipped` follow.

### ReleaseProofs

For any packages, versions, closures and bounds; `ReleaseAssumption` says that closures are closed. `Inv` adds to the types

* `RunInv`: which phase a run of each kind is in. There is an index, or a job, only while a build runs, and segments and blobs
  are deleted only while a prune runs: this is what the group is for.
* `CacheInv`: `SegmentsIntact` and `IndexServable`.
* `JobInv`: what a job has pushed, or skipped because it exists, is among the blobs; what it is about to publish has its segment.
* `CheckInv`: what discovery found about a package is still so. The untagged clean-up cannot take a layer that the current tag has.

A push that skips a blob is sound because of `RunInv` and not because of the blob: without the group the invariant fails at once (the mutant of `SegmentsIntact`). That
asking for the roots is enough is `ServedClosed`: a segment has the closure of what it has.
`CacheIntact`, `FrozenIndexServable`, `PublicationIsCached` and `SelectionIsExact` follow.

### DeliveryProofs

For any names, packages, stores and archives (`TreesAssumption`, `ArchivesAssumption`, `ArtifactAssumption`), and any bound on a walk.

*Walks.* A resolution is a recursive function of the number of steps. `Induction` and `InductionTo` say, of a *set* of numbers, that it has
all of them if it has 0 and successors; they follow from the least element of a set, so no theorem with an operator as parameter is
needed. With them: a walk stays in the tree and ends at something that is no link (`WalkState`); along a path whose parents are directories
it is the path itself (`RealWalk`, `RealDir`, `NotThere`); it is the same in two trees that agree where it goes (`AgreeEval`, `AlikeEval`). The
hardest is `WithoutDangling`: when a link that leads nowhere is removed, every link that led somewhere still does, because a walk
that meets the first ends like it (`ReadsNothing`).

*artifact.* `BuildInv` says that the disk is a tree (`DiskInv`), and of each pass what it has left to do: while copying, that the store has not
changed, that the nodes to copy are apart from each other, and that each is being copied within as many directories as it is deep
(`CopyInv`), whence `CopyIsBounded`; while preparing, that a hidden or static name is on the list of the pass (`NameInv`); while links are
removed, that one that dangles is on the list (`LinkInv`); which contents have been rewritten (`ContentInv`). It is why
the order matters: renaming and removing files comes before links are looked at, and rewriting changes no path. `ArtifactIsSelfContained` follows.

*bm.* `PkgInv` says that what is unpacked is a tree, for entries in any order, and that inodes are of files. `AcceptedIsClosed` follows for any archive. For
`ArchiveIsVerbatim`, `Unpacked` says of the entries read so far what `Verbatim` says of all. The core is `WayIsClear`: if no name is
below something that is no directory, and none occurs twice, then only directories are on the way to an entry, so that `MkdirAll` makes the directories of the
path itself (`MkdirAllHere`), the entry goes to its own place, and nothing else changes (`UnpackStep`).

*Hidden programs.* `HidInv` adds to this, for stores that are `Paired`, that a file with a hidden name is on the list of `Unwrap` and comes after what it takes
its name from; it needs that the store never changes under the build (`StoreInv`) and that names in a directory are strictly ordered (`BeforeIsLess`,
`Siblings`). `ProgramsNotHidden` follows.

*From artifact to bm.* `OwnArchivesAreTaken` says that an archive of artifact's is not refused, in four parts.

* What the output is made of, from the copy to the archive (`FromInv`): a link of it is the link at the same place of the package, and anything else is of
  the kind the package has there, or came through a link. No name in it is bm's own (`FreeInv`).
* What the archive is (`ArchiveInv`): the output in the order of a walk through it, each path once, parents first. It is `Simple`
  (`ArchivedSimple`), the form that bm's own steps were proved about for `Verbatim`.
* The next entry fits (`NextFits`): what was read is part of the output and its parents are directories, so `MkdirAll` changes nothing, the place
  is free, and a link passes `validateSymlink`, because the package has it at the same place and `Anchored` says that its text stays inside.
* No link is broken at the end (`LinkHolds`). Three walks are taken step by step: through the package in the store, through the package's own part of it (`Own`),
  and through what is unpacked. As long as the first stays in the package the others do the same (`StepAlike`); and a link of the output did not dangle in the
  output (`LinkInv`), so what it needs on its way was not removed.

### DeliveredProofs

`PackagesAreDelivered` is that every file of a package is in the installation (`Delivered`), for any store and any package in it that is `Anchored`, `Paired` and
`Wrapped`; Section 3 has what these exclude, and of that it says nothing. The question is not only whether a path
leads somewhere, but *where*, in the store and in what is installed, over all passes. It holds whenever bm accepts; that it does is `OwnArchivesAreTaken`.

* How a path of the package gets to a node of the store (`Comes`): hop by hop, from a directory along the next name and, where that is a
  link normalize does not keep, to what it leads to. `Finds` is the last node before that link is followed. For each path there is one such node
  at most, and `copyTree` puts there what is found, or what that leads to (`Given`), or the link itself if it is kept.
* Two resolutions side by side (`PathLeads`): what a path leads to in the store, the same path leads to a copy of, in every tree that has
  what is left of the store where it belongs (`Holds`). A kept link has its text, and its text means the same in the package by itself (`Own`): that is `Anchored`. What is found in the package, through absolute links too, is either where the
  path says or has no link in it, so that nothing in it can be read differently.
  The tree may be the output or what bm unpacks, so one lemma serves both.
* What each pass has of this, as one invariant, `MeansInv`. `CopyMeans`: what is found is there, or waits to be copied, or is below what
  waits (`Met`), and nothing else is there. `DropMeans`: the same without the dropped paths, removed as they are in the store at that time (`ReadIn`). `PrepMeans`:
  each path has its own file, or by now the program that its wrapper hid (`Settled`), or is gone because its own name is hidden or static; the files
  that wait are those with such names, and come in the order of the walk. `KeptMeans`: all that is left is there, each file the program that belongs
  there (`Final`), each link that leads somewhere (`Alive`). The passes follow the code: only a pass that is done turns one into the next.
* A wrapper of a wrapper is the reason for `Settled`: the file at a path may be replaced twice, and `Paired` and `Wrapped` say that the list is read in the order
  in which that works. That dangling links can be removed one by one is `MeansDangling`, by `PathLeads` in the output: a link that leads somewhere in what is
  left of the store does so in the output, so it is not removed.
* At the end the archive is the output (`AllRead`, from the proof of `OwnArchivesAreTaken`), so bm has all that is left (`AllHas`), and `PathLeads` and
  `InstalledIs` say what it leads to. `DeliveredIs` has this for every path, and not only for those `Delivered` looks at (`Paths`).

### Only model-checked

`CommandsEnd`, `IndexFollows`, `Answers` and `Converges` are liveness, which the prover does not reach. Every safety invariant and action
property of the runs that hold is a theorem.

## 6. Not modelled

Byte formats (tar headers, narinfo, OCI manifests and their media types), file modes, transport and
credentials, parsing of flags, YAML and JSON, logging, the Nix packages. Besides:

* `install.sh` of `bm` replaces `store/binman` and one link without the lock, in a shell script for the first
  installation; beside a running `bm` it removes the package under its links, so `NoOrphanLinks` makes no promise there.
* The index file (`index.go`) is the snapshot `index` of `Release`; how it is written and validated is left out, and so is serving from it.
* A nested `.binman-meta` in an archive (only the one at the top is reserved).
* `build-binman` and `build-nixcache`, which publish the two programs, and builds of several platforms, which share nothing but the registries.
* The untagged clean-up may take a layer between the moment `oras` finds it and the tagging of its manifest; as in the code, the
  publication is then incomplete until a later run that checks, or the weekly build, repairs it (`Converges`).
* A build whose waiting run is displaced in the group is made up for by the weekly schedule, and by nothing before (`Converges`).

`PROJECT.json` states for every component what is left out.
