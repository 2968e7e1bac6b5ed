# Formal model of the au engine

TLA+ specifications of the au engine (`src/crates/*`, Rust), checked with TLC on
small instances; most of their safety properties are proved with TLAPS for every
value of the constants (section 12). The engine is a daemon that keeps a *knowledge
base* (typed markdown notes, type definitions, assets, spread over several git
repositories) built and current in memory while editors, git and its own
mutation channel change the files underneath it.

Sources are cited as `file:line`; `engine.rs`, `build.rs`, `incremental.rs`,
`serve.rs`, `gitwriter.rs` and the other unqualified names are in
`src/crates/au-engine/src/`.

## 1. Inventory

| component | source | state | operations | hard because | modelled in |
|---|---|---|---|---|---|
| Held state and rebuilds | `engine.rs` `Inner`, `build.rs` | `Held {kb, fingerprint, version, engine_state, ref_state}`, `rebuild_lock`, `version_tx` | `rebuild_locked`, `rebuild_paths_locked`, `try_incremental_fast_path`, `splice_until_settled`, the two no-op gates, the commits | every file is read at its own instant while others write; three paths to a commit, each with its own idea of what the fingerprint means | `Engine` |
| Watcher | `engine.rs` `watch_loop`, `accumulate_event` | the burst, `pending_reconcile` | receive, quiesce, idle reconcile, rescan | events are merged, delayed, replaced by a rescan flag, lost | `Engine` |
| Mutation pipeline | `serve.rs` `handle_mutation` | `write_lock` | write, synchronous `rebuild_paths`, answer | its rebuild races the watcher's and the world's | `Engine`, in part |
| Saga | `serve.rs` 3303-3782, `gitwriter.rs` | intent marker, failure sentinels, the working tree and history of each git member | clean check, marker, write, commit per member, compensate, recover on start | all-or-nothing over several repositories, with crashes at any step and foreign commits in between | `Saga` |
| Subscriptions | `serve.rs` `run_subscription` and the `run_*` loops | the last projection reported, the version receiver | ack, gate, snapshot, wait, delta | wake-ups coalesce and come after the state they announce | `Subscriptions`, `Deltas` |
| Commit stream | `gitwatch.rs`, `serve.rs` `run_recent_commits` | reference counts per tree, the caches of a task | arm, seed, re-log, disarm | overlapping subscriptions, arms that fail, events that overflow | `GitWatch`, `CommitStream` |
| Daemon lifecycle | `au-cli/src/daemon.rs`, `serve.rs` bind and teardown | pid file, socket | start, stop, force, status | no lock: what a command read is stale when it acts | `Daemon` |
| Package cache, dependency lock | `pkgcache.rs`, `serve.rs` `handle_resolve` | snapshots, a lock file per editable repo | ensure, solve, write, commit, reopen offline | engines share the cache; the steps of several writes fail one by one | `PackageCache`, `Resolve` |
| Incremental recompute | `incremental.rs` `recompute_dirty`, `apply_recompute` | the indices of a knowledge base | splice of entries, edges, diagnostics | the spliced indices must be those of a whole build | `Incremental` |
| Type closure, provenance, load checks | `au-core` `canonical.rs`, `closure_id.rs`, `closure.rs`, `location_check.rs`, `resolution.rs`, `load_checks.rs`; `resolution_build.rs` | none | hash identities, fold peers' types, effective shapes, report circular parents | circular references, one map serving own and peer types | `TypeIds`, `TypeFold`, `LoadChecks`, in part |
| Refactoring verbs | `serve.rs` 4133-5558, `rename.rs`, `promote.rs`, `inline.rs`, `typerefs.rs` | none of their own | rename, rename type, promote, inline, rename block id | places come from the held parse, bytes from the disk; ids collide and move | `Refactor`, in part |
| Preview | `engine.rs` `preview`, `overlay.rs` | an overlay over the disk | build over the held parses | the disk and the held state both move | no |
| Registry, workspace | `repo.rs`, `pathset.rs` | repositories and their members | membership | pure; enters through the fingerprint | as inputs of `Engine` and `Resolve` |
| Validation, grammar, parser, graph reads, wire format, diagnostics, CLI | `au-core`, `au-parser`, `au-grammar`, `au-diagnostics`, `au-cli`, `wire.rs` | none | functions of one immutable input | size, not interleaving | no (section 13), but for what a splice must know of them |

How they interact. `au daemon start` probes for another daemon, writes its pid
file, watches, recovers interrupted sagas, builds once, then binds and serves.
The watcher thread and the blocking task of a mutation both call the rebuild
functions; `rebuild_lock` serializes them, the `held` lock guards the swap, and
`version_tx` (a watch channel) wakes subscriptions after the swap. A scoped
rebuild tries the splice of `incremental.rs` first and falls back to a build,
which folds the type graphs anew. A mutation holds `write_lock` from its clean
check to its answer, plans its writes from the held state (a refactoring reads
backlinks there), runs them inside a saga, then rebuilds exactly the paths it
wrote. A resolve fills the cache, writes and commits the locks, and rebuilds;
what is mounted is read back from the locks. Commit streams live off reflog
watches and not off versions.

What makes each correct:

- **Engine**: once the world is quiet the held knowledge base is what a build of
  the disk would give; no rebuild overwrites a state it did not start from; the
  no-op gate never hides a difference; a mutation's answer shows the mutation;
  an excluded file never enters; versions are broadcast in order and none
  without a change.
- **Saga**: a mutation is in all trees or in none; what recovery undoes is
  exactly what was not answered as done; what it cannot undo is left flagged.
- **Subscriptions, commit streams**: the frames of a client add up to the state
  at their version; no commit falls between the seed and the stream.
- **Daemon**: one at a time, recorded while it lives, reachable while it serves.
- **Cache and locks**: a snapshot is complete; a lock suffices to open its repo
  alone; what is mounted is consistent.
- **Incremental**: a spliced knowledge base equals a built one.
- **Types**: identities are those of the flattened closures; importing a peer
  changes nothing for own claims and hides no divergence; a repository with
  circular parents validates nothing.
- **Refactorings**: references lead where they led; what people wrote is kept.

The hazards, each at its line with the properties that cover it, are listed in
`PROJECT.json`.

## 2. Plan

| step | modules | state |
|---|---|---|
| 1 | `Engine`, `MCEngine`, `MCConverge`, `EngineProofs` | done (section 3) |
| 2 | `Saga`, `AtomicMutation`, `MCSaga`, `SagaProofs` | done (section 4) |
| 3 | `Deltas`, `Subscriptions`, `MCSubscriptions`, `SubscriptionsProofs` | done (section 5) |
| 4 | `GitWatch`, `CommitStream`, `MCCommitStream`, `CommitStreamProofs` | done (section 6) |
| 5 | `Daemon`, `MCDaemon`, `DaemonProofs` | done (section 7) |
| 6 | `PackageCache`, `Resolve`, `MCResolve`, `ResolveProofs` | done (section 8) |
| 7 | `Incremental`, `MCIncremental`, `IncrementalProofs` | done (section 9) |
| 8 | `TypeIds`, `TypeFold`, `MCTypeFold` | done but for brands, metas and abstract types (section 10) |
| 9 | `Refactor`, `MCRefactor`, `RefactorProofs` | done but for the record edits and the riders (section 11) |
| 10 | `LoadChecks`: the walks for circular parents, redundant claims | done; `check_sealed_reachability`, `check_field_redeclaration` and the checks of one definition are not modelled |
| 11 | theorems of the engine, the saga, the subscriptions, the commit streams, the daemon, the resolve, the incremental recompute and the refactorings | done (sections 3 to 9 and 11) |
| 12 | theorems left: the type modules, once their folds are written without recursive operators | to do |

`TypeIds` and what uses it declare recursive operators, and stay with TLC.

Composition: `Resolve` extends `PackageCache`, `CommitStream` extends `GitWatch`,
`Subscriptions` extends `Deltas`, `TypeFold` extends `TypeIds` and `LoadChecks`
extends it; `Saga` implements `AtomicMutation`, whose one step is what `Refactor`
takes a commit or a rollback to be; `Engine` abstracts from a knowledge base what
`Incremental` holds in detail, and `Subscriptions` takes from `Engine` the one
fact it needs, that versions are published in order in two steps
(`VersionsAreBroadcastInOrder`).

### Runs

All finish within minutes with two workers. `CHECK_DEADLOCK FALSE`, where a
configuration says it: when the bounded environment has stopped there is nothing
left to do.

| run | module | distinct states | checks |
|---|---|---|---|
| `delete` | `MCEngine` | 4.9 million | `TypeOK`, `GateSound`, `QuietFullRebuildCatchesContent`, `NoLostSwap`, `BroadcastInOrder` |
| `converge` | `MCConverge` | 770,000 | `EveryUseConverges`, `MutationReflected`, `IgnoredStaysOut`, `NoPhantomVersion` |
| `saga` | `MCSaga` | 850,000 | `AllOrNothing`, `AnswersAreTrue`, `HumanWorkKept`, `ImplementsAtomic` |
| `saga_faults` | `MCSaga` | 960,000 | `MarkerCoversWork`, `SagasSettle` |
| `subscriptions` | `MCSubscriptions` | 900,000 | `FramesAddUp`, `ClientsCatchUp` |
| `commits` | `MCCommitStream` | 1.05 million | `RefsBalance`, `WindowCovered`, `AppearOnce`, `CommitsReachClients` |
| `daemon` | `MCDaemon` | 522,000 | `OneDaemon`, `ServerReachable`, `StatusTruthful`, `ForceStops` |
| `resolve` | `MCResolve` | 244,000 | `SnapshotsWhole`, `NoTwoOfOne`, `LocksSelfSufficient`, `ResolvedIsMounted`, `CommitsWholeSolve`, `ResolveEnds` |
| `incremental` | `MCIncremental` | 1,728 | `DiagnosticsAgree`, `IndicesAgree` |
| `incremental_prose` | `MCIncremental` | up to the violation | `DiagnosticsAgree` is violated |
| `types` | `MCTypeFold` | 410,000 | `IdsMatchSignatures`, `FoldIsClosure`, `OwnClaimsAgree`, `DivergenceKept`, `CirclesReported` |
| `refactor` | `MCRefactor` | 586,000 | `LinksFollow`, `EditsKept` |

Each property has a mutant in `PROJECT.json`: an operator beside the one it
replaces, with a bug that code could have, which makes the property fail under
the same configuration.

## 3. Engine

### State and code

| variable | code |
|---|---|
| `disk`, `ignored` | the files of the workspace, and the set the `.arsumbris/.auignore` excludes |
| `inbox` | events raised by the notification backend and not received by `watch_loop` |
| `kb`, `fp`, `version` | `Held`; a knowledge base is abstracted to its catalog, the recorded content of each path |
| `tx` | the value last sent on `version_tx` |
| `lock` | `rebuild_lock` |
| `stage[t]`, `full[t]`, `dirty[t]` | where thread `t` (watcher, writer) is, and its `RebuildScope` |
| `snap`, `todo`, `acc`, `built`, `base` | the locals of the rebuild functions: the first fingerprint, the walk left, what it read, the build not yet swapped in, the version the snapshot was taken at |
| `passes`, `settles` | the loop counters bounded by `MAX_PASSES` and `MAX_SETTLE_PASSES` |
| `burst`, `armed` | the locals of `watch_loop` |
| `writes`, `touches` | bounds on the environment |
| `seen`, `quiet`, `mutation` | history, read by properties (and `seen` by the bound that forbids returns) |

A file is one of a small set of contents, absent, unreadable, or larger than the
read cap. A catalog or fingerprint entry is `noEntry` (no key), `unread` (a key
with no hash), a content, or the hash of a length. These are the values the
code's comparisons tell apart: `fingerprint` hashes an oversize file's length,
`path_changed` its bytes, and a build records no hash for it; a failed read and
an absent key are both `None` to `path_changed`.

Every read of a file is a step. `Walk` fixes the set of paths, then
`ReadForFingerprint`, `ReadForBuild` or `ReadDirty` reads one path at a time, in
any order, and the environment can act between any two. The order the code
prescribes between lock, gate, splice, build, confirm, swap and broadcast is
kept by `stage`:

    want -> fingerprint -> (Diff) -> splice -> recompute -> send -> settle -> done
                                  -> build -> confirm -> send -> done      (Full)
    want -> filter -> splice -> recompute -> send -> done                  (Paths)
                             -> gate -> build -> send -> done

with the early returns, the declined splice, the retries of `rebuild_locked` and
the fall from a failed scoped build to the full one. `recompute_dirty` may
decline for reasons in the indices that the catalog does not show; this is the
nondeterministic action `RecomputeDeclines`.

The environment (`ExternalWrite`, `RemoveDirectory`, `EditIgnores`, `Touch`,
`Overflow`, `FlagRescan`, `LoseEvent`) is the file system and the `notify`
backend. It has no code in the repository; it is modelled from what
`accumulate_event` and the comments of `watch_loop` handle, and marked external.

### Runs

`delete`: a note to begin with and a definition to come, in one directory; two
writes from outside (contents, absent, unreadable, oversize), a mutation, a
registration, a rescan, one event lost while another is queued, failing walks
and builds, the idle reconcile. Two contents, `MaxPasses` and `MaxSettle` 2.

`converge` runs five instances of `Engine`, each a way the daemon is used, chosen
by the variable `use`:

| use | what varies | checked of it |
|---|---|---|
| `watch` | two files in one directory; edits, creations, deletions, a directory removed with one event, overflow; nothing lost, no reconcile | converges, but for entries without content |
| `lossy` | an event may be lost while another is queued; idle reconcile on | converges |
| `channel` | the mutation channel is the only writer, any event may be lost, no reconcile; a note and an asset | converges; each answer is given from exactly what is on disk |
| `mixed` | the mutation channel beside external writes, any event lost, a note the `.auignore` excludes | answers show their mutation, the excluded file never enters |
| `rescope` | the `.auignore` rewritten by `set_ignores` and by an editor, reconcile on | converges |

Bounds. `MaxWrites` is 2 or 3: one change lands before and one inside a rebuild,
and a third gives the rebuild that repairs it something to race; `MaxPasses` and
`MaxSettle` are 2, so that the loops both succeed on a retry and give up. Two
files give a dirty set its one essential distinction, a path the splice may
handle beside one (a type definition) that needs the build; files do not
otherwise interact. Each content is used once per file unless `CanReturn` is TRUE.

Returns are the one assumption the runs rest on: the code compares contents, so a
file that leaves a content and returns to it inside one build is not seen to have
moved. With `CanReturn` FALSE convergence holds. For an asset, known by presence
only, a deletion followed by a creation is already a return, which is why the
uses that lose events from outside the channel have none. `ContentBlind` names
the other blind spot: an entry without content of a file that is gone, which
`path_changed` cannot tell from no entry. `Vouched` is the same hole in the
fingerprint: `recorded_content` (`engine.rs:259-292`) is `None` for a file that
was gone when the walk came to read it and for one that could not be read, so two
such records agree though the build may have read a content in between; three
writes suffice (gone, a content, unreadable), as they do to take an asset away
and bring it back. `GateSound` and `QuietFullRebuildCatchesContent` say nothing of
a file recorded without a hash, or that has none now. `GateSound` and
`QuietFullRebuildCatchesContent` are not checked while the `.auignore` is
rewritten, where the held view is behind until the file's own event is handled;
`NoPhantomVersion` is not checked with unreadable files, and fails there.

### Fairness

`FairSpec` adds weak fairness of `Watcher` and `Writer` only: the two threads of
the process keep running when they can. An event that is raised is received
unless `LoseEvent` takes it. Nothing forces the environment or a client to act,
and the environment's bounds make it stop, which is the premise of convergence
("once the world is quiet").

### Observations

- `updated_fingerprint`'s doc (`engine.rs:317`) says "Non-dirty entries are
  unchanged by assumption, so the stored fingerprint stays consistent with the
  next full-rebuild no-op gate". A scoped build walks everything but updates the
  fingerprint of dirty paths only: a file created after the burst and deleted
  before its own event is handled stays in the knowledge base with no
  fingerprint entry, which is exactly what its absence looks like to the gate
  (with `CanReturn`).
- A first comment of `watch_loop` (`engine.rs:407`) calls the idle reconcile
  periodic and names a lost event with no delivered sibling; the code arms it by
  activity (`engine.rs:467`, as a second comment there says), so that case is
  not repaired until something else happens. `lossy` therefore loses an event
  only while another is queued.
- `acquire_parse` reads a file it cannot reuse without comparing the bytes with
  the fingerprint (`build.rs:2674`), so a file that changes and changes back
  inside a full build is committed under the hash of what it had before and after.
- A rescan that stands for an `.auignore` edit does not rebuild: the fingerprint
  does not hold that file.
- A note edited while excluded and then included again, while the scoped build of
  the first `.auignore` event is between its filter and its walk, keeps its old
  content until the next reconcile; hence the reconcile in `rescope`.
- A file recorded as unreadable and then deleted keeps its entry.

### Proofs (`EngineProofs`)

All are for every value of the constants allowed by `ConstantsAssumption` and by the
hypotheses the table names, any number of files, writes and passes.

| theorem | statement |
|---|---|
| `TypeCorrect` | `Spec => []TypeOK` |
| `RebuildsAreSerial` | `Spec => []SerialRebuilds` |
| `SwapsAreNeverLost` | `Spec => NoLostSwap` |
| `VersionsAreBroadcastInOrder` | `Spec => BroadcastInOrder` |
| `ExcludedFilesStayOut` | with `Rescopes = {}`, `Spec => []IgnoredStaysOut` |
| `GateIsSound` | with `Rescopes = {}` and `CanReturn = FALSE`, `Spec => []GateSound` |
| `QuietRebuildsCatchUp` | under the same assumptions, `Spec => []QuietFullRebuildCatchesContent` |
| `MutationsAreReflected` | with `CanFail = FALSE` and `Readable` too, `Spec => [](mutation.file \notin Assets => MutationReflected)` |
| `VersionsAreForSomething` | with `Rescopes = {}`, `CanReturn = FALSE`, `Assets = {}` and `Readable`, `Spec => NoPhantomVersion` |
| `ChannelLeavesCurrent` | with `ChannelAlone` (the channel is the only writer, files can be read, builds succeed), `Spec => []WriterLeavesCurrent` |

`NoLostSwap` and `BroadcastInOrder` are action properties and are not inductive
by themselves: why a swap builds on what it replaces is that a working thread
holds the lock, that its `base` is the held version from the snapshot on, and
that all versions but the one its holder has just swapped in have been sent.
That is `SerialRebuilds`, proved inductive together with `TypeOK`; both action
properties follow from it step by step. `ExcludedFilesStayOut` needs
`ScopeKept`: a set of paths that passed the filter, a walk for a build, and what
a build has read all exclude `ignored`, on each of the three ways into `kb`. The
whole fingerprint does hold excluded files, which is why the invariant speaks of
the stages and not of every local.

`GateIsSound` is about a fingerprint, a catalog and a disk that are each read file
by file while the disk moves. What relates them is history: an entry with a hash
(or the lack of one) stands for one state of its file (`Means`), every entry ever
recorded was a state the file has had (`Known`, against `seen`), and a file does
not come back to a state it left; so an entry that agrees with the disk now has
agreed with it since it was recorded, and with every read in between. `GateInv`
says so of the held state (`HeldTrue`) and of what each rebuild has read so far, by
stage (`ReadTrue`): in a whole build the first fingerprint is the older witness and
the confirming one lets the build through; in a scoped one the held entries vouch
for what was not dirty (`Trusted`). Both proofs met the hole of `Vouched`: with two
writes TLC had not found it. `QuietInv` is the counterpart when the disk stands
still from the snapshot on (`quiet`): a pass has read what is there, and what it
need not read it has caught up with before.

`MutationsAreReflected` follows a mutation from its write to its answer, beside the
watcher's rebuilds and any other writer. `MutationInv` says of each stage of the
writer what it works on, and that a rebuild that begins once the mutation is on the
disk reads it there or reuses what shows it, the watcher's included once the writer
has let go of the lock (`ShowsInReads`). The one step that is not about reading is
the gate, which may turn the mutation's own rebuild back: `GateSound` settles that for
a file with a recorded hash, and `GoneInv` for one without. While every file can be
read (`Readable`), an entry without a hash tells that its file was once gone; gone
again it has been gone ever since, and no build has read a content in between
(`Emptied`). The hypotheses cannot be dropped. With a file too large to read: it is
catalogued without a hash, becomes a content while its event is pending, a scoped
build of another path reads it without recording it, and its deletion through the
channel is then no change to the gate, so the answer still shows it. With a file that
cannot be read: created by the mutation and made unreadable at once, it passes for
still absent. With an asset: gone for the length of one walk, it is recorded present
and held absent, and rewriting it is no change. TLC finds each of the three with four
writes. And a rebuild that gives up leaves what was held.

`VersionsAreForSomething` follows a pass from the gate that let it through. A file
that differs from its entry has left the state the entry stands for, and goes on
differing until a swap (`Moved`); read after that, what is read of it is not what is
held (`SeenMoved`). `Reason` says of each stage which of the two it is: a dirty path of
a scoped rebuild has moved, a whole rebuild has a first fingerprint that is not the
held one. The swap then changes the fingerprint, unless the schema's path forced the
rewalk, which the code does with no path changed. Without `Assets = {}` it is false, and
TLC shows it with three writes: an asset removed while its event is pending has moved, and
is back as it was when the build reads it; recorded by presence alone, it looks the same,
and a version is swapped in and sent for nothing. In the run only the
channel writes an asset, one mutation at a time.
Contents do not come back that way while `CanReturn = FALSE`.

`ChannelLeavesCurrent` is the claim of `ReconcilePolicy::Off`. Its invariant,
`ChannelInv`, needs no history, and so `CanReturn` may be either: only the file of the
mutation not yet rebuilt can be `Behind`, and every other is held (`HeldExact`) and read
(`ReadsExactly`) as it is on disk. Its rebuild is the writer's own, on a disk nobody else
changes, so its gate lets it through exactly when there is something to do. The hard case
is a rebuild of the watcher, from a late or spurious event: it holds the lock, but the
mutation writes its file before it asks for the lock. A scoped rebuild passes its gate
only because of that file, so the mutation is on the disk before anything is read: the
file is read as it is or not at all, and what it leaves the writer's own rebuild finds
(`SplicesExactly`). A whole one the mutation may overtake between two reads;
`ReadsEither` says that its first fingerprint is of the new state and all else
with it, or of the old one, and then the confirming fingerprint turns it back or it has
read nothing but the old state. `Readable` is needed: TLC finds that a file unreadable from
the start and deleted through the channel is no change to the gate (both have no hash), and
a file too large to read whose deletion is missed in the same way. `Dirs = {}`
leaves out events that name a directory, which with no other writer nobody removes.

`Rescopes` and `CanReturn` are as in the runs, and say what the code can promise:
`CanReturn = FALSE` because it compares contents, `Rescopes = {}` because the
fingerprint does not hold the `.auignore` (above).

Only model-checked: convergence (liveness is outside the prover's reach), and the
invariants above where an assumption of their theorems does not hold: `NoPhantomVersion`
with an asset, with an `.auignore` rewritten, or where the channel's files return to what
they were.

### Left out

The parse layer and the indices behind the catalog (section 9);
`engine_state` and `ref_state`, which follow `version > 0`; `repo.yaml`,
`repo.lock` and the registry, whose entries in the fingerprint are one more file
of the kind `TypeDefs`; timing (`QUIESCENCE` and the reconcile window are
nondeterministic); shutdown.

## 4. Saga

A mutation writes files of several members, each commonly a git repository of
its own. `apply_saga_with_moves` checks that what it will write is clean, writes
an intent marker, writes the files, commits member by member with the mutation's
id in the message, and removes the marker. When a step fails `compensate`
reverts the commits that were made and restores the rest; when compensation
fails it leaves a sentinel. A daemon that finds a marker at start does the same
(`recover_crashed_saga`).

### State and code

| variable | code |
|---|---|
| `head`, `index`, `work` | per working tree, the mutation's paths at HEAD, staged, on disk |
| `made` | the commits that carry a `Mutation-Id`, with the content before and after |
| `marker`, `flagged` | `saga.intent`, the `saga.failed` sentinels |
| `pc`, `todo`, `cur`, `committed`, `failed`, `outcome` | the loops and locals of `apply_saga_with_moves`, `settle_saga`, `compensate`, `recover_intent_marker` and of the git commands of `ShellGit` |
| `plan`, `used` | the `SagaPlan` and the ids given out |
| `recovering` | TRUE while a start is undoing what a marker names |
| `faults`, `crashes`, `humans` | bounds on the environment |
| `open`, `before`, `dirty`, `touched`, `answer` | history, read by properties |

The phases, in the order of the code; every git command is a step, and a crash
or a human may come between any two:

    check -> mark -> write -> commit <-> staged -> made -> close -> answer
               write fails -> restore
               a commit fails -> revert <-> reverting -> restore -> close -> answer
    down -> (whole marker) classify <-> reverting -> close -> idle

The paths a mutation has in one tree are staged, committed, reverted and
restored by one command each, so one path stands for them; a plan writes it,
deletes it, or (`Keep`) has the tree as a member without changing it, with or
without exempting it from the clean check. The order in which a loop takes the
trees is left open. What git does was checked against git itself: `restore_paths`
of a path absent at HEAD does not touch the index (the code only removes the
file); `git revert --no-commit` merges into the index, so it applies when the
index holds what the commit made, finds nothing to do when it holds what the
commit started from, and conflicts otherwise; `git commit -- path` takes the
working tree's content; an empty commit fails.

A fault is a command that fails without a cause in the model: `status`, `open`
(the marker), `add`, `commit`, `sha` (the read back of a commit that was made),
`revert`, `restore`, `close` (the removal of the marker). Failures with a cause
(a tree not clean, an empty commit, a conflict, no or several commits with the
id) are not counted. `WriteFails` is always possible, after any part of the
writes: the write of a file can be refused for reasons outside the model.

### The abstract mutation

`AtomicMutation` says what a client may rely on: a mutation is asked for, and one
later step commits it everywhere, commits it nowhere, or flags it. `Saga`
implements it under a refinement mapping in which the content of a tree is what
it had when the request came (`before`) until the saga is closed, and HEAD from
then on, so that `Close` is the step that takes effect. A tree a human wrote in
meanwhile (`touched`) is outside the promise, and only that tree. The sentinel
of a saga under way is hidden until it is closed, because it is written just
before; and a saga whose daemon is down is still pending, because its marker is
there: recovery closes it.

### Runs

| run | what varies |
|---|---|
| `saga` | two requests over two git trees, one failing command, one crash anywhere (in recovery too), one act of a human: an edit, a commit, a cherry-pick of the mutation's own commit |
| `saga_faults` | one request over two git trees and a member outside git; any two commands fail, two crashes, one human act; fairness |

Bounds. Two trees are enough for "some committed, some not"; in one the mutation
edits a file and in the other it creates one, because restore, revert and stage
treat a path absent at HEAD apart. The second request meets whatever the first
left behind: a stale marker, staged paths, a sentinel. Two crashes interrupt a
recovery, two faults let a compensation fail after the step that caused it.
`saga` leaves out the faults `sha` and `close`: with them a mutation answered as
rejected keeps its commit in the tree whose sha was not read (`ReadShaFails`:
`committed` does not hold the tree, so it is restored and not reverted), and an
answered mutation is reverted at the next start.

Fairness. `FairSpec` adds weak fairness of `Proceed`, the steps of the blocking
task of a request or of the recovery at start. Nobody has to start a daemon, to
ask, to crash or to write.

### Observations

- A comment on the clean check (`serve.rs:3386`) says an exempt file, which the
  refactor leaves as it is, cannot have its work clobbered; its path stays among
  the member's paths, which a rollback restores to HEAD (`serve.rs:3774`) and a
  success commits (`serve.rs:3480`). `HumanWorkKept` fails with a plan that
  exempts; section 11 shows the same of the verbs that exempt.
- `restore_paths` says it restores paths "to their HEAD state"
  (`gitwriter.rs:319`); a path absent at HEAD is removed from the working tree
  (`gitwriter.rs:1632`) and stays staged after a commit that failed.
- `remove_intent_marker` says a stale marker is "never a correctness hazard"
  (`serve.rs:3695`); recovery cannot tell it from an interrupted saga and reverts
  a mutation that was answered as done, when the removal failed and nobody has
  committed since.
- A second revert of one mutation finds nothing to commit and is flagged, so
  "idempotent" in `gitwriter.rs:314` holds of the content and not of the outcome:
  an interrupted recovery reverts again and flags.
- Unwinding a revert that conflicts with somebody's uncommitted work restores the
  paths, that work included.
- A marker that was created and not written has no effect on recovery, and needs
  none, because nothing is written before it is whole.

### Proofs (`SagaProofs`)

For every set of trees, mutations and contents and every bound on faults, crashes
and humans. `Traceable` says that the faults `sha` and `close` do not occur: the
run `saga_faults`, which allows them, shows what is left.

| theorem | statement |
|---|---|
| `SagaTypeCorrect` | `Spec => []TypeOK` |
| `WorkIsCovered` | `Spec => []MarkerCoversWork` |
| `SagaIsAllOrNothing` | `Traceable` gives `Spec => []AllOrNothing` |
| `AnswersStayTrue` | `Traceable` gives `Spec => []AnswersAreTrue` |
| `WorkIsKept` | `Traceable`, no exemptions give `Spec => HumanWorkKept` |
| `SagaIsAtomic` | `Traceable`, no exemptions give `Spec => ImplementsAtomic` |

`MarkerCoversWork` is what makes recovery possible: it acts on the marker alone.
It is not inductive, since it says nothing of when a marker may go. The
invariant adds `Shape` (which markers, plans and trees a phase can have: a
marker that names the members from `write` to `close`, `cur` set in the three
phases inside a git command, `recovering` in recovery) and `DebrisIsKnown`, which
bounds by phase the trees that may hold work the engine has not committed: all
members while they are written, those the loop has still to come to while they
are committed or restored, none at `close` unless they failed and so were
flagged in the step before.

Atomicity rests on five parts, over the trees the promise is about (`Bound`):
the marker is the open saga's own (`MarkerIsOwn`, where `close` must not fail);
no commit and no sentinel has an id before it is given out (`IdsAreUsed`); a
tree is as the request found it or has exactly one commit of the mutation, from
the one content to the other, with nothing in the working tree that would make
its compensation commit anything else (`BoundAreSound`); what each loop has done
for the trees it is past, and left undone for those to come (`LoopsProgress`,
where `sha` must not fail: a tree not in `committed` has no commit); and from
that, that the outcome at `close` is so (`VerdictIsSo`). Recovery needs nothing
more: for an untouched tree `BoundAreSound` holds at any point of a crash, in the
middle of a recovery too, and it is all that `classify` relies on.

`HumanWorkKept` adds that uncommitted work is in no member of a saga past its
clean check (`WorkIsElsewhere`). The refinement adds the trees the mutation leaves
as they are: they stay clean, so none of the loops commits in them
(`OthersAreSteady`). Every step between the request and the close is hidden
(`HiddenStep`), a close is a commit, an abort or a failure (`EndSettles`), and
what a human does is an edit (`HumanEdits`).

Only model-checked: `SagasSettle` (liveness is outside the prover's reach).

### Left out

The contents of a write and how it is planned (section 11); the
messages of commits but for the id; a marker whose write fails after it is
complete; a sentinel that cannot be written (the code logs it and goes on);
`restore_paths` stopping at one of several paths of a tree.

## 5. Subscriptions

A subscription is a task of `serve.rs`: it takes a receiver on `version_tx`,
acknowledges, waits until the engine is ready, sends a projection of the held
knowledge base and then, at each wake-up, the net change since.

| variable | code |
|---|---|
| `kb`, `version` | `Held`; a knowledge base is what each path holds |
| `swapped`, `chan` | a version is swapped in and not yet sent; the last one `version_tx` took |
| `channel`, `stage`, `seen`, `last`, `frame` | the request, where `run_subscription` and the `run_*` loop are, the receiver's mark, the loop's local `last`, the frame being sent |
| `queue` | the bounded frame channel of the connection (`FRAME_BUFFER`) |
| `view`, `stamp`, `missed` | what a client makes of the frames (external), the version of the last, the paths a `changes` client read otherwise than the baseline |

`Deltas` holds what each channel projects (`files_snapshot`, `types_snapshot`,
`diagnostics_snapshot`, `link_graph_view`, `type_graph_view`) and how it reports
a change (`files_delta`, `edge_multiset_diff` and their like), as operators.
`ReportDelta` is a whole turn of a loop: read the held state, compare, remember,
send or not. `Publish` and `Broadcast` are the two steps of a rebuild's end; a
task may read a state whose wake-up is still to come, and then finds nothing new
at the wake-up.

`FramesAddUp` says that the initial value and the deltas, applied one after the
other, give what the held state projects to, whenever nothing is on its way;
`ClientsCatchUp` that this point is reached.

Bounds. One subscription in each of the seven channels in turn: subscriptions
share nothing but room in a frame queue. Two files with three contents give edges
that occur twice, entries that come, go and change, types that change with what
they descend from. Three builds let two wake-ups coalesce after a third. The frame
queue holds one frame, so that a send blocks.

Fairness. Weak, for `Broadcast` (a rebuild that swapped goes on to send), each
task's steps (the runtime schedules it) and each client's `Receive` (it keeps
reading; `view` is nothing to a client that does not).

Observations. `changes` sends no initial value: its baseline is read after the
ack, and a rebuild between the two is never told, although a comment there
(`serve.rs:7714`) says it cannot be missed; `missed` holds such paths. The doc of
`subscribe_version` (`engine.rs:1174`) does not hold for a version that was sent
when nobody had a receiver. `run_ready` reads version, state and payload in three
steps, which may belong to three rebuilds.

### Proofs (`SubscriptionsProofs`)

For any finite set of paths, any contents and meanings, subscriptions, channels and
bounds; `NoneIsNoView` only says that the mark for "nothing held" is not itself a
map of files. No fairness is used.

| theorem | statement |
|---|---|
| `NetChangesAddUp` | on each channel, a net change applied to what a client keeps of one projection gives what it should keep of the next; an empty one changes nothing |
| `EveryFrameAddsUp` | `Spec => []FramesAddUp` |

`NetChangesAddUp` is about data. The edges of the link graph are a sorted list with
repetitions, and their difference is a merge walk. Its first part shows that the
walk nets the two multisets out (`WalkCounts`, by induction on the distance to the
end of the lists: what it reports removed and added accounts for the occurrences
left). That it is the order the lists are sorted by does not matter to the sum,
only that two edges neither of which precedes the other are equal
(`PrecedesTotal`). `SortedEdges` is a list at all because a strict total order on
finitely many links gives each rank to one of them (`RanksAreTaken`).

`FramesAddUp` speaks of settled clients only, and is far from inductive. `FramesInv`
says of any moment that the frames on their way, in the queue and in the task's
hand, lead the client from what it holds to what its task last reported (`Chain`),
and that the last report is the current projection unless the task is at work or a
wake-up is due to it: a swap not yet sent, or a version its receiver has not seen.
That is why no wake-up may be lost between the swap and the broadcast. A lifecycle
client ends with a state the engine has reached, because ready stays ready through
the three reads. The events of `changes` start from a baseline its client never
got: `Leads` keeps the series of projections they lead through, and `Agrees` that a
path none of them touches is held as the task read it, `missed` apart. A file map
is right at each path for itself (`FileMapsAddUp`), so an event may be applied to a
map it was not computed from.

Left out: the wire encoding, permission and identification of connections, and the
graph and query reads, which answer from one snapshot.

## 6. Commit streams

`recent_commits` lives off the reflogs. `GitWatch` counts interest per working
tree and broadcasts the tree whose reflog moved; `CommitStream` is the task that
arms the members' trees, seeds a page of the newest commits and re-logs a tree at
each event.

| variable | code |
|---|---|
| `log`, `clock` | the history of each tree (external) |
| `refs` | `GitWatch::watched` |
| `raised`, `inbox`, `lagged`, `open` | events on their way, the broadcast channel of capacity `GIT_EVENT_BUFFER` and its receivers |
| `ready`, `stage`, `armed`, `cache`, `emitted`, `relog`, `frame` | the engine's readiness and the locals of `run_recent_commits` |
| `queue`, `told` | the connection, and what its client was sent |
| `old`, `again`, `blind`, `fails`, `leaked` | history |

Two trees and two subscriptions that overlap on them, up to three commits that
land one or two at a time at any point, one failing `git log`, a bus and a frame
queue of one, a page of one. `RefsBalance`: a tree is counted once per task that
armed it, so overlapping subscriptions never take each other's count.
`WindowCovered`: with nothing on its way, no commit of a watched tree is missing
from the window, through lagged receivers too. `AppearOnce`: a commit is
announced once. `CommitsReachClients` is the liveness of it; weak fairness for
readiness, the notification of each tree, each task and each client.

Observations. A failed `git log` empties the tree's cache
(`unwrap_or_default`), and the next one announces its commits again, which is the
exception of `AppearOnce`; of a burst beyond the limit the older are never told;
an arm that is aborted half-way keeps its counts, as a comment admits
(`serve.rs:7390`), which is `leaked`; a tree without a reflog is not armed and
its commits wake nobody; members that appear later are not armed.

### Proofs (`CommitStreamProofs`)

For any trees, finitely many subscriptions (`FinitelyMany`: the counts are numbers)
and any bounds on the bus, the page and the frame queue.

| theorem | statement |
|---|---|
| `StreamTypeCorrect` | `Spec => []TypeOK` |
| `WatchesAreCounted` | `Spec => []RefsBalance` |
| `CommitsAppearOnce` | `Spec => []AppearOnce` |
| `WindowsAreCovered` | `Spec => []WindowCovered` |

`RefsBalance` needs that a task has armed nothing before it arms nor after it ends
(`ArmedLate`). For `AppearOnce`, `TellInv` follows a commit from the log through
cache, frame and queue to the client: what was handled and is still among a tree's
newest is in its cache (`CacheKeeps`), what is in a cache and was handled counts as
told (`CountedAsTold`), and frames behind one another have nothing in common
(`FramesApart`), all but for trees a failed read made the task lose track of
(`Excused`). For `WindowCovered`, `HearInv` adds that a tree's cache is up to date or
its event is still ahead of the task: raised, in the bus, lagged, or on the list to
re-log (`WillHear`), and that what counts as told was told, or a full window of newer
commits was (`ToldOrPassed`). The page and the window are cuts of sets by rank
(`NewestOfPart`, `NewestAbove`).

## 7. Daemon

The processes share two paths, a socket and a pid file; nothing locks them.

| variable | code |
|---|---|
| `pc` | where a process is between `start` and its exit: the checks (`probed`, `clear`), the boot, the bind, `serving`, the teardown |
| `pidfile`, `sock` | what the two paths hold; `listening` the open listeners |
| `shutdown` | servers asked to end |
| `cmd`, `kind`, `served`, `target`, `found` | the runs of `stop`, `stop --force`, `status` and their locals |
| `stranger`, `faults` | pids given to an unrelated process; bounds |

Two starts and two commands of any kind; a crash at any step, a build that hangs,
a pid that is reused. `OneDaemon`: whoever builds or serves is the one recorded,
hence alone. `ServerReachable`: nobody reclaims the socket of a live server.
`StatusTruthful`: of the three answers of `status`, "no daemon running" is given only
when nothing builds or serves, "running" only when a daemon serves at the path, and
"present but not yet serving" only when the recorded process builds, serves or winds
down, or when its pid has been given to another process, which a kill probe cannot
tell apart.
`ForceStops`: `stop --force` ends each daemon it found, from whatever stage, under
weak fairness of the commands and of each process that is not hung.

`Overlap` FALSE keeps commands out of the two checks of a start: with TRUE two
concurrent starts both pass the check and both write the pid file
(`daemon.rs:278-300`), and `OneDaemon` fails. The window is between reads and
writes of a command line tool a person runs; the code has no answer to it.

Observations. A draining daemon's blocking threads may still run after its pid
file is gone; `ServeHandle::drop` and `PidFile::drop` remove what is at the path,
whoever made it; a failing `set_permissions` after the bind leaves a stale
socket; a reused pid lets `stop --force` end a stranger, as the doc admits.

### Proofs (`DaemonProofs`)

For any number of starts, commands and faults.

| theorem | statement |
|---|---|
| `DaemonTypeCorrect` | `Spec => []TypeOK` |
| `OneDaemonAtATime` | with `~Overlap`, `Spec => []OneDaemon` |
| `ServersStayReachable` | with `~Overlap`, `Spec => []ServerReachable` |
| `StatusIsTruthful` | with `~Overlap`, `Spec => StatusTruthful` (of the step in which `status` answers) |

`~Overlap` is the window above, which no lock closes. The invariant is about what a
command read earlier: the recorded pid is the owner's, and one owns the entry longer
than one holds it (`OwnsPid`); a start past its checks finds it still unowned
(`ChecksAlone`); what a command read of the pid file is still there unless the file
is gone (`ReadStays`), and it removes the file of a dead process only
(`UnlinksDead`). For what `status` says of a daemon that is there, the pid in the file
is an owner's or a dead process's (`PidNamesOwner`), and a `status` that a server
answered reads no pid file (`AnsweredIsDone`).

## 8. Package cache and dependency lock

`PackageCache` is the device's cache: fetch, extract into a scratch directory,
publish with a rename, evict. `Resolve` is the solve over it.

| variable | code |
|---|---|
| `tip`, `snap`, `scratch`, `stage`, `wanted`, `got` | what a ref leads to (external); the cache; the locals of `ensure` for each process |
| `declared`, `discover`, `lock`, `head` | `repo.yaml`, the discovered members, the lock files on disk and at HEAD |
| `mounted` | the packages of the held knowledge base |
| `pc`, `work`, `enqueued`, `walked`, `consumed`, `registry`, `spec`, `results`, `edges` | the walk of the solve |
| `plan`, `written`, `commits` | the locks it writes, has written, has still to commit |
| `clean`, `edits`, `faults` | history and bounds |

Two editable repos and the workspace lock, three package names, commits whose
manifests lead to each other in a circle, one ref with two tips (a push), a
registry that may fail, a second engine on the same cache that fetches and may
die, evictions, two edits of manifests, and one failure or crash anywhere.

`SnapshotsWhole`, `NoTwoOfOne` (never two packages under one name nor one at two
commits, even from locks at odds), `LocksSelfSufficient` (each lock holds exactly
what its repo needs, through editable repos too, so the repo can be opened
alone), `ResolvedIsMounted` (what an offline reopening mounts is what the solve
found), `CommitsWholeSolve` (no lock is committed of a solve whose locks were
not all written), `ResolveEnds` under weak fairness of the resolve's own steps.

Observations. One fetch that fails leaves every lock unwritten
(`pkgcache.rs:923-928`), where the doc of `handle_resolve` says the rest still
lock and mount (`serve.rs:6036`); after a failure or crash between two writes the
locks are at odds, as the doc admits; a ref fetched twice across a push shows as
a conflict. Local checkouts of a dependency are not modelled.

### Proofs (`ResolveProofs`)

For any packages and manifests (`PackagesAssumption`: what a manifest names is a
package name, a source and a path), editable repos, engines on the cache and faults;
the last two assume `NoneIsNoLock`, that "no lock file" is no lock.

| theorem | statement |
|---|---|
| `CacheHoldsWholeTrees` | `Spec => []SnapshotsWhole` |
| `MountedOnce` | `Spec => []NoTwoOfOne` |
| `CommitsComeLast` | `Spec => CommitsWholeSolve` |
| `LocksAreSelfSufficient` | `Spec => []LocksSelfSufficient` |
| `TheSolveIsMounted` | `Spec => []ResolvedIsMounted` |

A scratch directory is its process's own, and what is renamed was extracted to the
end (`CacheInv`). Whatever locks are on disk, of different solves too, leaving out
every name in a conflict leaves one package a name and one commit a package
(`LocatedApart`). A lock holds what its repo leads to, computed in rounds over
packages that may depend on each other in a circle: by induction over the rounds,
which the number of names bounds, the result is the least set that holds the repo's
names and is closed (`ReachedIsLeast`), and hence what the repo needs.
`SolveInv` carries this from the walk to the answer: what the walk knows of each
package it fetched (`WalkInv`, `WorkInv`), that it is still in the cache unless
somebody evicted it (`FetchedInv`), that what is not in the plan is empty and was
never on disk, and what is written is on disk and then mounted (`PlanInv`).

## 9. Incremental recompute

`incremental.rs` opens with the promise that a splice is "byte-identical to a
full build". `Build` is what the indices of a knowledge base are, from the whole
catalog; `Splice` what `recompute_dirty` and `apply_recompute` make of the held
ones for a batch of dirty files; `Declines` and `NeedsFull` when a build is made
instead. A behaviour is any series of batches over any files.

| variable | code |
|---|---|
| `disk` | each file's parse as others see it: kind, claims, whether the body has the block or heading a fragment names, links |
| `kb` | `catalog`, `index` (the path index), `collisions`, `fold` (claimed peer types), `resolved` (served shapes), `diags`, `backlinks`, `names` (referenced names), `members` (of a type's closure) |
| `aborted` | repos whose type graph failed to build |

A file's diagnostics are abstracted to what validating it reads of other files:
two are equal iff the readings are. That makes a missed dependent visible without
modelling a single rule of validation.

Six files of two repos: a note `t`, its case variant `T`, an asset, two files
that link, one of them in the peer repo, and a type definition; batches of one or
two; links bare and by path, with and without slot and fragment, across repos.
`MCIncremental!Widened` adds, one at a time, contents for which the splice does
differ; `none` leaves them out. The differences, which a full build repairs:

| `Widened` | what the splice misses |
|---|---|
| `prose` | a link outside a slot with a `^id` or `#head` reads its target's body; `incremental.rs:987` passes over it. Run `incremental_prose`, a finding |
| `slotted` | a bare `^id` in a slot reads the target's claim too, and only a change of blocks is looked at |
| `anchor` | a `#head` in a slot reads the body, and only a change of claim is looked at |
| `broken` | a broken instance has edges from its body but no referenced names, so a file that comes or goes does not flip them |
| `pulled` | an instance that breaks and keeps its body: the splice compares bodies, a validation finds none |
| `dotted` | an extensionless target with a dot has no stem key |
| `twins` | importing a type the own repo defines in sync changes other instances' shapes |
| `unreadable` | a new unreadable file is dropped by the splice and catalogued by a build |

### Proofs (`IncrementalProofs`)

For any files, contents, type graph and sequence of batches, of any size.

| theorem | statement |
|---|---|
| `IndicesMatchABuild` | `ASSUME Indexable PROVE Spec => []IndicesAgree` |
| `DiagnosticsMatchABuild` | `ASSUME Diagnosable PROVE Spec => []DiagnosticsAgree` |

The hypotheses exclude the contents of the table above and nothing else, so each
of their parts has a counterexample in a run with that part of `Widened`.
`Indexable`: files appear readable, no stem has a dot, a broken instance keeps no
links. `Diagnosable` allows a broken instance its links, which never make a
diagnostic wrong, and excludes `prose`, `slotted`, `anchor`, `pulled` and `twins`:
no link reads a body but a slotted `^id` whose target is never a broken instance.

The argument. What the splice works from is the catalog of the disk before the
batch (`HeldIsDisk`), and the catalog it ends with is that of the disk after.
A file left alone has links that hit what they hit, unless a file of a name it
refers to came or went, and then the names index has it rebuilt (`Comings` and
the lemmas on names). A contribution to an index carries its source, so taking
away what the dirty sources gave and adding what they give now is exact. The
induction for the indices is `IndicesAgree` itself; that for the diagnostics keeps
`DependentsInv`, which is weaker: the held backlinks name at least the dependents
a change of body or claim must reach, so a stale entry for a broken instance does
no harm.

Left out: record targets' use of the held fold; the name key of a type alias,
which is missing and harmless because a definition that comes or goes forces a
build.

## 10. Types

`TypeIds` computes the identity of each definition: Tarjan's components of its
repository's references, each hashed after those it refers to (`canonical.rs`,
`closure_id.rs`). A hash is taken to be the value it is computed from, so that
collisions are out of question and equality is exact. `TypeFold` drains the
worklist that folds an own repo's types with the imported peers' into one graph
by identity (`resolution.rs`, `resolution_build.rs`), one target per step, and
computes the effective shape and location of an instance over it and over the own
graph alone (`closure.rs`, `location_check.rs`).

| variable | code |
|---|---|
| `ws`, `ids` | the graph of each repo, and its memoized identities |
| `seeds`, `extra` | the `::repo` claims of own instances; those of a later extension |
| `folded`, `nodes`, `forms`, `work` | whether a resolution graph exists; `ResolutionGraph` and its worklist |

Every workspace of an own repo with types `a` and `b` (`b` may be absent), a peer
`p` with `a`, `b` and perhaps `c`, and a peer `q`, perhaps not mounted, with `b`;
their parents, field shapes, sealed leaves and required metas lead to each other,
in circles and across repos. `IdsMatchSignatures` compares identities with a
reference definition, the unfolded signature of a type (`Signature`);
`FoldIsClosure` the fold with reachability; `OwnClaimsAgree` what an own instance
must be, and which of its claims are redundant, with and without the fold;
`DivergenceKept` that two declarations that differ both survive.

`LoadChecks` adds the two walks that look for circular parents (`check_cycles`
over the own graph, `cross_repo_type_chain_cycles` over the fold), which pass
each type once and report a circle where a path closes on itself. A repository
with such an error is in `graph_aborted`. `CirclesReported`: a repository that
owns a type on a circle reports one and aborts, whichever type a walk starts
with (the order is that of the hashes), and no circle is made up. `MaxDepth` is
3 for the code's 256, so that chains reach it in a workspace of six types; own
chains do not.

Observations. A peer's copy of an own type, equal but for its location, decides
where an own instance may lie (`location_check.rs:43` after the drain order of
`resolution.rs:278`): `OwnPlacesAgree` fails with `Twins = TRUE` in
`TypeFold.cfg`. Of same-named identities with token-equal declarations the
lexicographically least stands for all, and another's `required` is lost
(`closure.rs:705`). A type in sync with a peer's also gets the peer's origin,
peer-qualified shapes and sealed leaves. `closure_id`'s doc leaves out that the
walk follows required metas. A repo whose only import is a `required: X::repo` is
not folded. A dangling parent stays in an own closure's names and not in the
folded one. A circle of imported types can hide an own one: with own `a` under
`b::q`, own `b` under `a`, `q`'s `b` under `a::p`, and in `p` `a` under its `b`
and `b::own` and `b` under `b::q`, a walk that starts in `p` closes the peers'
circle first, has then passed `b`, and reports nothing at `own`, though
`build.rs:811` says a repo "owning a cyclic member ABORTS its own instance
validation"; `CirclesReported` fails without its last disjunct. Which types a
chain deeper than `MAX_TYPE_CHAIN_DEPTH` is reported at, or whether it is, depends
on the start.

Left out: abstract types, brands, bodies and docs, meta blocks, spans, the
resolution of qualifiers to repos. The worklist is
deterministic and folds an identity once, so nothing is checked of liveness.

## 11. Refactorings

The verbs that move a file, record, id or type and rewrite every reference:
`rename`, `rename_type`, `promote`, `inline`, `rename_block_id`. A file is the
places in it that hold a reference, a claim or a record; text, spans and
formatting are left out.

| variable | code |
|---|---|
| `disk`, `head` | the files, in the working trees and as committed |
| `held` | the held knowledge base: places and backlinks come from it |
| `roles` | which repos the engine may write, which are in git |
| `req`, `job` | the request; the plan: referrers, writes, moves, exemptions |
| `pc`, `todo`, `cur`, `read`, `outcome` | the phase and the loops of the verb |
| `before`, `strange`, `edits`, `late`, `exposed`, `verbs` | history and bounds |

The phases: refuse or plan (`Ask`, which also finds the referrers that need not be
looked at, from the `spans` of the job), the clean check (`Check`), `Open` (hosts are
read first), per referrer `ReadReferrer` (the bytes are compared with the held
hash) and `WriteReferrer`, `Finish` (the writes and moves that end the verb),
`Commit` or `Fail` (the saga, as the one step `AtomicMutation` lets it be),
`Rebuild`. A person may edit, pin a link, and commit, once, between any two.
Names resolve as in `RepoIndex::resolve`: by path, by basename, by stem, by type
alias.

A repo with a host that holds a record nested in a record and a bare slot, a file
that has a body or not and an id in common with the host, a note with each
spelling of a reference, a type; a peer repo that refers to them; three settings
of roles; four links that make a verb refuse; two verbs in a row. `LinksFollow`:
after a verb, done or rolled back, every reference leads to the file or record it
led to before, wherever that now is. `EditsKept`: what people wrote is kept, whether
the verb goes through, is refused or is rolled back, but for the two kinds of loss
listed below as `late` and `exposed`.

The properties state their exceptions, which are what the code does:

- `Crowded`: a new stem that another file bears makes bare links ambiguous, or
  repoints them; notes win over type aliases. Promote and inline always write the
  bare stem, though `assign_block_id` falls back to a path. A record promoted to
  the stem its own host has, in another directory, makes them ambiguous too.
- `LeftBehind`: a local link inside a promoted record to an id that stays in the
  host dangles. `WIRE.md` says of promote that nothing the record carried
  dangles; `serve.rs:4655-4680` covers the ids that travel.
- `ValueMoves`: a navigational `^id` in a slot has the file for value, which
  changes when the record moves; the ambiguity guard covers links from outside.
- `FoldedAt`: the reference a file is inlined at is replaced by the file's record,
  also when it named a record in the file.
- `late`: what came between the read and the write of a file. Hosts are read first
  and written last, and nothing compares again.
- `exposed`: what is not committed and lies in a file that was found clean before it
  came, or in one that was excused from the clean check because by now every reference
  to rewrite in it is pinned (`referrers_not_written`). It is kept when the verb goes
  through; a rollback resets these files with the others (`serve.rs:3386`), those of a
  consumed repo too. `promote` and `rename_block_id` may excuse the host itself, when
  it refers to its own record (`serve.rs:4756`, `serve.rs:5491`): its hash differs
  from the held one, the verb is rolled back and the pin is lost. The run reaches
  this with both verbs. `rename_type` excuses nobody: a referrer that has drifted
  counts as written (`serve.rs:4470-4485`).

Links from files that have drifted (`strange`) are not followed: the verb could
not know them. Further observations: rename rewrites a local `[[^id]]` to
`[[new^id]]`; promote checks early that its destination does not exist and
overwrites one that came since; a refusal does not rebuild, and leaves that to the
watcher. A reference whose record is not there leads nowhere, before and after.

### Proofs (`RefactorProofs`)

For any workspace, requests, names and bounds, from `RefactorAssumption`: a place
holds one thing, and no two files of a workspace share the name of a place (names
of places belong to the encoding: they are how a property follows a reference from
file to file).

| theorem | statement |
|---|---|
| `WhatPeopleWriteIsKept` | `Spec => []EditsKept`: what is neither `late` nor, when the verb is rolled back, `exposed` is there |
| `ReferencesFollow` | `Tidy => (Spec => []LinksFollow)` |

Two futures are kept open while a verb is under way: that it ends, and the writes
still to come are on disk (`Outlook`), and that it fails, and what it touches is
again what was committed (`Reset`). What was written in time is in the first, and in
the second too unless it is exposed (`KeptInv`). The first half rests on what a verb plans (`GatheredPlans`: a file
moved, a host rewritten, a host split in two, two hosts merged, the referrers
rewritten, in each case with every pin and every added place kept), on what it has
in hand being what it read (`InHandInv`), and on places staying in one file
(`PlacesInv`), without which `inline` would lose one of two places when it merges
two files.

`ReferencesFollow` takes the workspace to be `Tidy`, as those of the run are:

- no two records of one id in a file, no two types of one name in a repo. Either is
  an error the engine reports (`block-id-duplicate`, `duplicate-type-def`) and goes
  on with the first of the two; the verbs guard against making one, and which of two
  a reference meant is not followed through a verb;
- a local link (`[[^id]]`) names no repo; a record that lies in the prose lies in
  the file itself, which then has a body; a path has a stem; a fresh id is an id;
- an entity has one place, and a place the fields of what it holds (the encoding).

The argument has three parts. A plan, made on the held files and carried out on them,
leads every reference where it led, with the exceptions `LinksFollow` names (`Leads`).
This is a lemma for each verb, which says what becomes of the files (`Relabelled`: one
gets another name; `Split`: one record and what lies in it become a file; a file
becomes a record; an id is renamed) and then, by the way a link is found (path,
basename, stem, alias; local or not; to a file, a record or its value), where each
link leads in them. Links that people add and pins they set change no name a reference
is found by, so what is true of the held files is true of those they become
(`Kindred`, `Grown`). What a verb has written, with what it has still to write, is
what its plan makes of the files as they were when it began (`PlanInv`), because the
hash checks let it write only on files it holds as they are; and after a rollback the
files it touched are the committed ones, which are the held ones but for what people
added (`KinInv`, `GrowthInv`). `LinksInv` is their conjunction with `LinksFollow`,
inductive together with the invariant of `EditsKept`.

Left out: `assign_block_id`, `edit_record` and `append_record`, the write riders
(stamps, mixins), files that people create during a verb, ambiguity of repos.

## 12. What is proved, what is model-checked

Proved, for every value of the constants: every safety property of the runs
`saga`, `saga_faults`, `subscriptions`, `commits`, `daemon`, `resolve`, `delete`,
`incremental` and `refactor`, and of `converge` the exclusion of ignored files and, for
its use `mixed`, the answers to mutations (`ExcludedFilesStayOut` and `MutationsAreReflected`, over
`Engine`). The assumptions, beside what the constants are: `Traceable` and no
exemptions (saga), `Rescopes = {}` and `CanReturn = FALSE` (the gate), `Readable` and
`CanFail = FALSE` (the answers to mutations), `Indexable` and `Diagnosable` (the
incremental recompute), `Tidy` (where references lead), `~Overlap` (the daemon),
`FinitelyMany`, `NoneIsNoView`, `NoneIsNoLock`. Each but the last three names a
behaviour the code does not cover, which the section on it describes; the others
are about the encoding. The bounds of the environment (writes, builds, faults,
crashes) are any numbers.

Induction. Facts about recursive functions (the merge walk, the rounds of a
reachability) are proved by an induction in which a set of naturals stands for the
predicate (`SetInduction`, from the well-foundedness of the naturals), since the
provers do not instantiate a lemma with an operator for parameter.

Only model-checked:

- liveness (`EveryUseConverges`, `SagasSettle`, `ClientsCatchUp`,
  `CommitsReachClients`, `ForceStops`, `ResolveEnds`), outside the prover's reach,
  and with it that the refinement is fair;
- everything in section 10: `TypeIds`, `TypeFold` and `LoadChecks` use recursive
  operators, which the prover does not take.

`TypeOK` is stated in each state machine whose types are not plain from its `Init`.

Findings with a run: `incremental_prose` only. The observations in each section
were met while bounding the runs and are reproduced by lifting the bound they
name.

## 13. Not modelled

- **Preview** (`engine.rs:987`): computes one answer from the held state and the
  disk and changes neither; its build is the one of `Incremental` and `Engine`.
- **Registry and workspace** (`repo.rs`, `pathset.rs`): reads of configuration;
  membership enters `Engine` through the set of files and the fingerprint, and
  `Resolve` through what is declared and discovered.
- **The other load checks** (`load_checks.rs`): functions of one definition, or of
  the closure of one. `check_body_use_cycles` is a third walk of the kind of
  section 10, over edges that need a circle of parents to close;
  it misses members of a cycle reached through a vertex already finished, and its
  doc says each is told.
- **Validation** (`validate.rs`, the largest file), **grammar, parser, locations,
  yaml rendering**: functions of one file and what they read of others; what they
  read is in `Incremental`, the rules themselves are not. Their difficulty is the
  number of cases, which tests over inputs reach better than a state space.
- **Wire format, diagnostics, command line, test kit**: encoding and wording.

Most of the implementation's lines are in these, and in tests that stand in the
same files; the modules cover the parts that keep state, run concurrently or
depend on order.
