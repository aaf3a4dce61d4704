# A verification project for tokenlive-standalone

tokenlive-standalone is one process that embeds an admin (users, keys, routing
config in a database) and an LLM gateway (the engine that routes requests), and a
host-side upgrader that replaces the installed binary through Homebrew while the
service runs.  This directory holds TLA+ modules of the parts whose correctness
depends on the order of things, TLC instances of them, and TLAPS proofs of the
results that hold for every instance.

## 1. The system

| component | source | state it keeps | operations |
|---|---|---|---|
| Upgrade manager | `internal/upgrade/manager.go`, `tasks.go` | none of its own; works on the task store | `Capability`, `Task`, `Snapshot`, `Reconcile` (no lock), `Prepare`, `Submit` (install lock) |
| Upgrade task store | `internal/upgrade/state.go` | `<root>/<task>/task.json`, `ready.json`, `index.json` | `Create`, `Load`, `Save`, `List`, `Cleanup`, `appendIndex` |
| Install lock | `internal/upgrade/lock.go` | a `flock` on `task.lock`, released by the death of its holder | `TryLock`, `Release` |
| Upgrade worker | `internal/upgrade/worker.go` | its in-memory copy of the record | `Run`: ready, downloading, installing, restarting, verifying, outcome |
| Command runner | `exec_runner.go`, `runner.go` | a process group and a deadline | `Run` |
| launchd jobs | `launchd.go` | one RunAtLoad, LaunchOnlyOnce job per accepted task | `Bootstrap`, `Bootout`, `Alive`, `ServicePID` |
| Health verification | `verify.go` | none | `Verify` polls pid, version and executable |
| Installation identity | `identity.go`, `internal/assemble/upgrade.go`, `internal/cli/upgrade.go` | what a probe has found so far; install id, roots | `Probe` for the service, for `upgrade-status`, for `upgrade-worker` |
| Worker plist | `plist.go` | none | `plistProgram`, `taskPlist` |
| Formula snapshot | `formula.go` | none | parse, fetch, stage the confirmed formula |
| ConfigHub | `internal/confighub/hub.go`, `internal/bridge/admin_source.go` | one snapshot, the blobs it was parsed from | `Refresh`, `StartPeriodicSync`, the provider's reads, `DeductCredits` |
| Process assembly | `internal/assemble/assemble.go` | admin, hub, gateway and their callbacks | `New`, `ListenAndServe`, `Close`, `OnConfigChanged`, `OnReload` |
| Log viewer | `internal/cli/logs.go` | open files and offsets | `tail`, `follow` with rotation |
| Config installer | `scripts/install-brew-config.sh`, `install-linux.sh` | active config and baseline | first install, upgrade |
| Release publishing | `scripts/publish-*.sh`, `update_homebrew_formula.py`, the workflow | draft, assets, tap | a resumable sequence of remote steps |
| Packaging, metrics sink, command line | other scripts, `bridge/metrics_sink.go`, `cmd/tokenlive` | none | build, forward, dispatch |

### How they interact

The admin's upgrade page calls `Prepare` and `Submit` over HTTP; every read of a
task starts with `reconciledTasks`, which lists the store and repairs each record
*without a lock*.  `Submit` writes the accepted record and bootstraps a launchd
job, whose process is the worker.  The worker talks to the manager through the
record only, and holds the same install lock as `Submit` and `Prepare`.  It runs
`brew upgrade`, `brew services stop` and `start`: the second kills the service,
with every handler in it.

Who may do any of this is decided by a probe of the own executable: its path must
lead into the Cellar, the `opt` link must lead to the same keg, exactly one
LaunchAgent must run the `opt` binary, and, for the service, launchd must list its
own pid under that label.  The service, the status command and the worker all run
it, each once, while Homebrew and launchd go on.  The keg it finds is hashed
into the install id, which names the directory of the store and the lock.

A mutation in the admin starts a goroutine that calls `Hub.Refresh` with the kind
of the change; a ticker calls it every 15 seconds.  `Refresh` loads the three
sections of the configuration, compares them with what it remembers, replaces its
maps, and calls `OnReload`, which applies the routing config to the engine and
purges gateway caches.  Requests read the hub meanwhile.

### What is hard

- **Interleaving.**  `reconcile` writes back copies it read without a lock, while
  `Submit` and the worker write the same records.  `Refresh` consists of four
  separate critical sections and runs in several goroutines.
- **Crashes.**  The upgrade kills the process that manages it, a worker may die
  with its command still running, cleanup has several steps on disk, and others save
  records between them.
- **Uncertain outcomes.**  A command that timed out, or died from a signal, may
  have descendants; the design's rule is that whatever cannot be proven ended
  blocks the next upgrade.
- **Deadlines** of offers, launches and upgrades, compared with clocks read before
  the record is written.
- **Proofs made of several reads.**  The probe and the health check read links,
  plists, `launchctl`, `/health` at different moments of a system that moves.
- **Lost events and dropped errors.**  A failed export drops the event of the mutation; a
  config the engine refuses, a blob that does not unmarshal and a view of a release that
  fails are not told from the case in which there is nothing to do.

### What makes each component correct

Upgrade: a confirmed task is launched at most once; commands never overlap; no
command runs under a record that claims the end; while one may run nothing new is
prepared; a cleaned task is over, and nothing brings its work back; every task is
resolved in the end; what is recorded as a success was restarted and runs the confirmed
keg; one process at a time manages an installation.  Hub: it serves one export at a
time, comes to serve the database, and engine and caches keep in step with it.  Store: a summary of every cleaned task among
the most recent twenty survives.  Log viewer: lines come in order and once, none is
skipped inside the open file, and the active file is always found again.  Config installer: a user's edit is never overwritten, an unmodified
config is always upgraded.  Publishing: a rerun converges, a public tap never
names an asset that does not exist.

## 2. Modules

| module | what it is |
|---|---|
| `UpgradeTask` | the record of a task, its states, `Blocks` (= `ActiveTask`) |
| `UpgradeHost` | store, lock, handlers, workers, jobs, commands and time: every operation of the upgrader that changes state |
| `MCUpgradeHost` | instances of it |
| `UpgradeAttempt` | what the upgrader promises of one task: the abstract specification `UpgradeHost` implements |
| `UpgradeHostProofs` | the inductive invariant of `UpgradeHost`, its safety theorems, and the implementation of `UpgradeAttempt` |
| `UpgradeRestart` | stop, start and verification of the service by the worker, with the processes themselves |
| `UpgradeRestartProofs` | its theorems |
| `TaskIndex` | `index.json`: bound, order, read-modify-write |
| `MCTaskIndex` | an instance of it |
| `TaskIndexProofs` | its theorems |
| `PlistProgram` | plists and their tokens, `plistProgram` over them, and what launchd runs |
| `InstallIdentity` | the probe and its three callers, with launchd, Homebrew and the user |
| `MCInstallIdentity` | instances of it, and the plists they use |
| `InstallIdentityProofs` | its theorems, and those about `PlistProgram` for every plist |
| `ConfigInstall` | `install-brew-config.sh` between the user's edits |
| `ConfigInstallProofs` | its theorems |
| `ConfigHub` | hub, callbacks, ticker, engine, caches |
| `MCConfigHub` | instances of it |
| `ConfigHubProofs` | its theorems |
| `LogFollower` | `tokenlive logs -f` on one log that is appended to, rotated and emptied |
| `LogFollowerProofs` | its theorems |
| `ReleasePublish` | the two release jobs, GitHub's releases and the Homebrew tap |
| `MCReleasePublish` | an instance of it |
| `ReleasePublishProofs` | its theorems |

The modules compose as the code does: `UpgradeHost` extends `UpgradeTask` and
instantiates `UpgradeAttempt` for all tasks; `InstallIdentity` extends `PlistProgram`, whose state machine reads the plists its probes find and whose worker plist says
what its jobs run.  `TaskIndex` and `UpgradeRestart` look closer at what is one
step of `UpgradeHost`: the write of the index in a cleanup, and the worker's way
from `installing` to its outcome.  Each has the other's side as the least that
the code allows: in `TaskIndex` any task that has a directory may be saved at any time, in
`UpgradeRestart` processes come and go at any time.  The remaining models share
no state with these or with one another.

### UpgradeHost and the code

| state | code |
|---|---|
| `disk[t]` | `<root>/<t>/task.json`: state, whether the secret was consumed, whether the worker's pid is recorded, `launch_unknown`, `cleanup_pending`. Other fields are identifiers and texts no branch reads |
| `dirs` | the tasks whose directory `<root>/<t>` exists, which is what a `Save` needs |
| `index` | the summaries of `index.json` |
| `lock` | the flock: free, a handler, or a worker |
| `confirmOver`, `late`, `budgetOver` | the three deadlines as sets of tasks: offer expired; not saved during the last `2*bootstrapTimeout`; older than `acceptedBudget` |
| `pc, todo, copy, overdue, cur, icopy` | a handler: its step, what `reconcile` has left to visit, the records it listed, the deadlines it saw passed, the record it is about to save, the index it read |
| `wpc, wcopy` | the worker's step and its record |
| `job, launches, brew` | the launchd job, the Bootstrap calls made, whether a command of the task may be running |

A file operation is one step; between a read and the write that depends on it
every other process may move.  `Scan` is `List` plus the choice of the records
`reconcile` has a case for; then one action per case (`ExpireConfirmation`,
`ReconcileLaunch`, `ReconcileInflight`, `BootoutJob`/`BootoutFails`), each with its
save as a step of its own, and `Store.Cleanup` as re-read, index write, and the two
halves of `os.RemoveAll`: `RemoveFiles` unlinks the record, `RemoveDir` the directory.  In
between a `Save` by somebody who still has the record puts it back; then, or when the
temporary file of such a write is caught in the directory, the directory stays.
`Prepare` is `BeginPrepare`, the reconciliation, `CheckActive`, `CreateTask` or
`RefuseTarget`, `Release`.  `Submit` is `SubmitLoad`, then `SubmitExpired`, or
`SubmitAccept`, `LaunchTask` and one of `SubmitLaunched`, `SubmitUnknown` (the
bootstrap reported an error and the job may be loaded), `SubmitFailed`, then
`Release`.  The worker has one action per save and one per outcome of what it
does between two saves.  `CallerDies` and `WorkerDies` are possible at every step;
a command outlives its worker.

Abstractions: `TryLock` and the `Load` that follows are one step (nobody else can
write the decisive transition in between without the lock; an unlocked save that
falls there is the same as one that falls before).  `List` is atomic.  A write that
fails for lack of space is not modelled; one that fails because the directory is
gone is.  Calls that change nothing (lock busy, wrong secret of an expired task,
resubmission of a queued task) are not actions.  Candidate, install id and version
checks are one refusal.  brew, launchd, the admin and the gateway are external and
appear through the outcomes the code distinguishes.

### UpgradeRestart and the code

`opt` is the keg of the opt link, `proc` the tokenlive processes with the keg their
code is from and the path they were started by, `loaded` and `job` what launchd
knows, `port` who answers `/health`.  The worker is `BrewUpgrade` (exit status zero
says nothing about where the link leads), `ServicePid` (the pid taken down before
the restart), `BrewStop`, `BrewStart`, and then polls: `ListPid`, `Ask` and `Judge`,
which is `HealthClient.Check` in its order: version, pid, executable.  Kegs may
report the same version (`SameVersion`), pids are reused, the service may crash
between any two of these reads, and a user may move the link by a `brew upgrade` in a
terminal at any time (`LinkMoves`).  A reported path is resolved when it is judged, not
when it was reported; `relinked` remembers whether the link has moved since the pid was
taken down.  `Foreign` says whether a tokenlive that is not launchd's may
be the one that listens on the port.  `/health` carries no pid, so with it nothing
ties the listed pid to the process that answered: see below.

### TaskIndex and the code

`there` are the working directories and `dir` their records, reduced to what the index
keeps: task, `UpdatedAt` in whole seconds (`clock`), and the cleanup mark; `index` is
`index.json`.  A cleanup begins with the mark as the list showed it (`ListPending`), and
is then `CleanupLoad`, `ReadIndex`, `WriteIndex`, `RemoveFiles`, `RemoveDir`, as in the code,
each a step; any number of readers may be in it at once, and each may die between any
two of them (`Dies`).  `Progress` is a save by whoever holds a copy, at any time, also over a
record that is being cleaned and into a directory that is being removed.  `Newest` is the
sort by `UpdatedAt`, newest first, cut to `MaxRecords`; the sort is not stable, so
among equal seconds any record may be the one that goes.  The bound is a constant,
20 in the code and 2 in the run.  `raced` remembers that a cleanup has replaced an index
other than the one it had read, or a newer summary of its own task.

### PlistProgram, InstallIdentity and the code

A plist is a sequence of entries; `PlistTokens` is what the XML decoder hands out of
it, `Read` one step of the state machine of `plistProgram`, `ReadAll` its loop over
the tokens, a recursive function, and `jobProgram` what launchd runs of the same
dictionary, the reference `PlistsRead` compares it with.  `JobPlist` is what launchd
accepts as a job: unique keys, a string for `Program`, an array of strings for
`ProgramArguments`; the other values are strings, arrays of strings, and dictionaries of
these.  Dictionaries nest once, which is what distinguishes the depth at which the code
looks for keys from a deeper one.  Arrays of dictionaries (several entries of a
`StartCalendarInterval`) are left out, of the run and of the theorem.  `Plists` are the documents that come
and go in the LaunchAgents directory, `Documents` others that `plistProgram` is tried
on.

In `InstallIdentity` `proc` has every tokenlive process with the path it was started
from and how far its probe is, `agents` the plists in `~/Library/LaunchAgents`, `jobs`
the pids `launchctl` lists.  A probe is `Resolve`, `CheckLink`, `FindPlist`, `CheckPid`,
each a read of what the world is at that moment, and ends as `ready` or with a
reason.  The checks of platform, user, marker, brew, tap, environment and domain
change nothing and depend on nothing here that moves: they are `RefusedElsewhere`,
which may end a probe at any step.  The scan of the LaunchAgents directory
is one step.  `Accept` starts the worker from the copy in the task's
directory.  `Orphans = FALSE` says that nobody takes away or replaces the plist of a
running job.

### ConfigInstall and the code

`active` and `baseline` are `config.yml` and `config.yml.default`; the installer is the
script's tests, `cmp` and replacements, one step each, and may die at any of them; the
user edits or removes either file at any time.  A replacement is `atomic_install`:
a copy beside the file and one `mv`, which is the step.  The baseline is replaced
first, as `docs/specs/2026-08-12-homebrew-config-upgrade-design.md:85` has it; a death
between the two moves leaves a config that counts as edited from then on, which
lines 88 to 91 of the design accept.  (For a missing config lines 78 and 79
name the active file first and the script replaces the baseline first; after a death
in between the config is still missing and the next run installs it, so the
difference has no consequence.)  `install-linux.sh:91-99` never replaces an
existing config and is not modelled.

### ConfigHub and the code

`db` is what `LoadGatewaySnapshot` would export, a version per section; `data` the
three maps of the hub; `last` the remembered blobs; `engine` the applied config;
`cache` the gateway's caches; `snap`, `cfg`, `kind` the locals of a refresh.  `Load`,
`SeeChanged`/`SkipUnchanged`, `ApplySnapshot`, `RememberSnapshot`, `ReadConfig`,
`ApplyGatewayConfig`, `PurgeCaches` are the critical sections of `Refresh` and
`OnReload` in the order of the code, and nothing serialises the refreshes of callbacks and
ticker.  The errors are those of the code: an export that fails loses the event
(`NotifiedInVain`), a blob that does not unmarshal (`Unreadable`) ends the refresh before
anything is touched (`ApplyFails`), and the engine may refuse a config, which nobody looks
at (`Apply`: in a refresh the error is dropped, at the start it is logged).  A config
without models (`NoModels`) is served and never applied.

The start of the process is part of the model: the database may be empty, and the first
refresh has succeeded or failed in `Init`; ticker and callbacks may run before the
gateway exists, and their `OnReload` then returns at once (`ReloadTooEarly`);
`GatewayBuilt` is the assignment of `app.Gateway`, and `BootRead`, `BootApply` apply the
hub's config to the new engine.  `app.Gateway` is written and read without
synchronisation; the model takes the assignment for one moment.  The filling of a
gateway cache is external and one step.

Three history variables name what the code does not make up for; the properties say what
holds until then, and section 3 what happens after.  `crossed`: a refresh remembered the
blobs of a snapshot that is not the one served any more.  `narrow`: a refresh for policies
or keys served a snapshot in which another section had changed.  `astray`: after an
application the engine did not run what the hub served, because it refused or because the
config was no longer the hub's.  Not modelled: `DeductCredits`.

### LogFollower and the code

`content` are the files by inode, `path` the one at the log's path (none between
lumberjack's rename and create), `handle`, `pos`, `offset` the follower's
`fileState`.  A line is a number and has length one; appends are whole lines, as the
logger writes them.  A tick is `Tick` (reopen a closed handle), `Check` (Stat and
its three outcomes), `Reopen` or `Rewind`, then `DrainLine` until `DrainEnd`, with
the service and the operator moving between any two of them.  The start
(`StartOpen`, `ShowTail`, `SeekEnd`) opens the path twice, as the code does.  A
truncation is noticed by a size below the offset only; `SilentRegrowth = FALSE`
excludes that an emptied file grows back to the offset unseen, which is the one way
in which lines inside the open file are skipped.  Not modelled: several logs at once
(they share nothing), the interrupt, filters and colours, the seek of
`readLastNLines` in large files.

### ReleasePublish and the code

`releases` are GitHub's releases in the order of creation, drafts and public ones;
several drafts of one tag may exist, and a tag leads to its public release or else
to one of the drafts (`NewestFirst` says which; the run takes the newest, the proofs
hold for both).  `mac[v]` and `linux[v]` are the
steps of the two jobs of version `v`, one action per remote call; `gh release
create` with assets is a draft, its uploads and its publication, and `--clobber` a
deletion before each upload, as `gh` performs them.  Both scripts begin with a `gh
release view` whose output and reason of failure they throw away: it may fail although
there is a release (`MacView`, `LinuxView`), and the job then creates one.  `blind[v]`
remembers that this happened to the Linux job of the present run.  Every run builds archives with
checksums of its own (`runs[v]`).  The tap is a sequence of commits: a push goes
through only on the commit it was cloned from.  `MacDies` and `LinuxDies` end a job
at any step (`set -e`, a lost runner), and `StartRun` repeats the run on what is left.
Runs of a version do not overlap, as the concurrency group of the workflow has it for
one ref; a manual dispatch from another ref is outside the model.  The Linux
archives are one asset; the Docker images and the `SKIP_` switches are left out.

## 3. Runs

Bounds are in the .cfg files and the MC modules.  Deadlock is checked except where
the system may stop: in `release` when the last run is over, in `store_index` when the
clock and the tasks are used up, in `restart` when the worker is done and the service
is down with every pid in use.

| run | instance | shows |
|---|---|---|
| `upgrade_races` | 2 tasks, 2 handlers, pid reuse, no signal deaths | `TypeOK`, `LaunchedOnce`, `LockExclusive`, `JobHasTask`, `RemovedIsOver`, `OutcomeIsProven`, `UnprovenBlocks`, `KeepsPromise` (the refinement of `UpgradeAttempt`) under every interleaving of two stale writers, a Submit or Prepare and a worker, with removals in two steps |
| `upgrade_live` | 1 task, 1 handler, signal deaths | `EventuallyResolved`, `CleanupCompletes` |
| `restart` | 3 kegs, two of one version, 3 pids | `TypeOK`, `ProvenIsTarget`, `ProvenIsRestarted` with a service that crashes, and a link that moves, between the reads of the proof |
| `store_index` | 3 tasks, an index of 2, a clock of 2 seconds, 2 cleaners | `TypeOK`, `SummaryRetained` with cleanups that overlap |
| `install` | 3 processes, 2 kegs, 2 labels, 2 plists; for `PlistsRead` also every plist of up to three of ten entries | `TypeOK`, `OneManager`, `PlistsRead` |
| `install_store` | the same, status commands and no workers | violated: `OneStore` |
| `install_worker` | the same, workers and no status commands | violated: `WorkerExecutes` |
| `hub` | callback and ticker at once from the start on, 2 edits of the routing config or the policies, a value that does not unmarshal | `TypeOK`, `HubIsWhole`, `EngineInStep`, `CachesInStep`, `HubConverges` |
| `hub_engine` | the same without that value | violated: `EngineFollowsAdmin` |
| `log_follow` | 5 lines, 3 files, 1 truncation | `TypeOK`, `FollowsInOrder`, `NothingSkipped`, `CatchesUp` |
| `config_install` | 3 defaults, 2 edits, any number of installs | `TypeOK`, `UserTextKept`, `PristineFollows` |
| `release` | 2 versions, one released twice, views that fail | `TypeOK`, `ReadyIsInstallable`, `PublishedComplete`, `TapMovesToInstallable` |

Why the bounds are enough.  A second handler is what a stale write needs: one
that listed the record and one that moves it on; `reconcile` never relates two
records, so more handlers repeat these roles.  In `upgrade_races` two handlers overlap
while there is one task; a second task, which is what `Blocks` and the lock between a
Prepare and an old worker need, may come after a launched attempt whose record says
`confirmation_expired` or `failed`, the two ends that claim something about the command,
and has one handler at a time (the constraint `Overlaps`; without it the instance has
too many states for TLC, and the proofs have it for any number of both).  A task passes
through each state at most a few times, so its life is explored in full.  In
`store_index` an index of two is the smallest whose order matters, and the third task is
one more than it holds; two seconds are what an order needs.  After the first race
`SummaryRetained` says no more of the index, and the constraint `Unraced` stops there.
In `restart` two kegs of one version and a third are the answers `Check` can
tell apart, and three pids are the service before, the service after and
somebody else.  In `install` three processes are two that might both manage and one that
asks; the plists are what `brew services` writes and a job that wraps the binary, and
the ten entries are the ways of `plistProgram` to be misled.  In the hub two edits
suffice for a config that changes between two loads, or changes back, or becomes
readable again; keys are treated as policies are, so one of the two is edited, and the
versions of the policies are interchangeable, so the first is fixed.  The follower's
three files are the one followed, one that replaces it and one that replaces that before
it is opened; five lines fill them before, between and after.  In `config_install`
nothing is bounded but the texts: the previous default, the new one, one more, and two of
the user's.  In `release` the second run of a version meets everything the first can
leave behind, and the other version is what may move the tap; of that version the Linux
job, which never touches the tap, waits after its first step.  What the runs have with
these bounds is proved for any.

Fairness.  `upgrade_live`: a worker's stage ends (every command has a timeout,
polling has a budget), deadlines pass, somebody goes on asking (the upgrade page
polls, each start of the service reconciles), and a reader that is killed again
and again gets past each single step in the end, as does a bootout.  No fairness is
assumed of `Prepare`, `Submit`, bootstrap or brew's success.  Pid reuse is excluded
there: a queued record whose dead worker's pid belongs to somebody else counts
as alive for ever (`manager.go:384`; the accepted budget only bounds started
states), and `EventuallyResolved` is violated with `PidReuse = TRUE`.  Hub: a refresh
that has started goes on, since it touches memory only (weak fairness); the ticker
keeps ticking and its export succeeds infinitely often (strong fairness), and the start
of the process goes on (weak fairness).  None is assumed of callbacks.  `log_follow`: the ticker fires and reads return, so the follower goes on
(weak fairness); nothing is assumed of the service, and `CatchesUp` speaks of
behaviours in which the log exists in the end.

### What the violated runs say

1. `install_worker`: the job of an accepted task runs a copy of the binary,
   `<root>/<task>/executor`; `upgrade-worker` probes its own path first, and the
   probe refuses whatever does not lie in the Cellar (`identity.go:106`).  Every
   worker ends with status 2 before it opens its task, and the task ends as
   `launch_unknown` or `needs_attention` by a later read.  The worker of `UpgradeHost`
   is therefore what `worker.go` does once it is allowed to start.
2. `hub_engine`: `spec.md:34` of `embedded-config-provider` in
   `openspec/changes/merge-gateway-admin` says that admin mutations "SHALL update the live
   Engine ... without process restart".  An operator changes the routing config and a
   policy.  The refresh for the policy is the first to load both; it remembers all three
   blobs, and `OnReload`, called with `policies`, purges one cache.  The refresh for the
   config and every later tick find nothing changed, so the engine keeps the old routing
   config until the next change of the database.  Nothing failed and nothing overlapped:
   the property leaves out the runs in which the engine refused a config or got one late
   (`astray`) or the blobs remembered were not those served (`crossed`).  The alias cache
   is left behind in the same way.
3. `install_store`: the install id hashes the versioned keg (`manager.go:71`), so it
   changes with the upgrade it is to follow.  After `brew upgrade` the status command
   reads another store than the service that still runs; the restarted service too
   begins with an empty store and a lock of its own.

### What does not hold

The properties of the passing runs say exactly how far the code keeps what its comments
and documents promise.  Beyond that lies the following; each was found by TLC, either as
a definition that no run checks (named here) or when a constant, a constraint or an
exception is changed as said.

*The upgrade store, with two handlers or a handler and the CLI* (`reconcile` takes no
lock, `manager.go:313-314` calls it "safe to call from API reads, startup and the CLI"):

- `identity.go:7-8` says "any state that cannot be proven terminal blocks new tasks".
  `UnprovenBlocks` has one exception, without which it is violated: a read lists an offer
  just as it expires; a `Submit` that passed the window test launches it; the worker
  starts brew; the read saves `confirmation_expired` over the record.  Until the
  worker's next save nothing blocks, and if it dies there nothing ever does.
- The same stale copies may do harm where no command runs.  A read that judged the worker
  gone, because it had just finished, saves `needs_attention` over its outcome: if a
  Prepare has begun a new task meanwhile, two records block at once.  A cleanup writes what the disk holds by then into the index, so a retained
  summary need not be that of a success.
- A `Save` that falls between the unlinks and the rmdir of `os.RemoveAll` (`state.go:285`)
  puts the record back.  `KeepsPromise` says what this may not do: the task is not
  launched again and does no work (`Return` of `UpgradeAttempt` leads back to `ended`).
  What comes back may carry the mark, and is then cleaned again; or it is what
  the stale writer had decided, `needs_attention`, `queued` or `confirmation_expired`,
  without a mark, and stays: a blocking record of a task that is over, until somebody
  removes it.
- The RunAtLoad worker may try the lock before the `Submit` that launched it has
  released it.  It records `needs_attention` and returns; Submit's last save writes
  `queued` over it, and the accepted task is never executed.
- Two cleanups at once: `appendIndex` (`state.go:289`) reads, extends and replaces the
  index without a lock, so the second forgets the summary of the first, although the
  comment of `Cleanup` says it "is retained".  `SummaryRetained` holds until the first
  index is replaced that was not the one read (`raced`).

*The upgrade's assumptions*:

- `SignalDeaths = TRUE`.  `OutcomeIsProven` and with it `UnprovenBlocks`: `os/exec`
  reports a death by signal as `*exec.ExitError`, so the branch meant for it
  (`exec_runner.go:47`) is not reached, and the upgrade is recorded as `failed`, a claim
  of a known end.
- `PidReuse = TRUE`.  `EventuallyResolved`, as said under fairness.
- `ProvenIsAlwaysTarget` of `UpgradeRestart`: `verify.go:33` says "provably the confirmed
  target", but the path of the answer is resolved through the link of a later moment.  A
  service that was started while the link led to another keg of the same version is
  proven as the target when a user's `brew upgrade` moves the link back before it is
  judged.  `ProvenIsTarget` holds unless the link moved after the pid was taken down.
- `Foreign = TRUE`.  `ProvenIsTarget`, `ProvenIsRestarted`: a tokenlive started by hand
  answers on the port while launchd lists the pid of another process; `/health` carries
  no pid.
- `Orphans = TRUE` in `InstallIdentity`.  `OneManager`: when the plist of a running
  service is replaced by one of another label, a second process finds exactly one
  match and its own pid under it.
- A `Program` that is present and empty.  `plistProgram` tells a missing `Program` by
  `program == ""` (`plist.go:89`), so it returns the first of `ProgramArguments` and no
  error, although `plist.go:13` says "Program if present, else ProgramArguments[0]".
  The proof of `PlistsAreRead` came upon it: `EmptyProgram` is the one exception of
  `PlistsRead`.

*The hub* (`spec.md:33-42` promises that mutations reach the live engine):

- `crossed`: of two overlapping refreshes one is the last to apply and the other the last
  to remember.  The hub then serves an old export, every later sync finds "nothing
  changed", and the "safety net" of `hub.go:95-96` does not hold until the database
  changes again.  `HubConverges` excepts these runs.
- `astray`: the engine refuses a config and the error is dropped (`assemble.go:192`; logged
  at the start, line 225), with the blobs remembered, so it is not tried again; or two
  refreshes, or a refresh and the start of the process, apply their configs in the
  opposite order of their reads and the older one stays.
- `narrow`: `hub_engine` above; `CachesInStep` too falls with it.
- A config without models is served and never applied (`assemble.go:191`): the engine
  keeps the models the operator deleted.

*Releases*: the Linux job takes a failed view for a missing release
(`publish-linux-release.sh:169`) and creates a draft beside the one the macOS job is
filling.  `gh release edit` may find and publish that empty draft: the gate passes, the tap
moves, and the public release lacks the archives, although
`publish-brew-release.sh:179-180` says "publish only after the required macOS assets were
uploaded".  `PublishesWhatItFilled` states that without the exception `blind` and is
violated.  The same failure in the macOS job does no harm to what is checked: the job
fills and publishes a release of its own, or dies.  `LinuxIsPublic`: both jobs may
look before either has created the release; the macOS job then publishes the one it
created itself, and the Linux job may upload to its own draft, which nobody publishes,
and succeed.

*The log viewer*: `SilentRegrowth = TRUE`.  `NothingSkipped`: a file emptied and refilled
beyond the offset between two ticks is read from the middle.

## 4. Proofs

`UpgradeHostProofs`, for any sets of tasks and callers, from `HostAssumption` and
`NoRecordAssumption` (the identifiers are distinct, the record marker is no
record):

- `TypeCorrect`: `Spec => []TypeOK`;
- `Inductive`: `Spec => []IInv`;
- `LaunchedAtMostOnce`, `LockExcludes`, `JobsHaveTasks`, `RemovedTasksAreOver`:
  four safety invariants of `upgrade_races`.

None of these invariants is inductive: each speaks of the disk, and a stale copy
in a handler's memory can be written back at any time.  `IInv` therefore says what
*every copy* may hold.  Its parts, each preserved by every action:

- `LockHeld`: steps that rely on the lock hold it;
- `WritesClose`: the record a handler has decided to save is not an offer, the
  only state that can be launched;
- `SubmitFirst`: a Submit on its way to Bootstrap has a task that was never
  launched and whose directory exists; from its acceptance on the record is no
  offer;
- `LaunchClosesOffer`: after the launch neither the record nor the worker's copy is
  an offer, and there is a worker only after a launch;
- `MarkedIsOver`: a cleanup mark, on disk or in any copy, exists only when the worker
  is past everything it writes and no command runs; `CleansMarked`: only a marked
  record leads a reader into the cleanup; `CleaningIsOver`: between the bootout and
  the removal job, worker and command are gone for good;
- `Quiet`: the steps of the worker at which no command can be running;
- `DirsInv`: a record lies in a directory, and only the directory of a launched task can
  be without one, so that only there a save can bring a record back;
- `JobHasTask` and `RemovedIsOver` themselves.

`LockExclusive` follows from `LockHeld`; `LaunchedOnce` from `SubmitFirst` and
`LaunchClosesOffer`; `RemovedIsOver` from the cleaning parts, which a record that came
back preserves since its task is over.
The proof has one step per action and lemmas for the actions that disturb several
parts.  The parts of `IInv` were also checked with TLC on both upgrade instances.

`OutcomesAreLast` (`OutcomeInv`): the outcome is the last thing a worker writes, and no
handler writes one, so a record that claims one tells where its worker is.  It holds
for any number of handlers and stale copies.  Where no command dies from a signal two
results follow from it and `IInv`, for any number of handlers too: `OutcomesAreProven`
(`OutcomeIsProven`), and `UnprovenTasksBlock` (`UnprovenBlocks`): a command runs only after
the launch, so the record exists and is no offer; it claims no outcome; of the states
that are left all block but the expiry a stale reader wrote.

`UpgraderKeepsPromise` shows that `UpgradeHost` implements `UpgradeAttempt` for every
task: `IInv` puts each step of the detailed model, under the refinement mapping,
among the steps of the promise or those that change nothing in it, action by
action; initial states map to initial states.  A handler's save is the case to look at
(`SavePasses`): over a record it changes nothing in the promise, without a directory it
fails, and into a directory that is being removed it is the step `Return`, because
`DirsInv` and `RemovedIsOver` say that such a task was launched and has ended.

`LogFollowerProofs`, from `FollowerAssumption`: `FollowerTypeCorrect`, `LinesInOrder`
and, for `SilentRegrowth = FALSE`, `NothingIsSkipped`.  Order is not inductive by
itself.  The invariant adds that lines ascend inside a file and from file to file
(`LogAscends`), that the follower's file is never newer than the log (`PlaceKept`),
and that whatever may still be read is newer than everything followed (`UnreadIsNew`):
behind the position, from the start of a file that has replaced the open one, and
from the start of an emptied one.

`ReleasePublishProofs`, from `PublishAssumption`, for any versions, any number of runs,
either `NewestFirst` and any views that fail: `ReleaseTypeCorrect`, `ReadyReleases`,
`PublishesComplete`, `TapIsInstallable`.  The invariant says, version by version, what an
upload has put in place (`UploadsInPlace`), that unless the Linux view failed no draft of
the Linux job appears beside a release the macOS job has found (`FoundStays`: whoever
looked first saw the same), that from the upload on the tag leads to archives of this run
(`ArchivesOfRun`), that with a failed view they are at least on a release of the tag and the
tap moves only behind a public one (`ArchivesKept`), and that nobody else commits formulas
of the version (`TapIsOwn`).  Frame lemmas (`Kept`, `OthersKept`) carry it over the steps of
other versions.

`ConfigHubProofs`, from `HubAssumption` and `NothingAssumption`, for any handlers,
events, versions and number of edits:

- `HubTypeCorrect`, `HubServesOneExport` (`HubIsWhole`).  `HubInv` strengthens it to the
  snapshots of the refreshes under way and to the config a refresh or the start of the
  process is about to apply.
- `EngineStaysInStep` (`EngineInStep`) and `CachesStayInStep` (`CachesInStep`), with no
  hypothesis on how refreshes overlap, which kinds of events there are, or what fails.
  `CachesInv` adds that nothing is cached before the start.  Each section of the hub that
  changes is followed by a refresh that has yet to hand it on: `Unmoved` says which steps
  leave that as it is (`UnmovedKeeps`), `ApplyKeeps` and `RefreshKeeps` treat the others.  A
  refresh of another kind than the change is what `narrow` marks, and an application after
  which the engine does not run what the hub serves what `astray` marks; neither history
  is reset.

`TaskIndexProofs`, from `IndexAssumption` and `NoRecordAssumption`, for any tasks,
cleaners, bound and clock, however cleanups overlap: `IndexTypeCorrect` (with the bound of
the index, by a lemma on the cardinality of what `Newest` keeps) and `SummariesRetained`.
The invariant adds that files go only behind a summary (`Accounted`, `Summarised`), and that
until a race every entry of the index is the summary last written of its task, and every
such summary is there or was displaced (`IndexTrue`).  `AddedIsRetained` and
`OthersAreRetained` say it of one write: the record put in, and those that were in, are
kept by `Newest` or lose their place to newer ones.

`UpgradeRestartProofs`, from `RestartAssumption` and `NoneAssumption`:
`RestartTypeCorrect` and, for `Foreign = FALSE`, `SuccessIsTarget` and
`SuccessIsRestart`.  The strengthening: whoever listens is launchd's process,
started through the opt link (`ServiceServes`); from the stop on, launchd's process is
the one whose pid was taken down or a young one, and a young one runs the keg the
link leads to as long as nobody moves it (`OldIsPrevious`); and a poll that lists another pid is answered by a
young process (`ListedIsYoung`, `AnswersForService`).

`InstallIdentityProofs`, from `IdentityAssumption`, `ProcessAssumption` and
`PlistAssumption` (what is written and tried are jobs in the sense of launchd):

- `IdentityTypeCorrect`, also where plists of running jobs go or change: a probe that
  is ready has resolved a keg and found a label.
- `ManagersAreOne` for `Orphans = FALSE`.  The invariant follows a probe step by step:
  what has found its label was the only match, a job with a process keeps its plist,
  so two processes that are ready found the same label, and launchd lists one pid under
  it.
- `PlistsAreRead` (`PlistsRead`), for plists of any length and order of keys whose values
  are strings, arrays of strings and dictionaries of these,
  from `ProgramIsRead`, which says it of every job plist.  The loop over the tokens is
  followed by induction.  The library's induction theorems cannot be used, so
  `LeastNatural` derives that sets of natural numbers have least elements from the
  well-foundedness of finite sets under inclusion, `Induction` is stated for sets, and
  `ReadAllRuns` and `ReadAllIs` show by it that the recursive function `ReadAll` has a
  value at every prefix.  `ReadConcat` and `ReadParts` cut the tokens into those of the
  entries; `ValueRead` says that the tokens of a value leave the state as it was but for
  the program and the arguments; `EntryFinds` and `PlistFinds` that the state after any
  number of entries holds the program and the arguments found among them.

`ConfigInstallProofs`, from `TextAssumption`: `ConfigTypeCorrect`, `UserTextIsKept`,
`PristineConfigFollows`.  The invariant says what each step of the installer knows
of the two files unless the user has written since.

Model-checked only: the liveness properties `EventuallyResolved`, `CleanupCompletes`,
`HubConverges` and `CatchesUp`, since the proof system has neither `ENABLED` nor reasoning
about fairness.  Every invariant, action property and refinement the passing runs check
is a theorem.  Some have a hypothesis on a constant that the run has too:
`SignalDeaths = FALSE` (`OutcomesAreProven`, `UnprovenTasksBlock`), `Orphans = FALSE`
(`ManagersAreOne`), `SilentRegrowth = FALSE` (`NothingIsSkipped`), `Foreign = FALSE` (the
three of `UpgradeRestartProofs`).  No theorem supposes that handlers, cleanups or refreshes
come one at a time.  What the code does without the hypotheses, and beyond the exceptions
the properties name, is said in section 3.

## 5. Not modelled, and the plan

Not modelled: packaging scripts, the metrics sink and the command line
(no state); `formula.go`, a line parser and a copy whose fixtures reach every branch;
`DeductCredits`, which nothing in `src/` calls but a test; the seek of
`readLastNLines` in large files; a wait that hangs on an inherited stdout
(nothing in the code would end it); corrupt records and single failing writes of the
store; arrays of dictionaries in a plist; a release run dispatched by hand beside the
tag's; `Close`; `brew`, `launchctl`, the admin and gateway libraries (external).

What is left to do:

1. `HubCredits`, once a caller of `DeductCredits` exists: deductions against refreshes,
   and the unlimited mark -1.
2. `TailLines`: the seek of `readLastNLines` against a reference definition.
