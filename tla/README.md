# github-runner in TLA+

Specifications of the concurrent and failure-prone parts of `github-runner`, a self-hosted
GitHub Actions runner written in Go, the TLC configurations that check them on small
instances, and TLAPS proofs for every size. `PROJECT.json` maps each definition to the
lines it models and lists runs, mutants, findings, hazards and theorems.

    tlc -config RunnerPoolSafety.cfg MCRunnerPool     # one run
    tlapm RunnerPoolProofs.tla                        # one module's proofs

## 1. The system

| Component | State it keeps | Operations | Interacts with |
|---|---|---|---|
| **Manager** (`internal/runner/manager.go`) | root context, signal channel, WaitGroup, pools | `Start`: signal goroutine, metrics and health servers, one pool per `[[runners]]`, drain with a timeout | cancels the context everyone watches; waits for every goroutine |
| **Pool** (`pool.go`) | job channel of capacity `concurrency`, `activeJobs` | `Run`, `runWorker` | poller sends, workers receive |
| **Poller** (`poller.go`) | error counter, ticker period, the job it holds | `Run`: acquire, back off, send | `AcquireJob` at GitHub, pool channel |
| **Worker, lifecycle, heartbeat** (`worker.go`, `lifecycle.go`, `heartbeat.go`) | lifecycle state, `jobFailed`, a heartbeat goroutine per execution | `Execute`: claim, hooks, prepare, steps, post hooks, report, deferred clean-up | executor, GitHub status reports |
| **GitHub client** (`internal/github`) | shared rate-limit record | `doJSON`: wait for the limit, send, retry with backoff | called by poller, workers and heartbeats at once |
| **Local cache** (`internal/cache/local.go`) | in-memory index, `index.json`, data files, lock file | `Put`, `PutWithFlock`, `Get`, `Delete`, `Prune`, `NewLocalCache` | several processes on one directory |
| **Artifact store** (`internal/artifact`) | data and metadata files, RWMutex | `Upload`, `Download`, `List`, `Delete`, `EnforceRetention` | the sweep takes no lock |
| **Command line** (`internal/cli`, `internal/config`) | configuration file, PID file; GitHub's list of runners | `register`, `unregister`, `start`, `stop`, `cache clear`, `cache prune` (and commands that only read) | each command loads the file, calls GitHub, writes the file in place |
| **Executors** (`internal/executor/*`) | workspaces, processes, containers | `New`, `Prepare`, `Run`, `Cleanup` | called by `Execute`; the Docker daemon |
| **Masker** (`internal/secret/masker.go`) | line buffer (unlocked), patterns (locked) | `AddSecret`, `Write`, `Flush` | job output |
| **Config watcher** (`internal/config/watcher.go`) | debounce timer, stopped flag | `Run`, `reload` | fsnotify, the callback; the file the commands write |
| **S3 cache** (`internal/cache/s3.go`) | objects and their `expires_at` tags | `Put`, `Get`, `Delete`, `Prune`, `Stats` | runners that share a bucket; several calls per operation |
| Hooks, health checks, GCS cache, job parsing, metrics, logging | little or none | | |

What is hard here: workers and the poller race the end of the context; every early return
of `Execute` must undo what was begun; goroutines on one client share a record they
overwrite with answers in any order; operations on disk are cut short by failures, crashes
and other processes; timers fire while what armed them stops; a shutdown waits for everyone. What makes each part correct:

* pool: an assigned job has one holder, is run at most once, gets the verdict that its
  steps earned, once; the counter is exact; the pool takes only work it has room for; it
  stops when told to;
* manager: nothing stops unasked, `nil` means that everything stopped, the exit comes;
* client: bounded retries, a request repeated only if the call had no definite answer to it, no false success, no request beyond the limit, calls return;
* cache: memory, index and files agree; the index tells the truth after any crash; limit
  and LRU order hold;
* artifacts: list and data agree, readers get what was listed or an error - both for names no
  failure, crash or overlap with the sweep has put in doubt -, retention removes nothing early and,
  where its removals succeed, leaves nothing that is due;
* command line: what is registered stays in the file until it is removed at GitHub, a
  running daemon can be stopped;
* executors: nothing is left behind on any way out, a killed step is no success, a timeout
  ends the step;
* watcher: the last callback had what is in the file, and a stopped watcher starts nothing (a library
  so far: nothing in the program creates a `Watcher`, so the daemon keeps the configuration it started with);
* S3 cache: pruning reaches everything that is due and whose tag it can read, it ends, and it removes nothing live;
* masker: output is masked as if it had been written at once, and nothing of it is lost.

## 2. Modules

| Module | Models | Notes |
|---|---|---|
| `Lifecycle` | `lifecycle.go`: states, transition table, `Transition`, `ToJobStatus` | extended by `RunnerPool` |
| `JobDispatch` | what any runner promises of jobs: queued, waiting, running, gone, each at most once, a bounded number running | abstract; `RunnerPool` refines it |
| `RunnerPool` | one pool: poller, channel, workers in `Execute`, heartbeats, root context; GitHub's record of the jobs as the client calls change it | every call that leaves the process is an action of its own |
| `RunnerPoolProofs` | proofs about `RunnerPool`, `PollBackoff` and `PollingPool` | |
| `Manager`, `ManagerProofs` | `Manager.Start`, the two servers' `Start`/`Shutdown` | a pool is reduced to what `RunnerPool` shows: it runs until the context is done and stops some time later |
| `GitHubClient`, `GitHubClientProofs` | `doJSON`, `backoff`, `updateRateLimit`, `RateLimitInfo` | time is the rate-limit window |
| `PollBackoff` | error counter and ticker period of `Poller.Run` | kept out of `RunnerPool`, where they only decide when a tick comes |
| `PollingPool` | the composition of the two: the pool whose polls succeed or fail, and the counter they drive | proved to implement both, in `RunnerPoolProofs` |
| `LocalCache`, `LocalCacheProofs` | `local.go`, step by step on the disk, and the commands `cache clear` and `cache prune` | content is its size |
| `S3Cache`, `S3CacheProofs` | `s3.go`, call by call | keys are numbers in listing order; an object is the number of its `Put` and its expiry |
| `ArtifactStore`, `ArtifactStoreProofs` | `manager.go` and `retention.go` of `internal/artifact` | data files are inodes, content is the number of an upload |
| `Registration` | `register`, `unregister`, `start`, `stop`; loading, `${VAR}` interpolation, validation and saving of the file | an entry is its name, its token's kind and whether it is complete; proofs in `ConfigProofs` |
| `Watcher` | `watcher.go`: the loop of `Run`, the debounce timers, the reloads they start | the file is a version, how much of it is written, and whether that validates; proofs in `ConfigProofs` |
| `ConfigProofs` | proofs about `Watcher` and `Registration` | the two share no name, so that one module can extend both |
| `Masker` | `masker.go` | text is a sequence of tokens; each access to the unlocked buffer is a step; proofs in `StepExecutionProofs`, with which it shares no name |
| `StepExecution`, `StepExecutionProofs` | shell and Docker executors, the scaffolds of the other two | what `RunnerPool` abstracts to an outcome; a step is its exit status and whether it leaves a background process |
| `MC*` | constants and symmetry for TLC | `MCLocalCache` also has the two eviction loops as the code writes them, `MCMasker` the masking as a fold |

Definitions marked "Wrong on purpose" are the mutants: plausible slips in the definition
that follows them. Replacing the definition by its mutant makes the property named in
`PROJECT.json` fail, so no property holds by the shape of its model.

**RunnerPool.** `pc[w]` is the line a worker goroutine is at: `select` and `received` in
`runWorker`, the rest inside `Execute`. `held` is the job between `AcquireJob` and the
channel send. `Unwind` is the whole of `Execute`'s deferred calls and the rest of the loop
body. A report (`ReportJobStatus`, `ReportStepStatus`) is lost for certain when the context
is done, since the client then sends nothing, and perhaps otherwise. `outcomes` and
`workspaces` are what the executor does, as `Execute` uses it; only the shell executor makes a workspace (`WorkspaceOf`). `executor` is the
type in the pool's configuration, one of `Executors`; `executor.New` fails for a type that is not in `Registered`. In the shipped daemon that is every type
(section 5): the runs and theorems about jobs that run are about the daemon once its factories are registered, and `NothingRunsUnregistered` about the daemon as it is. A job's `Timeout` is computed
by the code and not enforced, so there is no timeout action. `Phantom` is job 0, which an
empty 2xx answer to `AcquireJob` decodes to.

**Manager.** `main` is where `Start` is. `handler` distinguishes the signal goroutine that
returned after SIGTERM (its channel stays registered and is read by nobody) from the one
that unregistered it. `shut` is the set of `http.Server`s that were shut down, by themselves
or by `Start`; both happen in any order, also before `Serve` is called.

**GitHubClient.** `NextWindow` ends a rate-limit window; what was learnt of it is `current`
no more. `Check`, `Send` and `Receive` are separate steps, so records go stale in between.
`applied` counts the requests that took effect at GitHub, whatever the caller heard of them. A request given up before GitHub had served it (`abandoned`)
may be served later (`ServeAbandoned`), also after its call has returned. `Timeout` is retried, any other network error (`NetError`) is not, as `isRetryableNetError`
has it. `ServeOther` stands for the requests of earlier calls and of other clients with the same token, which use up the window unseen: `lossy` marks such a window.

**LocalCache.** A `Put` is `PutBegin` (lock, removal of the old file), `PutWrite`,
`PutIndex` (entry and eviction) and `Save`; the others are one step and `Save`. A process may
crash between any two. A removal that fails is ignored by the code and leaves its file (`TryRemove`), except in `Delete`, which
then returns before it changes anything. The removal of several files by one eviction is taken as one step.
`evictLRU` is what the loops of `evictLRULocked` and `Prune` compute, the least number of oldest entries whose removal is enough; `MCLocalCache` has the
loops themselves, and its assumption `LoopsAgree` compares both with `evictLRU` on every small index. The clock
advances when it is read into an index, as the nanosecond clock of the code does. Statistics counters
are left out. Several processes use `PutWithFlock`. `runCacheClear` and `pruneCache` act on the files without lock or index:
`os.RemoveAll` may stop half way, and the directory made afterwards lacks the data directory, so that a running daemon's
`Put` fails until it is started again (`dataDir`).

**ArtifactStore.** An `Upload` is `UploadBegin`, `UploadCreate`, `UploadCopy`, `UploadMeta`
under the lock; `Download` opens under the read lock and `ReadRest` reads without it; the sweep is
`SweepBegin`, then per name `SweepRead`, `SweepData`, `SweepMeta`, then `SweepEnd`. Sources and writes may fail, and so may every removal: `Delete` then
returns the error, the sweep goes on. An `Upload` whose source fails ends the gzip stream all the same, so the part it wrote (`Cut`) reads as a sound file; only a failing write or a crash
leaves one that a reader notices (`Torn`). One job's
directory is modelled: different jobs share nothing but the mutex. Three variables only record history: `doubt` (names whose last operation failed, crashed or
overlapped the sweep), `raced` and `promise`.

**Registration.** A command is `Begin`, its calls to GitHub (`RegisterCall`, or `Find` and
`Remove` per runner), then `Create` (the file is truncated) and `Write`; it may fail or be interrupted
at each. `Load` expands `${VAR}`, so a save makes what was a reference a literal, or nothing if
the variable was not set. `start` refuses what `Validate` refuses; `Edit` is the operator who completes
an entry, which is a Docker runner's as in the repository's README. `start` and `stop` are modelled with one `--pid-file`, without
which `start` writes none. Three variables record history only: `mine`, `intact`, `alone`.

**StepExecution.** `pc[w]` is the call a worker is in. A step's context may end at any moment after
`BeginStep`: that is the timeout or the shutdown. `Spawn`, `ShellActs`, `KillShell` and `ShellReturns` are the
shell step; a background process (`child`) holds the output pipe, for which `cmd.Wait` waits. `Pull`,
`Create`, `Start`, `StreamLogs`, `Wait`, `ContainerRemove` are the Docker step; containers are named after job
and step index, and outlive the process. `stray` and `littered` hold what the code cannot know of or failed to remove.

**PollingPool.** `PollBacksOff` pairs every way a poll can end with what the counter and the ticker do about it: an
error, which a lost answer is too, with `PollFailed`, everything else with `PollSucceeded`, before the job is sent on.

**Watcher.** Each write of the file makes an event, each `write` event a new timer (`HandleEvent`); `timer.Stop` has no effect on
one that has fired, so several reloads may be under way (`task`). The file is emptied and then
written in pieces, as `saveConfig` does it, or replaced by a rename, after which fsnotify watches a file nobody
writes (`watching`). The write event of a rename's target does not reach a watch on the file itself. `noticed`, `undisturbed`, `begun`
and `late` record history only.

**S3Cache.** `Get` is `GetObject`, `GetTags` and perhaps `GetDelete`; `Prune` is `List`, then `PruneTags` and perhaps `PruneDelete` per
key of the page, then the next page. S3 itself is strongly consistent, lists in key order and
continues after the last key listed. A failing `DeleteObject` may have been served. A failing `GetObject` or
`PutObject` that was not served changes nothing and is left out. An expiry goes through its tag (`ExpiresTag`): the time is formatted in the local zone of the runner and put into
a URL-encoded string as it is, so the tag of a runner east of UTC (`East`) comes back `Garbled` and, as `isExpiredByTags` has it, never expires (`TagExpired`). `judged`, `due` and `ok` record history only.

**Masker.** `Write` copies the patterns under the lock; the append (`AppendRead`, `AppendWrite`), the search for the last newline (`Look`)
and the assignment of what remains (`Take`) are separate accesses to `m.buf`. `stage[w]` is the access a writer is at. `Flush` comes once, when the job is over.
`MaskPattern` is `strings.ReplaceAll`, `maskString` the loop over the patterns; both are recursive functions, so that they can be proved about, and the
assumption `DefinitionsAgree` of `MCMasker` compares `maskString` and `PlainText` with a fold and a selection on every short text. `raced`, `cut`, `late` and `lost` record history
only: they are the circumstances under which the code promises less.

## 3. Runs

| Run | Instance | Shows |
|---|---|---|
| `pool_safety` | 2 workers, 2 jobs (one with a forgiven and a strict step, one without), a shell, a Docker and an unregistered executor, every fault but the empty reply | `OneHolder`, `ActiveJobsExact`, `LifecycleInStep`, `StepHasWorkspace`, `VerdictJustified`, `VerdictFinal`, and `Refines`: the pool implements `JobDispatch` |
| `pool_polling` | `PollingPool`: 1 worker, 1 slot, 2 jobs and any number of phantoms; a registered and an unregistered executor; a failing Prepare; 5 errors in a row | `Backpressure`, `PeriodJustified`; under fairness `ShutdownCompletes`, `AcquiredGetsVerdict`, `HeartbeatsEnd` |
| `manager` | 2 pools that may hang, 2 signals, every fault | `CleanExit`, `NoSpontaneousStop`, `ShutdownBounded`, `CleanShutdown` |
| `client` | 2 callers, 1 retry, window of 4, reserve of 2, every fault, late service, other users of the token | `AppliedOnce`, `SuccessTookEffect`, `NeverForbidden`, `CallsReturn` |
| `cache` | 1 process, 2 keys, 2 limits, the cache commands; writes, index saves and removals that fail; crashes | `StoresAgree`, `IndexTruthful`, `WithinLimit`, `EvictsOldest` |
| `s3` | 2 runners, one of them east of UTC, 2 keys on pages of one, 4 Puts, failing tag reads and deletions | `PruneThorough`, `LiveKept`, `PruneReturns` |
| `artifacts` | 2 clients and a sweep, 2 names, 2 uploads; sources, data and metadata writes and removals that fail; crashes | `Agree`, `DownloadHonest`, `RetentionExact` |
| `registration` | 1 shell, 2 names, pages of 3, 3 ids, 2 daemons, every fault | `StillListed`, `DaemonStoppable` |
| `executors` | 1 worker, 2 jobs of 2 steps, every fault | `ContainersRemoved`, `WorkspaceRemoved`, `SuccessHonest`, `TimeoutEnforced` |
| `watcher` | 4 changes of the file, every fault | `LateOnlyIfBegun`, `FollowsFile` |
| `masker` | 2 writers, 2 secrets (one a piece of the other), 4 tokens, lines of 2 | `MaskedAsAWhole`, `NothingLost` |
| `cache_lost_entry` | violation: 2 processes with the file lock | they drop each other's entries (`NoLostEntry`) |

**Bounds.** Two workers and two jobs are the least with which jobs overtake each other and
one execution could disturb another; different step lists bring every branch of the step
loop. With one worker and one slot, two jobs and phantoms, which never run out, are more than `Backpressure` allows; five
errors in a row reach the backoff and its cap for the interval of the run (in units of ten seconds: 7, of which the fourth error makes 28, the
fifth the cap of 30). Two pools let
one hang while the other stops; two signals are the least that overflow the channel.
Two callers are the least that use up a window between one's look and its request; for two a reserve of two is the
smallest that is enough, which is what `client` sits on; the code's
reserve of a twentieth of GitHub's 5000 is far above it for a handful of callers. In the cache two keys, the sizes
1 and 3 and the limits none and 2 give no eviction, one, several, and an entry too large for the
limit; three clock readings are two Puts and a Get, whose order a Prune under a smaller limit must follow, or an entry's life and its end. Two uploads are a first one and the one that replaces
it, or one per name; two ticks let a life of 1 and the sweep's maximum of 1 end, and not the default of 2. In `registration` one shell is enough for what holds: nothing orders two
commands, and once they overlap `intact` is FALSE. Three ids give a registration, a
re-registration and a second runner, and all of them fit on a page; two daemons are the killed one and its successor. In
`executors` workers share only what is named after a job, which one worker has at a time; two jobs of two steps bring
reuse of a workspace or a container name after a crash. In `s3` two keys on pages of one give a page boundary before, at and after
whatever the other runner puts or deletes; four Puts let a key be put anew after it expired, on either page. Four changes of the
watched file are a write in three pieces and the beginning of another, or two writes, with a timer each, so that three reloads overlap. Four tokens and lines of
two give every position of the newline, a secret cut by the limit and one split between writes. All
clocks and counters that grow without bound in the code are capped in guards (`MaxTime`, `MaxUploads`, `MaxErrors`, `MaxSignals`, `MaxIds`, `MaxPids`, `MaxSteps`, `MaxPuts`, `MaxChanges`, `MaxInput`).
`TypeOK` is proved for the pool, the manager, the client, the backoff, the watcher, the S3 cache, the artifact store, the executors and the masker, and in the other modules
describes the state; so are `HeartbeatWhileRunning`, `UnregisteredRunsNothing`, `AttemptsBounded`, `SlowsDown`, `StepsApart`, `Coalesced` and `HitHonest`, which no run repeats.
`CHECK_DEADLOCK FALSE` is used where the capped clock really ends the behaviour, or where
the system rightly waits for ever (a stopped watcher, a command line nobody uses).

**Fairness.** `RunnerPool`: goroutines are scheduled, the ticker ticks, GitHub and the
executor answer or fail; nothing makes the context end. `Manager`: its goroutines run; nothing is
assumed of signals, failures or how long pools take. `ShutdownBounded` names the one timer it
needs (`WF_vars(Expire)`) as its premise, so that `CleanShutdown` cannot lean on it. `GitHubClient`: timers fire, windows end, a
request is answered or times out (the client has a 60 s timeout). `StepExecution`: the worker runs, step
timers fire, the Docker daemon answers or fails; scripts, containers and background processes may run for ever. `PollingPool`: as
`RunnerPool`; a longer period delays a tick and does not prevent it. `Watcher`: `Run` and the reloads are
scheduled and armed timers fire; writers may stop half way and the context need not end. `S3Cache`: S3 answers a Prune's calls; nothing is
assumed of other operations. No strong fairness anywhere.

## 4. Proofs

Every theorem holds for all values of the constants, from the `ASSUME`s of the modules
(finite non-empty set of workers, natural job IDs, and so on).

* `RunnerPoolProofs`. `CoreInvariant` is the inductive invariant: `TypeOK`, the exact counter, and the
  link between where a worker is and whether it has a job. The counter is not inductive alone: a
  decrement is only right for a worker that counts, and underflow is excluded because such a worker exists.
  From it: `TypeCorrect`, `CounterExact`; `LifecycleFollowed` (each control point fixes the lifecycle
  state, so each transition is in the table); `SingleHolder` (a queued job is nowhere, and each
  hand-over empties one place as it fills the next); `WorkspaceKept` (for the shell executor; uses `SingleHolder`:
  only a worker with the same job could remove the workspace; job 0 is treated apart);
  `PoolRefines`, the refinement of `JobDispatch`: initial states map to initial states, and every step
  to a step or a stutter. `VerdictsJustified` and `VerdictsFinal` rest on `VerdictInv`: a job on its way to a worker has no result and
  no verdict (`Fresh`), and at each point of `Execute` the results of the job in hand are those of the steps before it, none of them to
  blame, with `jobFailed` and the lifecycle state agreeing (`InHand`). `SingleHolder` keeps the other workers out. `HeartbeatOutlasts` is
  `HeartbeatWhileRunning`. `NothingRunsUnregistered` is `UnregisteredRunsNothing`: a pool whose executor type has no factory prepares no job, runs no step and sends no verdict. `PoolBounded` is `Backpressure`: the channel holds no more than its capacity, and
  `PlacesBound` maps the jobs of the workers, and those of the channel, one to one into places that hold no phantom, so that jobs and phantoms together are no more
  than the places.
* The backoff, in the same module. `PeriodFollows` (the period is justified by the errors in a row) and `OutageSlowsDown`, from
  the exact value of the period and the monotonicity of the backoff. `PollingIsPool` and `PollingIsBackoff`: `PollingPool` implements both
  specifications, so that `PollingSafe` gets the properties of each for nothing.
* `ManagerProofs`. `ManagerTypeCorrect`, `NothingStopsByItself` (inductive with the types and `ReadyEarly`: a manager that starts its pools, and was not asked to stop, has set itself ready), and `NilMeansClean`,
  for which `Progress` is added: `Start` waits only when every pool exists, and has a result exactly when it
  has returned.
* `GitHubClientProofs`. `ClientInvariant`: the attempt counter keeps step with the requests sent, a call
  backs off only when it may try again, what took effect or may still do so is covered by the answers the call lacks (`Accounted`), and a positive answer under way means that its request took
  effect. From it `RetriesBounded`, `NilMeansApplied`, and `RepeatsExcused`: `AppliedOnce`, that a request
  takes effect again only after a call without a definite answer. `ReserveSuffices` is `NeverForbidden` under the hypothesis `ReserveEnough`: n callers and a
  reserve of at least n(n-1), and below the limit. The hypothesis is what the code has, a reserve of 250 of GitHub's 5000, for up to 16 callers
  (`types.go:204`); without one the property is false, since every caller may look at the record before any of them sends.
  Its invariant counts the requests that can still be sent without another look: those of callers past their check, of callers
  whose answer, under way, will overwrite the record with an older value, and of the looks such a record then allows; what is left of the window covers that claim.
* `ArtifactStoreProofs`. `StoreInvariant` ties the holder of the lock to the upload, download or sweep it is in, and numbers inodes and uploads
  in the order they are made. From it `StoreTypes`; `StoreAgrees` (`Agree`: a name not in doubt and not being worked on has metadata exactly for the data it has);
  `DownloadsHonest` (what a reader met when it opened the file is what was listed, since it had the lock; later it gets that or notices the change; a name in doubt is exempt, as its file may be a cut upload that reads as sound); and `SweepExact` (`RetentionExact`, with `PromiseInv` for what an
  upload was promised, and `SweepInv` for what the sweep has read and holds; what a failed removal leaves is exempt).
* `LocalCacheProofs`. `CacheWithinLimit` is for any number of processes: what a `Put` or a `Prune` is about to save is within the limit, since the loops
  stop only then (`EvictionStops`). `IndexStaysTruthful` and `StoresStayInAgreement` have the hypothesis `OneProcess`; with two processes both
  are false, for the reason `cache_lost_entry` shows: each works on the index it loaded. Their invariants say, at each point of an operation, what
  memory, index file and data files owe each other, with the keys exempted as `hurt`; a removal that fails leaves a file (`Taken`) whose key stays `hurt` if its `Put` was. `EvictionIsLRU` is the action property `EvictsOldest`. It needs that no two entries were used at the same reading
  of the clock (`UsedInv`), and facts about sums over finite sets (`SumExists`, `SumUnique`, `SumStep`, `SumTakes`): since induction over data is out of reach, they are obtained by
  taking a smallest set for which they fail.
* `ConfigProofs`. Of the watcher, `WatcherTypeCorrect` (with: timers made and events waiting are no more than the changes, so that no timer exceeds its bound),
  `OneTimerArmed`, and `NoneBeginsLate`, whose invariant says that once Run has returned no task that was not begun is past the flag. Of the command line,
  `AlwaysStoppable` (`DaemonStoppable`) and `RunnersStayListed`: `StillListed` under the hypothesis `OnePage`, that GitHub never has more runners than
  one page of its list; `unregister` reads only one (`client.go:274`) and forgets a runner beyond it. The invariant `ListedInv` adds that ids and
  names at GitHub are unique, and what a command has read of the file and of GitHub at each of its steps while nothing interfered (`intact`).
* `S3CacheProofs`. `S3Invariant`: what a Prune without errors still owes is ahead of it - in its hands, on the rest of the page, or
  beyond the continuation token - or has a tag it cannot read, since listings are in key order and nothing put later is due. From it `PruneReachesAll`; `OnlyExpiredRemoved` (what was judged
  stays expired) and `HitsAreLive` (a hit was live when it was looked at, or its tag is garbled).
* `StepExecutionProofs`. `StepInvariant` ties each point of `Run` to the container, the shell and the child that exist there. From it
  `NoContainerForgotten`, `NoWorkspaceForgotten`, `SuccessIsHonest`, `StepsDoNotOverlap`.
* The masker, in the same module, for any text, patterns and number of writers. `OutputMasked` is `MaskedAsAWhole`. Its invariant (`LinesMasked`): the output is the mask
  of some text `done` that ends a line, and `done` followed by what is pending - in the buffer or in the hands of the one writer - is the input. What makes it
  inductive is `SplitText`: if u ends a line and no pattern contains a newline, the mask of u followed by v is the mask of u followed by the mask of v, since no
  match crosses the end of the line (`NoMatchAcross`) and masking keeps that end (`MaskLine`) for the next pattern. `OutputKept` is `NothingLost`, from `PlainMasked`: masking with pieces of secrets
  changes no plain text, wherever lines are cut. Both need what the recursive definitions compute for every text. The
  induction theorems of the library cannot be used, but induction over a set of naturals can (`InductNat`, `InductDown`, from the well-foundedness of `<`): with it
  the recursive functions are shown to exist (`SolutionExists`, `Iterate`) and to be what they should (`MaskRun`, `MaskStringRun`, `PlainRun`).

Every invariant and action property that a run checks is stated by a theorem. Only model-checked: all liveness (fairness and `ENABLED` are beyond the prover), and `LoopsAgree` and
`DefinitionsAgree`, which compare definitions with RECURSIVE operators and folds.

## 5. Findings

`cache_lost_entry` shows the code at odds with its documentation (`PROJECT.json`, "findings"): the lock
is taken around `Put`, but `Put` writes back the index the process loaded when it opened the cache. Others
were met while modelling and are recorded here without a run of their own:

* a job cancelled by the shutdown is never reported as cancelled, since the report is sent on the context whose end it reports (`worker.go:135`, `docs/architecture.md:207`);
* a SIGTERM that arrives while a SIGHUP is in the one-place channel is dropped (`manager.go:80`, `docs/architecture.md:200`);
* `register` followed by `start`, as `README.md` shows it, is refused: the entry has no concurrency and no image (`register.go:109`, `validate.go`);
* `unregister` looks on the first page of the runners only, and forgets a runner that is on another (`client.go:274`);
* the configuration file is truncated before it is written, and two commands overwrite each other's (`register.go:154`);
* `start` has no default PID file while `stop` has one; a second daemon on the same PID file takes it over, and whichever
  exits first removes it (`start.go:73`);
* no job can run in the shipped daemon: `executor.New` (`pool.go:123`) finds no factory, since nobody calls `Register` of the shell or the Docker executor
  (`shell.go:95`, "should be called during application startup"), and if it did, the factories would refuse the configuration `executorConfig` passes
  (`pool.go:156`, `shell.go:86`, `docker.go:130`), which is a type of its own. A job that was acquired is then neither run nor reported. The models take `Registered` as a constant;
  `AcquiredGetsVerdict` has it as its premise, and `NothingRunsUnregistered` is what holds without it;
* "Every transition is ... reported to GitHub" (`docs/architecture.md:148`): of the transitions `Execute` makes, only the start, a failed Prepare, a cancellation and the verdict are (`worker.go:93`, `118`, `135`, `194`);
* Docker's `Prepare` makes no workspace, though its comment says so (`docker.go:158`), and its `Cleanup` removes neither containers nor workspace, though its comment
  says so too (`docker.go:295`): it closes the client;
* an `Upload` whose source fails closes the gzip writer (`manager.go:108` of `internal/artifact`) and so leaves a well-formed file of part of the content under the
  old metadata, which a `Download` delivers without an error - the names `DownloadHonest` exempts as in doubt (`manager.go:148`);
* an artifact without a retention is "kept indefinitely" (`manager.go:28`), but a sweep with a maximum age removes it (`retention.go:22`); `RetentionExact` allows that removal and does not ask for it;
* the sweep counts an artifact as removed when its removal failed (`retention.go:92-103`), and `Prune` of the S3 cache passes by objects with an unreadable `expires_at`
  (`s3.go:123`), which every runner east of UTC writes (`s3.go:195`), against "removes entries that have expired" (`s3.go:268`);
* a command run without the variable `${VAR}` refers to saves an empty token (`env.go:30`); `StillListed` compares names and does not see it;
* a workspace left by a crash is taken over by the next execution of the job (`shell.go:120`);
* nothing creates a `Watcher`: a changed file takes effect at the next start (`watcher.go:36`);
* the timeout of a shell step kills the shell only, and `Run` returns when its last background process does (`shell.go:174`);
* a 204 answer to `AcquireJob` is dispatched as job 0 (`client.go:187` against the comment at `client.go:186`);
* jobs left in the channel at shutdown stay assigned at GitHub (`pool.go:112` against `pool.go:63`);
* `SetReady(true)` precedes the pools (`manager.go:116`, `docs/observability.md:246`), and the servers
  close before the workers finish (`manager.go:176`, `docs/architecture.md:208`);
* the poll interval grows linearly, not by doubling (`poller.go:65`); retries have no jitter
  (`docs/security.md:181`) and `retry_backoff` is not used;
* a request may be sent while the record says to pause (`client.go:305`, `docs/security.md:177`);
* a `Put` larger than `max_size` evicts the whole cache and itself and returns nil (`local.go:264`); a `Put` that fails
  to write leaves its old index entry with a partial file (`local.go:244`) - the keys `IndexTruthful` exempts as `hurt`;
* a sweep that overlaps an `Upload` of the same name can remove the fresh artifact (`retention.go:92`) - the names
  `RetentionExact` and `Agree` exempt as `doubt`;
* a configuration file that an editor replaces by a rename is no longer watched and later changes go unnoticed, though the comment expects a
  Create event (`watcher.go:79`): the watch is on the file, not on its directory (`watcher.go:42`); a reload slower than the debounce may deliver an
  older configuration after a newer one (`watcher.go:94`); half a file that validates is delivered (`register.go:154`);
* `Masker` is "safe for concurrent use" (`masker.go:14`, `docs/security.md`), but its buffer is not under the lock (`masker.go:74`): the writes
  `MaskedAsAWhole` and `NothingLost` exempt as `raced`;
* `Get` and `Prune` of the S3 cache delete what is under a key after reading the tags of what was (`s3.go:91`, `s3.go:301`) - the objects `LiveKept` exempts; a
  wrapped NoSuchKey, which is what the SDK returns, is an error and no miss (`s3.go:153` against `s3.go:68`);
* `cache clear` under a running daemon removes its data directory, after which every `Put` fails (`cli/cache.go:58`); `cache prune` counts and may
  remove `index.json` (`cli/cache.go:253`).

## 6. Not modelled, and the plan

Left out for good: metrics, logging, version, the parsers of workflow commands and expressions, and what the
Kubernetes, Firecracker and GCS scaffolds only announce, which have no state or decide nothing. HTTP
bodies, headers other than the rate limit, and file formats are abstracted. `index.json.tmp`, one name for all
processes, is taken as an atomic rename.

The hooks (`internal/hook`) are left out because `Manager` passes an empty chain and `Execute` only logs their errors; the health checks' fan-out because
nobody registers a check; `status`, `list`, `verify`, `exec` and `version` because they change nothing shared; `Stats` of the caches because it only
reads.

Next, in this order:

1. a refinement between `Manager`'s pool and `RunnerPool`, and between `RunnerPool`'s executor and `StepExecution`;
2. `Watcher` composed with the file of `Registration`; hooks.
