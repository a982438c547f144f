# processd in TLA+

A formal model of processd, a single-node daemon that starts, supervises, retries
and stops processes on behalf of HTTP clients and schedules. The modules are
translated from the Go source under `internal/`; TLC checks them on small
instances, and TLAPS proves, for every instance, the slot table, every safety
property of the composed daemon that a run checks, that its rows implement the
abstract lifecycle, and the safety properties of the idempotency key, the schedule
runner, the notifier, the log store and its followers, and the loader of workers.

## 1. The system

### Parts, state, operations

| Part | State | Operations | Hard because |
| --- | --- | --- | --- |
| `core` | none (a process record that is copied around) | `TransitionTo`, `ClearAttempt` | every component holds its own copy |
| `queue.Slots` | counters and holders under one mutex | `TryAcquire`, `Release`, `SetWorkerLimit` | two independent callers acquire and release for the same execution |
| `queue.Scheduler` | registry, draining flag, wake channel | `Submit`, `admit`, `launch`, `dispatch`, `expire`, `OnExecutionSettled`, `Drain` | requests and the dispatch loop run concurrently; a pass works on rows read at its start; every store call of a request dies with the client |
| `supervisor.Supervisor` | `running` map, draining flag, one `execution` per attempt (process copy, intent, mutex) | `Start`, `supervise`/`finish`, `Stop`, `beginStop`, timeout, `Shutdown`, `Reconcile` | supervise goroutine, timer callback, stop request and shutdown share one attempt |
| `store/sqlite` | rows, locks, idempotency keys, schedule state | transactions under one write mutex | `UpdateProcess` overwrites the row with the caller's copy, unconditionally |
| `runner` | OS processes | `Start`, `Wait`, `Stop`, `SameProcess` | processes outlive the daemon |
| `retry`, `config` | none | policy decisions, backoff | budgets, resets, overflow |
| `daemon` | wiring | start, reload, shutdown, garbage collection | order of shutdown, crash at any point |
| `schedule` | plan, states in memory and in the store | `reset`, `fireDue`, `recordFiring`, `advance` | a crash, stall or reload between any two store calls |
| `cron` | none | `Parse`, `Next`, `Between` | jumps across month ends and transitions |
| `notify` | bounded queue, delivery goroutines | `Notify`, `Run`, `Close` | full queue, closing while notifying |
| `logstore`, `api/stream` | files, followers, open attempts | write, rotate, tail, purge | followers race rotation and purge |
| `api` | idempotency claims | create, delete, replay | client retries, claims left behind |
| `fleet`, `cli` | polled cache; sequences of requests | poll, restart | stale data, partial sequences |

A submission calls `Scheduler.Submit`, which creates the row and takes a slot and
the lock; `launch` writes STARTING and calls `Supervisor.Start`, which forks,
writes RUNNING and registers the attempt. `supervise` waits for the process,
classifies the end, writes the outcome and calls back `OnExecutionSettled`, which
frees the slot. Executions that could not start, or wait for a retry, are rows in
the store which `dispatch` reads. SIGTERM cancels the context of all requests and
of the dispatch loop; then the API is closed, the scheduler drained and the
supervisor shut down. The next start reconciles every unfinished row.

### What makes it correct

* The node never runs more processes than `max_processes`, and the counters that
  decide it never drift; slots and locks never leak.
* Executions with the same lock key never run at the same time; an execution
  never has two processes.
* An execution moves along the lifecycle of `core/state.go` only, within its
  attempt budget, and ends; a stop takes effect and is not undone.
* A request repeated under its idempotency key runs once; a refusal is final.
* An occurrence of a schedule is fired, counted as missed or passed over for a
  reason, and never answered for twice; a cron search finds exactly what the
  expression matches and ends.
* A wanted outcome is delivered, dropped and counted, or abandoned at shutdown;
  notifying never blocks an execution or a shutdown, and never loops.
* Output is stored in order, its loss is always told, and a reader gets all of it
  that is stored, no line twice and none made of two.
* A worker that loads makes only executions that keep the promises of their type.
* A shutdown or a crash loses neither queued work nor outcomes, and leaves no
  process behind that the next daemon does not deal with.

Every hazard found in the code, at its line, with the properties that watch it,
is listed under `hazards` in `PROJECT.json`.

## 2. The modules

    Core -> Retry -> Store --\
      \                       +-> Supervisor -> Scheduler -> Daemon -> Processd -> MCProcessd
       \-> Slots ------------/                                          |   \
                                          Execution (abstract lifecycle)    DaemonProofs
                                                               -> OwnerProofs -> RestartProofs

    Submission -> MCSubmission, SubmissionProofs
    ScheduleRunner -> MCScheduleRunner, ScheduleProofs
    Notifier -> MCNotifier, NotifierProofs
    LogFiles -> LogStream -> MCLogStream, LogProofs
    Backoff -> Workers -> MCWorkers, WorkersProofs
    Cron -> MCCron

The first group is one composed specification of the daemon's core. The modules
of the second group meet the core at narrow interfaces and are specifications of
their own, each with as much of the daemon around it as it can observe:
`Submission` has rows that dispatch, end and are reconciled, `Notifier` has
supervise goroutines and the shutdown sequence, `ScheduleRunner` has the answers
of `Submit`, `LogStream` has the end of the attempt.

### The daemon

* **Core**: states, edges, reasons, the process record. `TransitionTo` leaves the
  record as it is on an undefined edge, as the callers (which log and go on) see it.
  The model's `pid` is the number of the launch and stands for the pair
  (PID, start time) of the code, which is not reused.
* **Retry**: the policy (`retry.Allowed` and friends) and the supervisor's pure
  decisions `settle`, `classifyShutdown` and `classify`. How an attempt ended is
  one of four classes the policy can tell apart. Time is not measured: whether
  `reset_after` has elapsed is a choice.
* **Slots**: the slot table; also a specification of its own with arbitrary
  clients, which the first part of `DaemonProofs` is about.
* **Store**: the rows and the locks table; one step per transaction.
* **Supervisor**: launchers (a goroutine in `Submit`, or the dispatch loop), the
  attempts, stop requests. Each store call and each critical section is one
  action, so that every interleaving of the goroutines between them is explored.
  `exec.mu` is modelled where it matters: `finish` holds it from `classify` to the
  store write (`MuFree`). `beginStop` holds it across its own write, so it is one step.
* **Scheduler**: admission and dispatch up to `Supervisor.Start`. The dispatch
  loop keeps `snap`, the copies it read, and works through `todo`.
* **Daemon**: composition; reload, SIGTERM, drain, shutdown, exit, crash, start
  and reconciliation. `CtxDone` is the cancellation of a request's context by
  SIGTERM or by its client: store calls and forks under it fail, and the code's
  error paths are followed, including the ones whose own writes fail too.
* **Processd**: the properties and the fairness.
* **Execution**: what a reader of the store may rely on: the paths of the state
  machine between two writes (CRASHED is passed through in memory), with
  attempts counted and retries within the budget.

### Around it

* **Submission** (`api/handlers.go`, `store/sqlite/idempotency.go`, the dispatch of
  `api/fleet.go`): requests that share one `Idempotency-Key`; a request is also the
  id of the execution it builds. Every store call of `createProcess` is a step:
  `replayIdempotent` (`Find`, `Get`), `claimIdempotent` (`SaveIdempotency`,
  `FindAgain`, `GetAgain`), `Submit` to `Start`, `releaseIdempotent`. Store calls
  may fail, clients and hubs may hang up at any step. `PurgeHistory` is two steps
  under `writeMu` (`gc`), with which other writes do not interleave.
* **ScheduleRunner** (`schedule/schedule.go`): the loop of one worker with its plan,
  its state in memory and in the store, and a clock that runs while any step is
  under way. `log` is history: what was submitted, what is not recorded, and what was
  passed over, by reason (`Reasons`). The occurrences of the expression are given;
  `Cron` is about them. With `badparams` the worker cannot be instantiated without
  params: `fire` returns before `Submit`, and the occurrence is passed over.
* **Cron** (`cron/cron.go`): `Parse` on terms and the search of `Next` as a machine
  whose step is one iteration, so that a search that does not end is a behaviour
  that does not end. `Date` is `time.Date` including its choice between the two
  instants of a repeated local time. `Expected` is the reference: every minute,
  looked at by itself.
* **Notifier** (`notify/notify.go`): supervise goroutines call `Notify`; delivery
  goroutines take jobs, post with retries and submit the exec target, whose own
  outcomes come back to `Notify`. The life of an attempt is cut where the shutdown
  can tell the difference: `StartBegins`, `Register` (the running map), `Count`
  (the wait group), `Leave` (out of the map), `Finish`, and the return of `Notify`
  (out of the wait group). `awaited` is history: the attempts that were counted
  when `Shutdown` looked, unless its grace ran out.
* **LogFiles**, **LogStream** (`logstore`, `api/stream.go`): the output of an attempt
  is the bytes 1, 2, 3, ...; a file is an interval of them and a path names a
  file, so order, loss and repetition are visible in the numbers. Each rename,
  unlink, stat and read is a step. A stream that is truncated ends with two bytes
  more (`Marker`): the newline and the line that `markCapped` writes past the limit.
  A new file gets a fresh inode or one that a removal freed (`FreedInodes`), and
  `os.SameFile` compares inodes. A file with a line that the scanner's buffer cannot
  hold fails the call of `Lines` (`Unreadable`). `attempt` is the life of the attempt
  as a stream can ask for it: in the running map, out of it, in its backoff, or over,
  because the execution ended or another attempt began. `LogStream` adds the
  follower; `fooled` and `cut` are history: a file was taken for another with its
  inode, and a store error ended the stream while there was more to come.
* **Workers**, **Backoff** (`config/workers.go`, `config/render.go`,
  `retry/backoff.go`, `buildProcess` of `api/handlers.go`): workers as their file
  says them, defaults, validation, the registry that reloads replace, and the
  executions requests, schedules and notifications make of them. A duration has a
  largest value, multipliers and jitter are in tenths.

The `MC` modules define the constants of the instances. Operators whose names end
in a suffix such as `_Keeps` or `_OffByOne` are plausible bugs of the definition
that follows them; `PROJECT.json` says which property catches each. They are not
part of the specification.

### Faults, bounds and abstractions

In the daemon `Faults` switches on what may go wrong in an instance: `hangup` (a
client disconnects), `starterror` (no log file or no process), `crash`, `term`
(SIGTERM), `slowstop` (a grace period runs out), `stall` (a goroutine that has to
write down or hand back an attempt is delayed past the backoff of the retry) and
`cancelrace` (a stop request for an execution that is not running overlaps the
dispatch loop starting it). The last two are schedules rather than failures: they
are kept apart because the code breaks several properties under them (section 4),
and the runs without them show what holds otherwise. In `ScheduleRunner` `Faults`
does the same; the faults of the other modules are always on.

Bounds of the daemon: two executions (one where all faults are on), one worker and
one lock key, `MaxLaunches` launches of an execution, `MaxBoots` starts of the
daemon, one stop request per execution. Two executions suffice for every conflict
over slot and lock; two launches for an attempt and its retry; two starts for one
restart. `MaxProcesses` is 1 where executions compete for a slot and 2 where they
compete for a lock. The dispatch loop does not see an execution that used up its
launches; services, which restart for ever, are cut there, and tasks of the
liveness runs never get there.

Bounds of the others: two requests and one restart (a repeat and what came before
it; the proofs are for any number); six instants with four occurrences, two of
them the same wall clock time, and three reloads or restarts (a crash, a restart
and another one while the first is accounted for); a calendar of two minutes an
hour, four hours a day and two months of three and two days, which has every kind
of carry; two client executions with two attempts, one notification, a queue of
one place and one delivery goroutine, so that the queue is full often; five bytes
with files of two, kept with none, one or two rotations, so that the stream is
truncated or rotates twice, with one rotation drops its first generation, and its
inode is free again; polls of two bytes and lines of at most two, of which one is
too long for `Lines` (followers that start at the end of the file are left to the
proof, which covers them); crash loops of five attempts, past the largest duration.

Deadlock is not checked: a daemon whose executions are finished, or which is down
with its starts used up, a schedule past its horizon, or a search that is done may
stop. That what must happen does is stated by the liveness properties.

Abstractions to know of:

* Daemon: a visit of `Reconcile` to one row is one step (nothing else runs yet, and
  a crash within it leaves a row that is visited the same way); a SIGTERM during
  reconciliation is left out; registration in the running map and `attempts.Add`
  are one step; a definition does not change by reload, only the worker limits
  do; store calls fail for a cancelled context only; stop requests do not lose
  their client; `PendingProcesses` has no batch limit.
* Submission: admission and the life of an execution are reduced to what a
  submission can tell apart. A handler takes less than `claimGrace` (a minute)
  from its claim to its row; that is what the constant is for, and `Age` assumes it.
* ScheduleRunner: one worker; the loop treats its entries one after the other.
* LogFiles: no system call fails, only the scanner of `Lines` does; `Lines` is called
  for all lines (`tail` 0), a follower starts with everything or with what is new; a
  path is used by one attempt, so an attempt that a shutdown requeued under its own
  number, and that truncates the file of its first run, is left out; the two streams
  of an attempt are independent; leaving the running map and `Attempt.Close` are one
  step.
* Workers: checks of one field by itself (names, commands, durations, patterns) are
  the flags `plain` and `bad`; the daemon-wide notify policy is in `Notifier`.

## 3. The runs that pass

| Run | Instance | Shows |
| --- | --- | --- |
| Stops | task with lock, timeout, retries; service; one slot; failing starts; stops at any time | `ProcessBound`, `AliveIsCovered`, `LockNotStranded`, `ServiceSlotNotLeaked`, `ServiceKeepsSlot`, `UserStopNeverRetries` (from when the stop is the first reason of its attempt) |
| Admission | two tasks, one lock, one rejecting; full queue; reloads; failing starts; clients that hang up | `LockExclusion`, `TerminalHoldsNoLock`, `OneProcess`, `SlotAccounting`, `WorkerBound` |
| Everything | one task, every fault, orphans left alone | `TypeOK`, `TaskSlotNotLeaked`, `CrashedNotPersisted`, `KnownOrphansSettled` |
| QueueDrains | two timed tasks, one slot, one lock; failing starts and retries; SIGTERM or crash, next start; fairness | `SlotBound`, `TasksSettle`, `ImplementsLifecycle` |
| StopEnds | a service, failing starts, a stop; fairness | `StopTakesEffect` |
| Submission | two requests, one through a hub, two bodies; hangups, store failures, drain, restart, retention; fairness | the work runs once (`AtMostOnce`), a refusal is final (`RefusedNeverRuns`), `AcceptedKeepsKey`, `ReplayIsTheOriginal`, `StaleClaimFreed` |
| Schedule | jitter, catch-up, a repeated hour; stalls, reloads, crash, SIGTERM, failing store | `AnsweredOnce` and `RepeatedHourFiresOnce` (of every step), `NoneLostInSilence` (fired, counted, or passed over for a reason, each kind by name), `ScheduleInv` (types, exact counts) |
| Cron | 219 expressions, 5 zones, 3 starting points; fairness | `FindsWhatMatches` (parser and search against the reference), `SearchEnds` |
| Notifier | own and daemon-wide policy, one target under the latter; reloads, shutdown at any point; fairness | `Accounted`, `WaitedOutcomesReported`, `CloseEnds`, `NotifierInv` (bounds, no loop, payloads, order of send and close, quiet after close) |
| Logs | marker or up to two rotations, the oldest dropped; retention; reused inodes, failing scans and store errors; one reader or one follower; fairness | `FilesInv` (size bound, live file kept, stored in order, nothing lost untold), `ReadersSeeTheOutput` (every stored byte, in order; no line repeated or spliced unless `fooled`), `EndedStreamIsWhole`, `StreamEnds` |
| Workers | fields varied one or a few at a time around a task and a service; edits, requests, firings, notifications, crash loops | `WorkersInv` (tasks end, services stay, overrides, firings lack no param, notifications none but an exit code there is none of), `DelayGrowsInBounds` (the waits of a crash loop) |

The invariants whose names end in `Inv` are conjunctions of named parts, each with
its own comment in the module; the type invariant is the first of them and says
more than types where the code has a bound: the length of the channel, the size of
a file, the range of a duration. `SubmissionTypeOK` is proved and not run.

**Fairness.** *Daemon* (`Processd!Fairness`): weak fairness of each goroutine's
steps, since the Go scheduler runs what is runnable; of a timer that is armed; of
a process that was signalled, since `runner.Stop` escalates to SIGKILL; of the
shutdown sequence and of the restart by the node's service manager. Strong
fairness of "a pass sees this row": the dispatch ticker never stops and a backoff
that is over stays over, but the row is not continuously visible while a pass is
under way. Nothing is assumed of users or of a process that nobody signals; tasks
of the liveness runs therefore have a timeout. *Submission*: handlers run, time
passes, the garbage collector keeps its ticker (a retention is configured).
*Notifier*: goroutines run, a webhook attempt ends by its timeout, and the shutdown
is one goroutine whose timers (grace and budget) fire; nothing is assumed of the
end of an attempt, and nothing makes the daemon stop. *LogStream*: the handler's goroutine
and its ticker run; nothing is assumed of the attempt. *Cron*: the search runs.

## 4. Where the code and its text disagree

`CronFallBack` is the run that finds a violation: within the repeated hour of a
zone west of Greenwich `startOfNextHour` (cron.go:257) returns the instant it was
given, and `Next`, which "must end rather than spin forever" (cron.go:17), does
not. It hangs the goroutine that plans the schedules, or a reload.

The models show more, for which no configuration is kept. Each is a definition of
the project that a comment or document states; adding it to the named
configuration, with the named fault in `Faults`, gives the counterexample.

Daemon:

* `TerminalImmutable` (Stops, `cancelrace`): `cancelPending` (control.go:66) decides
  on the row it read, as `launch` does; a stop of a queued execution that the
  dispatch loop has picked up is answered with success, and the execution runs.
  core/state.go:39: "Terminal states are immutable".
* `ProcessBound` (Stops, `stall`): `finish` makes RETRYING visible before it
  releases the slot by execution id (supervisor.go:413); a pass in between
  re-acquires the slot and the late release frees it under a running process.
* `UserStopNeverRetries` (one task, `crash`, two starts): `recoverInterrupted`
  (reconcile.go:95) retries a STOPPING row with reason `user_request`.
  control.go:12: "A user-requested stop never triggers a retry."
* The same sentence (docs/api.md:24: "**never** triggers a retry") is wider than
  `UserStopNeverRetries`, which begins when the stop is the first reason of its
  attempt. `setIntent` keeps the first reason (supervisor.go:37), so a stop in the
  grace of a timeout, or one after `classify`, is answered with success and the
  execution may be retried all the same.
* `LockNotStranded` (Admission, `hangup`): `releaseAll` (scheduler.go:255) runs under
  the request's context, so a client that hangs up leaves the lock with a CREATED
  row until the next restart. scheduler.go:251: "a failure to start never leaks a
  slot or a lock".
* `QueuedStaysQueued` (QueueDrains, `term`): a pass that wrote STARTING when SIGTERM
  arrives (scheduler.go:243) can neither fork nor undo the write; the next start
  counts a crashed attempt. scheduler.go:412: "Queued executions stay queued".
* `LockExclusion` with `cancelrace` (Admission): `cancelPending` (control.go:64)
  releases the lock by process id after the launcher of that execution took it.
* `OneProcess` with `stall` and three launches, on the executions of Stops: a late
  `beginStop` (control.go:106) writes the previous attempt, in RETRYING, over the
  running one, which is then started again.
* `OneProcess` with `crash` and two starts: the pid is stored after the fork
  (supervisor.go:203), so after a crash in between the next start finds no orphan
  and the work runs again beside it.
* `OneProcess` with `term`, `slowstop` and two starts, by the same window: the
  grace of the API or of `Shutdown` runs out while a submission is between the
  fork and the write.
* `ServiceKeepsSlot` with `crash` and two starts: `Reconcile` (reconcile.go:102)
  does not restore the slots of services in backoff.
* An exit with an attempt whose outcome is not written, after `Shutdown` found the
  running map empty (reconcile.go:164).

Submission (in Submission):

* `NothingWillRun`: `refused` counts ErrShuttingDown (handlers.go:679), which
  `Supervisor.Start` also returns after the row was written STARTING; the key is
  released and the next start may run the execution. handlers.go:239: "Nothing ran
  and nothing will". The properties that hold name these executions (`cutOff`).
* `KeyReplaysWhileRetained`: `purgeIdempotency` deletes a key past the retention even
  while its execution is active. handlers.go:618: "A key replays for as long as its
  execution is retained."
* `ClaimGivenBack`: a request cancelled after its claim is not `refused`, so the claim
  stays, and repeats are told it is in flight until the garbage collector frees it,
  for ever without a retention. handlers.go:692 has the intention.

Schedules and cron:

* `FiringIsInHistory` (Schedule, `queuefull`): a full queue refuses before a row
  exists (scheduler.go:107), and the occurrence is recorded as fired.
  docs/scheduling.md:59: "Either way the firing is in the history."
* `MissedAreRecorded` (Schedule): the branch that catches up plans the last missed
  occurrence and returns (schedule.go:282-293), and of those before it only a line in
  the log tells how many there were. schedule.go:257: "A missed occurrence is recorded
  whether or not it is caught up".
* An occurrence is lost with a line in the log and nothing else when the worker's
  defaults make no execution (schedule.go:432), and when it is beyond the first
  `maxMissed` of its window and a firing comes before the next reset.
  `NoneLostInSilence` names both and says what each takes.
* Not stated as definitions: with no last firing, a reload in the jitter
  window drops the planned occurrence; occurrences that passed while the worker
  was disabled may later be counted as missed; a repeated hour is recognised against
  the last firing only, so after a write that failed and a restart that catches up
  on a `Between` cut at `maxMissed`, both instants of one may have run (hence
  `RepeatedHourFiresOnce` is about firings that are recorded and the step that
  repeats one). `Next`, asked at the end of a repeated hour, can return the
  instant it was given; a zone whose clock falls back at midnight hangs
  `startOfNextDay` in the same way as the hour; `0-7` as days of the week is Sunday
  only, since 7 becomes 0 before the range is formed.

Notifier:

* `OutcomesReported` (Notifier) is false; daemon.go:276: "so the outcomes it settled
  on the way down are still reported". The closed notifier refuses the outcome of an
  attempt the wait group did not count when `Shutdown` looked, or did not wait for:
  the map is empty while the last outcome is between it and `Notify`
  (reconcile.go:164); an attempt is in the map (supervisor.go:216) and not yet
  counted (supervisor.go:228); a dispatch starts an attempt, or fails to, while
  the daemon drains. Of attempts that were waited for it holds:
  `WaitedOutcomesReported`, which is proved.

Logs (in Logs):

* `FinishedStreamEnds`: an execution that waits for its retry is not terminal and has
  the number of the attempt that ended (stream.go:204), so the stream of that attempt
  stays open through the backoff, until the next attempt begins. docs/api.md:27: "`end`
  when the attempt finishes". `StreamEnds` is about the end of the execution or the
  next attempt.
* `EveryRotationIsCaught`, and with it `LinesAreWhole`: `os.SameFile` (tail.go:149)
  compares inodes. When the file a follower read last was rotated and removed within
  one poll, the new live file may have its inode; if it is at least as long, the
  follower goes on in the middle of it, and a line is made of two. tail.go:133:
  "rotation replaces the file the follower is reading rather than moving it. Comparing
  identity catches that". `NothingRepeatedOrSpliced` holds until then.
* A store that fails to answer ends the stream of an attempt that is not in the
  running map (stream.go:198), although it may write yet: while it starts, or before
  its retry. `EndedStreamIsWhole` excludes these (`cut`).
* `EndedStreamHasAll`: a last line without a newline is never sent, although
  `closeStream` (stream.go:151) is there so that output is not lost.
* `LinesHaveNoRepeats`: a rotation during `Lines` moves a generation that was read to
  the path that is read next. tail.go:141: "Lines(…) reads the full history".
* `closeStream` reads once, and a read takes at most `maxPollBytes` (tail.go:16, one
  MiB): of output beyond that, written between the last empty poll and the end of
  the attempt, the rest is not sent, although "Output flushed between the last poll
  and the exit would otherwise be lost exactly when it matters most"
  (stream.go:151). `EndedStreamIsWhole` therefore asks that what came since the last
  empty poll (`seen`) fits in one poll.
* Not stated: `Purge` decides on one file and unlinks another when a rotation comes
  between `Info` and `Remove` (logstore.go:660).

Workers:

* `NotificationsCarryAll` (Workers): an attempt that was not ended by its own exit has
  no `exit_code`, and `paramsFor` leaves it out (notify.go:467), so a target that
  requires it loads, and of a start error or a timeout it is never told. workers.go:490:
  "A notification carries exactly the values in NotifyParams". `NotificationsEnd`
  names the case. A target that is disabled (notify.go:414), or whose pattern a value
  does not match, is not run either.
* `FiringInstantiates` (Workers): a default outside its own enum or pattern is not
  checked at load, so a schedule that loads fails at every firing. workers.go:788:
  "Refusing at load time turns a silent daily failure into a reload that does not
  apply."
* A multiplier between 0 and 1 is accepted although the comment at workers.go:703
  means to refuse a curve that shrinks; `DelayGrowsInBounds` therefore asks for at least 1.

## 5. What is proved

For every set of executions, workers, lock keys, limits and definitions that meets
the `ASSUME`s of the modules, and for every set of faults:

* `DaemonProofs`, of the slot table by itself, with arbitrary clients:
  `SlotAccountingHolds`, `SlotBoundHolds`, `WorkerBoundHolds`. The
  invariant `SlotsInv` is type correctness with both: the bound on holders is only
  inductive together with the accounting, because `TryAcquire` compares counters.
  The argument is cardinality: one holder more or less changes each set by one.
* `DaemonProofs`, of the daemon: `TypeCorrect`, `DaemonSlots`, `NeverCrashedInStore`. The invariant
  `DaemonInv` says that every copy of a process record (rows, attempts, launchers,
  stop requests, the dispatch snapshot) is one that may be stored, i.e. well typed
  and not CRASHED, that the slot table satisfies `SlotsInv`, and, for a launcher,
  what its program counter implies (`LauncherOK`: from `start` on its copy is
  STARTING and a launch is counted, from `running` on it is RUNNING with the pid
  of a launch). The last part is needed because `startFailed` would otherwise store
  CRASHED: `TransitionTo` on an undefined edge leaves the record alone. One lemma
  per group of actions (`StartStep`, `AdmitStep`, `SubmitStep`, `AttemptStepOK`,
  `StopStepOK`, `DispatchStepOK`, `LifecycleStepOK`), composed in `NextOK`.
* `DaemonProofs`, last part: `NoTaskSlotLeaks`. Relative to `DaemonInv` the property is
  inductive. `LeakFrame` reduces each step to the one execution whose slot is
  touched; the other lemmas say, per group of actions, that its user goes on to a
  step that still uses the slot or that the slot has been released.
* `OwnerProofs`: `RowsAreOwned`, `LifecycleImplemented` (the refinement of
  `Execution`) and `TerminalStaysTerminal`. `UpdateProcess` overwrites the row with
  whatever copy its caller has, so a step refines the lifecycle only if that copy
  is the row or one edge ahead of it. `OwnInv` says why it is: of every execution
  nobody, the dispatch pass, one launcher, one stop request or one attempt is
  entitled to write the row (`Owned`), and the owner's program counter tells how
  its copy relates to the row (`LauncherCopy`, `AttemptCopy`). An attempt that is
  over may still be referred to by a timer, by a stop request or by `Shutdown`
  (`Loose`); then its copy must be the row, because `beginStop` writes it whatever
  has happened. The `...Edge` lemmas say which edge each helper takes, `Moved` and
  the frame lemmas what the executions that are not touched keep; then each action
  hands the execution from one owner to the next.
* `OwnerProofs`, second part: `OwnersAreCovered`, and from it `ProcessesAreCovered`,
  `LocksExclude`, `ProcessesAreBounded`, `FinishedHoldNoLock` and
  `NoServiceSlotLeaks`. Slots and locks are taken and released by execution id, by
  whoever thinks it is his turn. `CoverInv` ties them to the owner: it has the slot
  where it will give one back, the lock where an attempt needs it, and the lock is
  gone where an outcome is about to be written that no attempt follows (`LetGo`).
  `ClaimInv` is about a lock that a rejecting submission claims before its slot.
  The bound on processes follows from `ProcessesAreCovered` by an injection of
  processes into the holders of slots.
* `RestartProofs`: `CopiesAreSound` (any copy that names a process describes it, or
  the process is an orphan that `Reconcile` has dealt with or is about to), and from
  it `OrphansAreSettled`, across any number of restarts and every fault. For
  `NeverTwice` the store must also know every orphan (`OrphansInv`).
  `StopsAreFinal`: from the step in which a stop is the first intent of its attempt
  (`StopTaken`), that intent stays, the reason in a STOPPING row is the intent, and it
  is what `classify` decides on (`StopInv`). `ServicesKeepSlots` and `LocksHaveReasons` come from
  `KeepsInv`: a retry that is decided on, written or picked up has the lock, and
  the slot of a service, at every step of the goroutine that carries it, and a
  lock has somebody who needs it or will give it back.
* `SubmissionProofs`, for any number of requests under one key, any bodies, hubs and
  restarts: `SubmissionTypeCorrect`, `AtMostOnceHolds`, `RefusalsAreFinal`,
  `AcceptedKeysStay`, `ReplaysAreOriginals`. None of these is inductive: whether a
  refusal can be believed depends on where the handler was when it answered, and
  whether the sweep may take a key on what has become of its execution. `IInv` adds,
  per request, what its program counter implies of its row and its key (`Handler`),
  that what runs or may run holds the key or lost it to retention or to a shutdown
  (`Run`), what an answer promises (`Told`) and what a record read from the store
  names (`Replay`), and that the holder of the key is past its claim (`KeyInv`).
  `EarlyStep` and `LateStep` say once what the steps of a handler before and after
  its claim leave alone; then there is one lemma per action. `AtMostOnce` follows
  from `Run`: two executions cannot both hold the key.
* `NotifierProofs`, for any number of executions, delivery goroutines, attempts and
  queue places: `OutcomesAreAccounted`, `NotifierHolds`, `WaitedAreReported`, all
  from `NotifierIsSound`. That an outcome is in one place is not inductive, because a
  second `Notify` of the same outcome would put it in another. The invariant
  says why there is none: a job names its execution, its attempt and its event, and
  an execution leaves a settled attempt only for the next one (`Settles`), so a job
  anywhere is about an attempt that is over, while one that is about to be offered
  is nowhere yet; each step moves a job on by one place (`PlaceInv`, `Offered`). The
  policy of the execution is the same when the job is taken as when it was
  queued, so a goroutine has what it still owes (`DeliveryInv`). `StopInv` ties the
  shutdown to the attempts: an awaited one that has not settled is counted, so the
  channel is not closed before it was offered.

* `ScheduleProofs`, for any occurrences, clock, jitter, reloads and restarts:
  `StateIsExact`, `RecordedIsAnswered`, `RepeatedHour`, all from `ScheduleSafe`, and
  `NothingLost` and `EveryOccurrenceAnswered`, from it and `CoverInv`. The invariant
  says that the plan is ahead of what the schedule has answered for, in memory while
  the loop has read its record (`PlanInv`) and in the store always: a firing that is recorded is at or before `accountedThrough` of the
  record on disk (`RecordInv`), so neither a restart, which starts from there, nor a
  pass comes to it again. What was lost is told because every occurrence between
  `since` and that mark is fired, counted or passed over for one of `Reasons`
  (`DiskCovers`), also the ones between the mark and the plan (`PlanCovers`), and
  without a plan none is left (`EndCovers`); `fireDue`, `advance`, `reset` and
  `accountForDowntime` move the mark only over occurrences they account for. That
  the count is exact needs that each search begins past what was counted
  (`CountInv`). `ReasonsInv` says when the two reasons that lose an occurrence can be
  met: `NothingLost` names them, and `EveryOccurrenceAnswered` has neither, for a worker
  whose defaults make an execution and no more occurrences than `MaxMissed`.
* `LogProofs`, for any limit, number of rotations, amount of output, line and poll
  sizes and both backlogs: `FilesAreSound`, `ReadersSeeIt`, `EndedStreams`. Of the
  files: each begins where the one before it ends, and only the one being written
  has more than was counted, by the marker (`DataInv`, `Extra`); an older path names
  an older file and a hole only moves down while files move up (`DirInv`); until
  something is dropped or purged the path of generation g is the g-th file before
  the current one (`WholeInv`), which is why nothing is missing untold. Of a reader
  of the history: part i is from the path `next - i`, and holds what that file held
  when the call began (`ReadPart`); as the path that is read next is the older one,
  parts follow each other unless a rotation overtook it, and while nothing was removed
  they are all the files there are (`ReaderInv`). Of a follower: the unfinished line
  is the run of bytes up to its offset that begins after the last end of line, and splitting what a poll adds to
  it gives lines that each end at the next end of line (`TailInv`); after a rotation
  it starts with a new file and an empty line, so no line is made of two files. What
  a follower takes for the file it knows is that file until it is `fooled` by an
  inode, and one that was fooled no longer counts as having seen its files `whole`
  (`StreamInv`). `EndInv` follows a client from the first byte: it has been sent all
  but the unfinished line, once a poll has found nothing, all there was (`seen`), and
  its stream drains when the attempt is over or an error `cut` it.
* `WorkersProofs`, for any files, edits, requests and reloads:
  `LoadedWorkersKeepPromises`. A worker of the registry has passed the checks after
  the defaults were applied (`Accepted`, `RegistryInv`), and an execution that was
  made of it has what was checked, whatever was overridden or asked for, and its
  deadline is the worker's unless the request was allowed to set it (`Keeps`):
  the lemmas go from the file through defaults, validation, instantiation and
  overrides to the execution, one for each operator.

The theorems of `OwnerProofs` and `RestartProofs`, `NothingLost` and
`EveryOccurrenceAnswered` have hypotheses. Each names a window of the code that
section 4 describes, with the properties TLC finds violated in it:

| Hypothesis | Excludes | Assumed by |
| --- | --- | --- |
| `Timely` | `stall`, `cancelrace`: the schedules under which a late copy is written over a newer row | all of `OwnerProofs` and `RestartProofs` |
| `Orderly` | `crash`, `slowstop`: a daemon that goes between a fork and the write of its pid | `NeverTwice` |
| `NoRestart` | `term`, `crash`: `Reconcile` retries a stopped row and takes no slots back; a daemon that is down leaves locks behind | `StopsAreFinal`, `ServicesKeepSlots`, `LocksHaveReasons` |
| `Connected` | `hangup`: a cancelled request cannot release its lock | `LocksHaveReasons` |
| `Roomy` | `queuefull`: a full queue refuses a firing that is recorded all the same | `NothingLost`, `EveryOccurrenceAnswered` |
| `Makeable` | `badparams`: a worker whose defaults make no execution | `EveryOccurrenceAnswered` |
| `Ample` | an expression with more than `MaxMissed` occurrences | `EveryOccurrenceAnswered` |

Every other fault may happen; in particular all theorems of `OwnerProofs` and
`OrphansAreSettled` hold through failing starts, lost clients,
SIGTERM, grace periods that run out, crashes and restarts in any combination. The
run of each property (section 3) is an instance that meets its hypotheses, but for
`Everything`: it has `stall` and `cancelrace` too, and there `KnownOrphansSettled`
holds on its instance although the proof, which argues by ownership, excludes them.

Only model-checked:

* the liveness properties (`TasksSettle`, `StopTakesEffect`, `StaleClaimFreed`,
  `CloseEnds`, `SearchEnds`, `StreamEnds`): fairness is out of the prover's reach;
* `Cron`: what `Next` computes for every expression and calendar would need an
  induction over the search, which the provers cannot do;
* `DelayGrowsInBounds`: the exponential curve is a power, of which the
  provers know nothing, and what they would need of it is again an induction.

## 6. Not modelled

* Authentication, routing, formatting, listings, metrics, web console, audit log,
  statistics: they filter or show state and change none that is modelled.
* YAML parsing, scalars, the daemon's own configuration file, migrations,
  installer, version: sequential code that runs once, whose errors unit tests reach.
* Credentials, environment, /proc parsing, resource limits: system interfaces.
* The polled cache of the fleet: a display of other nodes that decides nothing. A
  dispatch through a hub, which does, is in `Submission`.
* The command line: each command is a request or a loop of requests.

Hazards of the code that no property covers: the queue depth is compared with
`max_depth` before the row exists, so concurrent submissions exceed it
(scheduler.go:107, modelled, but the docs do not say whether the limit is exact);
rows of one worker that cannot start fill its share of a dispatch batch
(processes.go:294); `retry.on_shutdown` requeues whatever the number of the attempt
(supervisor.go:508); the policy is looked up at each start, so a reload between
attempts changes it (supervisor.go:601); an orphan left alone no longer holds its
lock (reconcile.go:126); a stop request whose client hangs up half way
(control.go:64); an outcome that cannot be written (supervisor.go:391).

What would come next: a registry that reloads replace under running attempts, store
errors inside the supervisor, the batch limit of `PendingProcesses`.
