# Verification of vse-sync-collection-tools

TLA+ models of the collection tools (`src/`), the TLC runs that check them on
small instances, and TLAPS proofs, for every instance, of the properties of
the collection runner with its DevInfo collector, of the logs collector, of the
debug pod, of the exec contexts, of the environment verification, of the log's
windows with their de-duplication, and of the functions that take outputs apart,
choose a pin and select collectors. File names without a
directory are under `src/pkg/`.

## 1. The system

`collect` polls a set of collectors against a Kubernetes cluster for a given
time and writes what they return. `env verify` checks a cluster once,
`start-debug` and `stop-debug` manage a privileged pod by hand.

| component | state | operations | interacts through |
|---|---|---|---|
| CollectorRunner (`runner/runner.go`) | collector instances, a quit channel per poller, `pollResults` (10 slots), `erroredPolls` (10 slots), two counted wait groups, end time | `initialise`, `start`, main loop of `Run`, one `poller` goroutine per collector, `cleanUpAll` | method calls to collectors, channels, OS signals |
| Collector interface (`collectors/collector.go`) | `running`, a poller function | `Start`, `Poll`, `CleanUp` | `Poll` runs in its own goroutine, up to `maxRunningPolls` = 3 per collector |
| DevInfoCollector (`collectors/dev_info_collector.go`) | cached device info, `requiresFetch` token, monitor goroutine | announces the device info; is meant to fetch it again after an errored poll; the only announcer, and the only required collector | quit handshake in `CleanUp`; the channel on which it listens for errored polls is nil |
| LogsCollector (`collectors/log_follower.go`) | `lastPoll` (time and generation), channels `slices` (100) and `lines` (1000), two goroutines | follows the log in overlapping windows, de-duplicates and writes | unbuffered quit channels chained from `CleanUp` |
| Generations, dumper (`loglines/lines.go`) | slices by generation, `Latest`, `Oldest`; dump channel (100) | `Add`, `Flush`, `FlushAll`; one file per slice | called by `processSlices`; own goroutine |
| De-duplication (`loglines/dedup.go`) | none | `DedupAB`, `DedupLineSlices` | called by a flush |
| Exec contexts, debug pod (`clients/exec_command.go`) | pod name, pod object, the pod in the cluster | run a command, refresh the name, create, wait, delete | Kubernetes API, other commands |
| DPLL, GPS, PMC collectors | none beyond `baseCollector`; the netlink variant owns the debug pod | one fetch per poll | fetchers |
| Fetchers, device parsers (`fetcher/`, `collectors/devices/`) | command groups; one fetcher per interface or clock for the life of the process | run commands in one shell, cut their output apart, unpack it | exec contexts |
| Registry, selection (`collectors/registry.go`, `runner/collector_selector.go`) | the registered names | register, select | `collect` |
| Verification (`verify/`, `validations/`) | none | fetch with retries, validate, report, exit code | exec contexts, Kubernetes API |
| Callbacks, detect, cmd, logging | an output file | output, flags | |

What is hard to get right here:

* the main loop, the pollers and the polls wait for each other through wait
  groups and bounded channels; a signal or an error can come at any moment;
* collectors are stopped while their polls run, and `CleanUp` removes what the
  polls use;
* overlapping polls of the log end in any order, fail or lose their stream,
  and the file must still have every line once;
* the log goroutines stop each other in a chain while their channels are full;
* the monitor of DevInfo counts itself in its wait group only once it runs, and
  listens for errored polls on a channel that nobody hands over;
* polls share the name of a pod that the cluster replaces;
* the verification asks again what failed, and one variable holds the results
  of several attempts;
* several commands share one debug pod by its name, look at it in separate
  requests, and meet what earlier ones have left behind.

`PROJECT.json` lists each of these at its line (`hazards`).

## 2. Modules

| module | models | abstract data |
|---|---|---|
| `CollectorLifecycle` | what the runner promises a collector: started once, polled only between its `Start` and the first `CleanUp`, at most `MaxRunningPolls` polls at once, cleaned up with no poll running, announcers started last | |
| `Runner` | `runner.go` and `baseCollector.Poll` | a poll result is `"ok"` or `"errored"`; time is `timeUp` and a free choice whether a poll is due |
| `RunnerProofs` | theorems about `Runner` | |
| `LogsCollector` | the goroutines of the logs collector and the dumper, `Start` to `CleanUp` | slice number *i* stands for the lines it adds |
| `LogDelivery` | what the logs collector promises: each slice comes out once and in order in the file and as a dump, and the clean-up ends with both complete | |
| `LogsCollectorProofs` | theorems about `LogsCollector` | |
| `Dedup` | every function of `dedup.go` | a line is its position in the log |
| `DedupProofs` | lemmas about `Dedup`: two slices, and the slices of a generation | |
| `LogWindows` | polls with their windows, `GenerationalLockedTime`, `Generations`, on top of `Dedup` | one line per clock tick |
| `LogWindowsProofs` | theorems about the windows, the store and the log of `LogWindows` | |
| `DebugPod` | `CreatePodAndWait` and `DeletePodAndWait` in the commands `collect`, `start-debug` and `stop-debug`; the cluster is external | a resource version is a position in the history of the pod |
| `DebugPodProofs` | theorems about `DebugPod` | |
| `DevInfoCollector` | `dev_info_collector.go` composed with `Runner`: the monitor, the polls, `CleanUp` | device info, which never changes |
| `DevInfoProofs` | theorems about `DevInfoCollector` | |
| `ExecContext` | a `ContainerExecContext` shared by polls, the refresh of its pod name, a cluster that replaces pods | a command is how it ends |
| `ExecContextProofs` | theorems about `ExecContext` | |
| `Fetching` | `Cmd`, `CmdGroup`, `Fetcher`, `unmarshal` | output is a sequence of tokens |
| `Devices` | what is read of the card and the GNSS module, and when reading fails | output is the messages and lines the expressions tell apart |
| `Netlink` | choice of the DPLL interface and of the pin, what a poll makes of the lists | netlink lists of small records |
| `Validations` | the checks, and from their errors to results and exit codes | a version is its place in the order |
| `Verify` | the command `env verify`, on top of `Devices` and `Validations` | |
| `Selection` | registry and selection of collectors | a name is a word and whether it is spelled exactly |
| `MCRunner`, `MCDevInfoCollector`, `MCLogsCollector`, `MCLogWindows`, `MCDebugPod`, `MCExecContext` | instances for TLC | |
| `MCVerify`, `MCFunctions` | the answers given to a verification; the arguments with which `Dedup`, `Fetching`, `Netlink` and `Selection` are called, and their properties | |
| `FunctionsProofs` | theorems about `Verify`; about `Fetching`, `Netlink`, `Selection` and `Dedup`, and those properties | |

### Runner

`main` is the place of `Run`: `"initialising"`, `"starting"`, `"looping"` and
`"counting"` (the test of the loop, one read of a count each), `"selecting"`
(the select), `"reporting"` (the send on `erroredPolls`), `"forwarding"`,
`"waitingCollectors"`, `"waitingAnnouncers"`, `"cleaning"`, `"flushing"`
(`Callback.CleanUp`), `"done"`; `"exited"` is the end of the process by
`IfErrorExitOrPanic`. `todo` holds the names left in the `range` loop that `Run`
is in; map iteration takes any of them, `start` takes the announcers last.
`poller[c]` is the place of a poller; a poll of `c` is counted in `fetching[c]`,
`sending[c]` or `returning[c]`. The count of the wait group `runningPolls` is
their sum, the counts of the two runner wait groups are the numbers of running
pollers. Each read of a count, each channel operation and each wait is a step of
its own. Nothing receives from `erroredPolls`, because nobody hands it to the
collectors.

### DevInfoCollector

Extends `Runner`, and every step is a step of `Runner` or leaves its variables
alone (`DevRefinesRunner`). `monitor` is the place of the monitor goroutine
(`"unborn"`, `"starting"` before `wg.Add(1)`, `"selecting"`, `"returning"`,
`"ended"`), `wg` the count of the wait group; `stopping` says that `CleanUp` is
behind its send on `quit`.

The module has what the program does. `NewCollectionConstructor` leaves the
channel that the monitor listens to nil, so the case in which it would ask for a
fetch is never ready, `requiresFetch` stays empty, and `devInfoPoller` always
takes its default case, which reads the device info that the builder fetched. The
unreachable code has no actions. That a failing poll never leads to a new fetch,
as `dev_info_collector.go:45-49` has it, follows without a run: there is no step
that could write `devInfo`. What does need one is what the missing reader does to
the runner (`runner_errored_polls`).

### ExecContext

`podName` is the field that all polls of a collector share. `execCommand` is cut
where the cluster answers or another poll may write the field: `Begin` puts the
name into the request, `CommandNotFound` learns that there is no such pod,
`ListAnswers` is the answer of the pod list, `Refresh` the assignment. The
cluster creates pods under new names, deletes them, and lists old and new ones
together for a while; `Settle` is the moment from which the pod is neither
replaced nor unreachable. The history `failures` counts from there.

### Verify, Validations, Devices

`phase` is the question that comes next. `attempts` records what each attempt
for the GNSS status has brought; `gpsDetails` and `antCheck` are the two
variables of `getGPSStatusValidation` that survive an attempt. The checks are kept
with the error that their `Verify` will return, which is a function of the data
they hold. An error is `"nil"`, `"invalidEnv"` or `"other"`, as `errors.As` tells
them apart. A clientset that cannot be made ends the process with
`"MissingInput"` (`NoClientset`); a context that cannot be made, a fetch that
fails and a run-time panic end it with `"panic"`. The JSON report goes on when a
result cannot be written; `Unwritten` says for which names that happens.

### Fetching, Netlink, Selection

Functions of their arguments; `MCFunctions` calls each with every member of a
small set, one call per behaviour, and states its properties against a
definition of what the result should be, not against the algorithm. `selectPin`
has the outcome `"panic"` for a card that lacks one of the two labels and
`"error"` for a list of pins that does not parse. The map `dpllNetlinkFetcher` is
left out: `Start` is called once in a process, so a poll always finds the
fetcher that its own start has built.

### LogsCollector

Channel contents are sequences. `processor`, `writer` and `dumper` are the
places of the three goroutines, `cleanup` that of `CleanUp`. A rendezvous on an
unbuffered channel is one joint step. The default case of `processSlices` is
taken only when no other case is ready, as in Go. The module takes over from
`Runner` that no poll runs during `CleanUp` (`NoPollDuringCleanUp`).
`LogDelivery` sees only how many slices were submitted, the file, the dumps and
whether `CleanUp` has returned; `Delivery` is its instance with these variables
of `LogsCollector`.

### Dedup and LogWindows

`Dedup` is written with Go's zero-based indices; an index out of range is the
outcome `Panic`. Recursion is by recursive functions, over two slices
(`DedupPair`) or over the next issue (`FixAll`). In `LogWindows` a poll is spawned and
looks for the pod (`BeginPoll`), takes `lastPoll.Time()` (`SendRequest`), opens its stream and takes `lastPoll.Generation()` (`OpenStream`), ends it
(`EndStream`, `CutStream`, `PollFails`) and updates `lastPoll` (`Update`):
other polls may act between any two of these. The throttle of the runner's
poller is part of the module, because it limits how far generations move on
while one poll is slow. The history variables `late`, `overtaken` and `cut`
record that a slice came in for a flushed generation, that `lastPoll` moved
between a poll's two reads, and that a stream ended too early: the properties
say exactly which of the three each guarantee depends on, and TLC gives a
behaviour that breaks it when one of them is dropped.

### DebugPod

Each command is a process; `pc[c]` is the request it makes next (`"create"`
and `"delete"` are the looks for a leftover, `"createLook"` and `"deleteLook"`
the first `isPodRunning`), `"ready"` the time between the collector's `Start`
and `CleanUp`, `"succeeded"` and `"failed"` the end. The cluster has at most one
pod of the fixed name; `born` tells one from the next. `since[c]` is what the
pod has been from the version that `c.pod` holds up to now: a list request with
that resource version may be answered with any of these states, and with every
answer `since[c]` starts at the one answered. The looks without a resource
version see the pod as it is. Every request may fail (`RequestFails`), a create
or delete may take effect and still come back as an error, each wait may time
out, and a collection may exit after its `Start` (`Exits`). The cluster starts,
ends and removes pods when it likes. A start may find any leftover.

All commands are taken to be of one build, so that they want the same image;
`ours` is `FALSE` only for leftovers of something else.

Reading the code for this module showed one thing that no property states:
`stop-debug` ends without an error and leaves the pod when the pod is pending,
has ended or has another image (`exec_command.go:393`). The text of the
repository promises no more than "Remove debug container".

## 3. Runs

Passing runs (each with its mutants in `PROJECT.json`: a faulty variant of one
definition, kept in the module next to the definition, that TLC finds):

| run | instance | shows |
|---|---|---|
| `runner` | the composition with DevInfo: 1 collector and DevInfo, 2 polls each, queue of 1 | `NoPollDuringCleanUp`, `AnnouncersLast`, `ForwardNeverBlocks`, `LifecycleSpec` (refinement), `MonitorGoneAfterCleanUp`, `EndsOrBlocks`: `Run` ends unless it hangs in one of two named places |
| `exec_context` | 2 polls, 3 daemon pods, 1 debug pod | `FailuresBounded`, `Recovers` |
| `functions` | every verification from 12 device, 8 version and 5 status outputs and 12 combinations of cluster answers, with any result, all but one or none written; all pairs of slices of a 6-line log; all pairs of outputs of up to 2 tokens; up to 3 pins of 2 cards; up to 3 names | `VerdictTold`, `OneAnswerJudged`, `EveryAttemptMade`, `CollectorAgrees`, `DriverNeverFails`; `OverlapMerged`, `SubsetAbsorbed`, `DedupNeverPanics`; `FetchExact`, `FetchAllOrNothing`; `PinUsable`, `PollFollowsStart`; `SelectionComplete` |
| `logs_pipeline` | 7 slices, channels of 2, keep 1 generation | `Conserved`, `DeliverySpec` (refinement), `CleanUpReturnsEventually` |
| `log_windows` | 8 ticks, 2 polls, keep 1 generation, 1 broken poll | `NoHole`, `GenerationsInOrder`, `WrittenOnce`, `NothingMissing`, `FlushAdvances`, `NeverPanics` |
| `debug_pod` | 2 collections, 1 with an unmanaged pod, any leftover | `ReadyPodRan`, `DeletedIsGone`, `UnmanagedHandsOff`, `CollectsLeaveNoPod`, `CreateAndDeleteEnd`: `CreatePodAndWait` and `DeletePodAndWait` end |

Runs that find a disagreement between the code and what it says of itself (see
`findings`):

| run | the code |
|---|---|
| `runner_errored_polls` | nobody reads `erroredPolls`; the eleventh errored poll blocks the main loop for good (here: the second, with a queue of 1) |
| `runner_signal` | after a signal `Run` waits for polls that wait for `Run` to read `pollResults` |
| `dedup_lost` | stitching drops a line when both slices miss a line of the other |
| `log_windows_overtaken` | a poll with the window of one generation and the number of the next loses its last line |
| `log_windows_broken` | a stream that breaks between lines counts as complete; its backlog is lost |
| `fetch_empty` | a command that prints nothing fails the whole fetch, though an empty string is expected of it |

**Bounds.** In `runner` one collector and DevInfo are enough for one to be running
while the other has finished or has not started; more collectors, more polls and
longer queues only add to the same waits, and the safety properties and the
refinement are proved for all numbers. Queues of one and polls of one or two
reach "full" and "throttled" in few steps; the code has
10 slots for 5 × 3 polls, so full queues are as reachable there. In
`exec_context` two polls can overwrite each other's name, and three pods in a row let a lookup be out of date twice. Seven slices
fill every channel of the log pipeline and cause several flushes. Eight ticks
allow three generations, a flush and an overtaken poll. Six lines allow two
separate gaps in both slices. In `debug_pod` two collections can create, share
and delete one pod and meet each other's terminating one, while the third
command only looks; the proofs cover the other commands. Constants named *(a bound)* in the modules
(`Slices`, `LastTick`, `MaxBroken`, `MaxLine`, `MaxWritten`) exist for TLC only.
Deadlock checking is off because every modelled program ends.

**Fairness.** `Runner`: every goroutine that can run does (the Go scheduler),
the end time passes, a fetch ends (a command that hangs for ever hangs its poll
in the code, too). `SendResult` and `MainTakesQuit` are strongly fair: Go serves
blocked senders of a channel in order, and `select` picks at random among ready
cases. `LogsCollector`: every goroutine that can run does, the runner calls
`CleanUp`; taking a quit signal is strongly fair for the same reason.
`DevInfoCollector`: as `Runner`; the monitor is a goroutine like the others.
`ExecContext`: each poll goes on; nothing is assumed of the cluster.
`Verify` and the functions need none: their properties are invariants.
`DebugPod`: a command that is in a create or a delete goes on with its next
request and its timeouts expire; nothing is assumed of the cluster, and not that
a collection ever gets from `"ready"` to its `CleanUp`: the runner may hang before
(`EndsOrBlocks`), so `CreateAndDeleteEnd` speaks of the two operations alone.

## 4. Proofs

`RunnerProofs` proves for every set of collectors and announcers, every
`MaxRunningPolls` and every queue size:

* `TypeCorrect`: `Spec => []TypeOK`;
* `Inductive`: `Spec => []IndInv`;
* `CleanUpSafe`, `AnnouncersSafe`, `ForwardSafe`: the three safety properties;
* `Refinement`: `Spec => LifecycleSpec`.

They rest on the assumptions of `Runner` only: no name is both a collector and
an announcer, and both limits are positive.

`NoPollDuringCleanUp` is not inductive: that no poll runs in `"cleaning"`
follows from the test of the main loop only if a poller that is not running has
no polls (`PollsCounted`), and that no poller starts later only if start has
finished (`PollersBorn`). `StoppedAtCleanUp` carries the result of the loop's
test to the clean-up. `ForwardNeverBlocks` needs that the quit channels are empty
until the one time `Run` forwards a signal, and that after it the pollers have
stopped, so that the loop ends and no second signal is forwarded
(`QuitOnlyToStop`). `AnnouncersLast` needs that an announcer's poller is born
only when every collector's is (`PollersBorn`). `RunningUntilCleaned` relates
`running` to the pollers and gives the refinement its `cleaned`. `IndInv` is the
conjunction. The proof goes by the five phases of `Run`, the steps of a poller,
of a poll and of the environment, with one lemma per phase and frame lemmas for
the variables a phase leaves alone.

`DebugPodProofs` proves for any number of commands of each kind, and any
behaviour of the cluster:

* `PodInductive`: `Spec => []IndInv`;
* `ReadySafe`, `DeleteSafe`, `UnmanagedSafe`: `ReadyPodRan`, `DeletedIsGone`,
  `UnmanagedHandsOff`.

The assumptions are that a command is of one kind and that `None` is none of
them. `ReadyPodRan` is about an answer that may be old, so its invariant has to
speak of everything the pod has been since `c.pod`: `SinceUpToNow` says that
this history begins with a pod, ends with the present, and that every pod in it
has the right image. It is kept because a leftover with another image can only
go away, and what is created later has the right image. `DeletedIsGone` needs that
a pod born later is another one (`births`, in `TypeOK`), and `PlacesReached`,
that a delete leads to the wait and nowhere else. The lemma `NoticedRemembers`
gives the histories after a step of the cluster, `Suffix` those after an
answer; the steps of a command have one lemma per kind of request.

`DevInfoProofs` proves that every step of the composition is a step of `Runner`
or a stutter (`DevRefinesRunner`), so that all theorems of `RunnerProofs` hold of
it (`DevNoPollDuringCleanUp` is one), and

* `MonitorGone`: `DevSpec => []MonitorGoneAfterCleanUp`, from the invariant
  `DevInv`: the wait group counts the monitor from its first step to its last
  (`MonitorCounted`), and `CleanUp` waits on it only after the send on the unbuffered
  `quit` has met a monitor that counts itself;
* `DevTypeCorrect`: the places and the wait group keep their types.

`ExecContextProofs` proves for any number of polls, any names and any cluster
`TypeCorrect` and `QuickRecovery` (`FailuresBounded`). Its invariant `SettledInv`
counts for each poll the failures behind it and those still ahead (`Left`): a poll
that holds an old lookup can bring back a gone name once (`reverted`), and each such
return costs every other poll one failure at most.

`FunctionsProofs` proves of `Verify` for any answers, any minimum versions in the order of the
code and any number of retries: `Verdict`, `OneAnswer`, `Attempts`, `Agreement`,
`DriverIsNoFailure` and `TypeCorrect`, from the invariant `IInv`: `Gathered` ties the
checks made to the phase, `Attempted` ties `gpsDetails` and `antCheck` to the last
attempt, `Judged` ties the checks to the answers that are still at hand. It rests on
the assumptions that there is at least one attempt and that a version is a
natural number.

`LogsCollectorProofs` proves for any channel lengths, any number of slices and
any number of generations kept:

* `PipelineInvariant`, `PipelineTypeCorrect`: the invariant `PipelineInv` and `TypeOK`;
* `NothingLost`: `Conserved`, at every moment the file, the channels, the store and
  the hands of the goroutines hold every slice once and in order;
* `CleanUpCompletes`: `CleanUpComplete`, when `CleanUp` has returned both the file and the
  dumps have everything;
* `PipelineDelivers`: `Spec => DeliverySpec`, every step is a step of `LogDelivery` or a
  stutter.

`Conserved` follows the lines; `DumpsConserved` follows the slices on their second
way, to the dumper, where `InHand` is the one between the store and the channel.
That `CleanUp` leaves nothing behind is a fact about the chain of quit signals, so
the invariant says where each goroutine may be when another has got to a
certain place (`Quitting`), what is empty by then (`Emptied`), and that the wait
group has counted the goroutines that have begun (`Counted`): `CleanUp` cannot pass
`wg.Wait()` before they begin, because its unbuffered send needs `processSlices`, whose
send needs `writeToLogFile`. For the refinement, `Conserved` gives that the line
written next is number `Len(written) + 1`. The assumption is that the channels have room
for something.

`LogWindowsProofs` proves for any number of polls, any throttle, poll interval and
log length: `WindowInvariant`, `WindowsLeaveNoHole` (`NoHole`) and `GenerationsOrdered`
(`GenerationsInOrder`). `NoHole` is not inductive: a poll that is still streaming
could have begun too late. `WindowsMeet` says of every time a window begins at or
may begin at (`lastPoll`, what a poll has read, the start of one that will update
`lastPoll`) that every line before it has been handed over; so a window joins what
is there, whatever order the polls end in. `GenerationsInOrder` compares two polls;
`ReadTogether` compares each with `lastPoll` instead, which only grows, and both its
parts together.

It also proves what the log becomes: `LogInvariant`, `LogTypeOK` (`TypeOK`),
`LinesWrittenOnce` (`WrittenOnce`), `NoLineMissing` (`NothingMissing`), `FlushesAdvance`
(`FlushAdvances`) and `PanicNeedsBoth`: `NeverPanics` holds unless a poll was overtaken and,
besides, a stream was cut. None of them is inductive: each says what a flush
leaves in the file, and that depends on which slices are in the store and still on
their way. The parts of `LogInv`, each TLC-checked on the instance of `log_windows`
before it was proved, are

* `LogTypes`: the store is in generations up to `Latest` and has `Oldest`, once there
  is anything in it; its slices are not empty and hold collected lines in order; a
  poll has read of `lastPoll` what it was then, and none is left after the last flush;
* `WindowsHold`, unless a poll was overtaken: all readings of `lastPoll`, those of
  polls and those of stored slices, are in the same order by time as by generation, and
  slices are consecutive, so a generation's slices begin where one window begins;
* `MeetHolds`, unless a stream was cut: windows of one generation meet. A poll that
  was overtaken begins elsewhere than the other polls of its generation, but no
  window begins after another of its generation has ended. Each of these two parts says
  by itself that nothing panics;
* `WrittenHolds`, unless a slice was late or a poll overtaken: the file is in order and,
  until the last flush, ends before the first stored line: de-duplication cuts each
  window off where the next one begins, and what is older comes no more;
* `ReachHolds`, unless overtaken or cut: windows end in the order of their
  generations, and what a poll that ends has handed over is in the store;
* `CoverHolds`, unless late, overtaken or cut: between a window and the beginning
  of a later one there is nothing that no stored window covers (`Covered`), and a
  line that was collected is in the file or in the store (`Held`).

The conditions are those of the properties: `late`, `overtaken` and `cut` are the
histories of what the code does not guard against, and the runs `log_windows_overtaken`
and `log_windows_broken` show what comes of it. The assumptions are that
`PollInterval`, `LastTick` and `MaxRunningPolls` are positive.

`DedupProofs` holds what those proofs say of `dedup.go`, for slices of any length. The
loops are recursive functions on pairs of slices, and the library's induction
theorems take operators; so induction takes a property as the set of the
numbers that have it (`Upward`, `Downward`, from a least element), and the loop `fixLines` has a value because each
turn leaves fewer lines after the last agreement (`Left`, `Fewer`, `FixAllEnds`).
Of two slices in order, no index is out of range (`OrderedNeverPanics`), a slice
within the other is absorbed (`OrderedAbsorbed`), and two slices that
overlap become the lines of both, once and in order (`OrderedMerged`), if what is
missing between two common lines is missing in one of them only (`Fits`); `Merging`
says what every turn of the loop keeps of them. `WindowsPassed` follows the backward pass of
`DedupLineSlices` over the windows of a generation.

`DebugPodProofs` also proves `CollectsSafe` (`CollectsLeaveNoPod`). Several collections share
a pod and any of them may delete it, so the property does not follow from what
one of them does. `LivePodIsOwed` is about each collection on its own: while there is a
live pod that it has created, or that was left over, it has not got past its
delete, and everything its look before the delete may be answered with
(`since`) is a running pod, so that it cannot be led past. `StopsOnlyDelete` and
`CollectsKnowPod` are facts about places that it needs.

`FunctionsProofs` proves general facts about four modules of functions, and from them
eight properties of the run `functions`:

* `OutputExtracted`: for a command among any number of others in one shell and
  outputs of any length, `ExtractResult` gives just what the command printed without
  the last newline, or fails, unless a tag of the command itself is printed. From
  it `FetchesExactly` (`FetchExact`) and `FetchesAllOrNothing` (`FetchAllOrNothing`);
* `PinOfTheCard`: in a list of any length with pins of any cards, a pin that is chosen
  is a usable one of the card. From it `StartUsesOwnPin` (`PinUsable`);
* `PollsWhatWasFound` (`PollFollowsStart`);
* `SelectsComplete` (`SelectionComplete`), by the lemma `SelectedOnce` for a list of any
  length of the names the selection tells apart: each round of a fold is described
  by the set of the names taken so far. The registry is the five collectors of the code;
* `NoDedupPanics` (`DedupNeverPanics`), `SubsetsAbsorbed` (`SubsetAbsorbed`) and `OverlapsMerged`
  (`OverlapMerged`), from `DedupProofs`.

The eight are invariants of `CallsSpec` by `CallInv`: a result is that of its call. The
first is argued over positions in the output: the tag of the key stands at one place
only. The loops in `selectPin` and `ExtractResult`, in which the last match wins, are
written with the greatest index; that it exists is proved by a least element
(`LeastOf`).

**Only model-checked:**

* liveness: `EndsOrBlocks`, `Recovers`, `CleanUpReturnsEventually`,
  `CreateAndDeleteEnd` (out of the prover's reach);
* `NeverPanics` when a poll was overtaken and a stream was cut as well. Slices of a
  generation may then have holes between them; a slice with a hole that is merged
  with a third one need not come out in order, and what `DedupAB` does with slices
  out of order has no shorter description than its own recursion. The run
  `log_windows` covers these states on its instance.

## 5. Not modelled

* the regular expressions inside one message of a device, timestamps, and the
  parser of `pmc` (one expression over one answer): data without control,
  covered by unit tests;
* flags, logging, the formatting of output files (`Callbacks`);
* `detect`: one pass over one configuration file and one command per section;
* the configuration of client-go;
* the wrap-around of `uint32` generations (2^32 polls);
* clocks of node and host are taken to agree.

Seen while modelling, besides the findings. The first two contradict a text of the
repository and can be read off one line each; the others contradict none:

* the help of `--collector` says "(case-insensitive)" (`cmd/collect.go:146`), but
  `isIn` compares exactly (`collector_selector.go:27`), so that only `all` and
  `defaults` are (`AddSelected` in `Selection`). `SelectionComplete` asks nothing of
  a collector whose name is spelled otherwise, but that it was named at all if it runs;
* a log file "is required when using the logs collector" (`cmd/collect.go:157`), but
  the check (`cmd/collect.go:59`) knows neither `defaults` nor other spellings of
  `all` (`MissingLogsFile`): the collection then starts, and the writer of the logs
  ends it at `log_follower.go:141`;
* the EEC offset is stored under `ecc_offset` (`dpll_netlink.go:216`) while the
  field is tagged `eec_offset`: it is always 0 (`DPLLNetlinkInfo`);
* `selectPin` dereferences nil for a card without one of the two pins
  (`dpll_netlink.go:333`, `:341`);
* the minimum driver version 1.11.0 is never compared with success or failure:
  what is below 5.14 is "could not tell" first (`DriverNeverFails`);
* a NAV-STATUS that comes last is not recognised, because the output is trimmed
  and the expression asks for the blank line behind it (`gps_ubx.go:71`);
* whether a card has a GNSS device is decided once, when the fetcher is built
  (`device_info.go:140`): after one failing `ls` the announcements say "NOT FOUND"
  for the whole run, and a directory that goes away later fails every fetch;
* output files are opened without truncation (`callbacks.go:83`,
  `log_follower.go:141`), so the end of a longer file of an earlier run stays.

## 6. Plan

1. Proofs: `NeverPanics` without its exception, from a description of slices with
   holes that merging preserves.
2. `detect` and the output of callbacks, if they come to keep state.
