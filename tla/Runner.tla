------------------------------- MODULE Runner -------------------------------
(***************************************************************************)
(* The collection runner (pkg/runner/runner.go) and the part of a          *)
(* collector it drives (baseCollector.Poll of pkg/collectors/collector.go).*)
(*                                                                         *)
(* The processes are goroutines of one Go program: the main loop           *)
(* (CollectorRunner.Run), one poller per started collector, and the polls  *)
(* a poller spawns.  They share the buffered channels pollResults and      *)
(* erroredPolls, one quit channel per poller, and the two wait groups      *)
(* runningCollectorsWG and runningAnnouncersWG.                            *)
(*                                                                         *)
(* Clock time is abstracted: endTime passes at some moment (TimePasses),   *)
(* and whether a poll is due is a free choice except for the first, which  *)
(* is always due.  A poll result is reduced to whether it carries errors.  *)
(* Nothing reads erroredPolls: see DevInfoCollector.                       *)
(***************************************************************************)
EXTENDS Naturals, Sequences

CONSTANTS
  Collectors,           \* names whose IsAnnouncer() is FALSE
  Announcers,           \* names whose IsAnnouncer() is TRUE (DevInfo)
  MaxRunningPolls,      \* maxRunningPolls, 3 in the code
  PollResultsQueueSize  \* pollResultsQueueSize, 10 in the code

ASSUME NamesAssumption == Collectors \cap Announcers = {}
ASSUME BoundsAssumption ==
  /\ MaxRunningPolls \in Nat \ {0}
  /\ PollResultsQueueSize \in Nat \ {0}

All == Collectors \cup Announcers

VARIABLES
  main,         \* where Run is
  todo,         \* the names left in the range loop Run is in
  instances,    \* keys of collectorInstances
  timeUp,       \* time.Since(endTime) > 0
  runnerQuit,   \* a signal is buffered in runner.quit (capacity 1)
  running,      \* running[c]: set by Start, reset by CleanUp
  quit,         \* quit[c]: signals buffered in collectorQuitChannel[c]
  poller,       \* where the poller of c is
  polled,       \* polled[c]: lastPoll of c's poller is not zero
  fetching,     \* fetching[c]: polls of c inside base.poll()
  sending,      \* sending[c]: polls of c sending on resultsChan
  returning,    \* returning[c]: polls of c that have sent, before wg.Done()
  pollResults,  \* the channel pollResults, oldest first
  erroredPolls  \* how many results the channel erroredPolls holds

pollVars == <<fetching, sending, returning>>
chanVars == <<pollResults, erroredPolls>>
vars == <<main, todo, instances, timeUp, runnerQuit, running, quit, poller,
          polled, pollVars, chanVars>>

\* The process has ended: Run returned, or IfErrorExitOrPanic ended it.
Ended == main \in {"done", "exited"}

PollerRunning(c) == poller[c] \notin {"unborn", "done"}
CollectorsRunning == \E c \in Collectors : PollerRunning(c)
AnnouncersRunning == \E a \in Announcers : PollerRunning(a)

\* The count of the poller's WaitGroup runningPolls.
RunningPolls(c) == fetching[c] + sending[c] + returning[c]

OnlyAnnouncers == instances \cap Collectors = {}

Init ==
  /\ main = "initialising"
  /\ todo = All
  /\ instances = {}
  /\ timeUp = FALSE
  /\ runnerQuit = FALSE
  /\ running = [c \in All |-> FALSE]
  /\ quit = [c \in All |-> 0]
  /\ poller = [c \in All |-> "unborn"]
  /\ polled = [c \in All |-> FALSE]
  /\ fetching = [c \in All |-> 0]
  /\ sending = [c \in All |-> 0]
  /\ returning = [c \in All |-> 0]
  /\ pollResults = <<>>
  /\ erroredPolls = 0

\* A step of Run from one place to the next; MainLocal leaves the rest alone.
Goto(from, to) == main = from /\ main' = to
Pick(c) == c \in todo /\ todo' = todo \ {c}
MainLocal == UNCHANGED <<timeUp, runnerQuit, running, quit, poller, polled,
                         pollVars, chanVars>>

-----------------------------------------------------------------------------
(* initialise: build every selected collector. *)

Build(c) ==
  /\ main = "initialising" /\ Pick(c)
  /\ instances' = instances \cup {c}
  /\ UNCHANGED main /\ MainLocal

\* An unknown name, or RequirementsNotMet.  The announcer is a required
\* collector whose builder never reports unmet requirements.
SkipCollector(c) ==
  /\ main = "initialising" /\ c \in Collectors /\ Pick(c)
  /\ UNCHANGED <<main, instances>> /\ MainLocal

\* Any other error of a builder.
BuildFails ==
  /\ todo # {} /\ Goto("initialising", "exited")
  /\ UNCHANGED <<todo, instances>> /\ MainLocal

Initialised ==
  /\ todo = {} /\ Goto("initialising", "starting")
  /\ todo' = instances
  /\ UNCHANGED instances /\ MainLocal

-----------------------------------------------------------------------------
(* start: collectors first, then announcers; a poller each. *)

\* Faulty variant: one range over collectorInstances, in map order.
StartableInMapOrder(c) == c \in todo

\* append(collectorsNames, announcersNames...); map order inside each part.
Startable(c) == c \in todo /\ (c \in Announcers => todo \cap Collectors = {})

StartCollector(c) ==
  /\ main = "starting" /\ Startable(c) /\ Pick(c)
  /\ running' = [running EXCEPT ![c] = TRUE]
  /\ poller' = [poller EXCEPT ![c] = "looping"]
  /\ UNCHANGED <<main, instances, timeUp, runnerQuit, quit, polled, pollVars,
                 chanVars>>

StartFails ==
  /\ todo # {} /\ Goto("starting", "exited")
  /\ UNCHANGED <<todo, instances>> /\ MainLocal

Started ==
  /\ todo = {} /\ Goto("starting", "looping")
  /\ UNCHANGED <<todo, instances>> /\ MainLocal

-----------------------------------------------------------------------------
(* Run: the main loop. *)

\* runningCollectorsWG.GetCount(), the first of the two counts Run adds up;
\* the second does not matter when this one is not zero.
MainTestsCollectors ==
  /\ Goto("looping", IF CollectorsRunning THEN "selecting" ELSE "counting")
  /\ UNCHANGED <<todo, instances>> /\ MainLocal

\* runningAnnouncersWG.GetCount(), and the test of the sum
MainTestsAnnouncers ==
  /\ IF AnnouncersRunning
       THEN Goto("counting", "selecting") /\ UNCHANGED todo
       ELSE Goto("counting", "cleaning") /\ todo' = instances
  /\ UNCHANGED instances /\ MainLocal

MainTakesQuit ==
  /\ runnerQuit /\ Goto("selecting", "forwarding")
  /\ runnerQuit' = FALSE
  /\ todo' = instances
  /\ UNCHANGED <<instances, timeUp, running, quit, poller, polled, pollVars,
                 chanVars>>

MainReceives ==
  /\ pollResults # <<>>
  /\ Goto("selecting",
          IF Head(pollResults) = "errored" THEN "reporting" ELSE "looping")
  /\ pollResults' = Tail(pollResults)
  /\ UNCHANGED <<todo, instances, timeUp, runnerQuit, running, quit, poller,
                 polled, pollVars, erroredPolls>>

MainIdles ==
  /\ pollResults = <<>> /\ ~runnerQuit /\ Goto("selecting", "looping")
  /\ UNCHANGED <<todo, instances>> /\ MainLocal

\* runner.erroredPolls <- pollRes
MainReports ==
  /\ erroredPolls < PollResultsQueueSize /\ Goto("reporting", "looping")
  /\ erroredPolls' = erroredPolls + 1
  /\ UNCHANGED <<todo, instances, timeUp, runnerQuit, running, quit, poller,
                 polled, pollVars, pollResults>>

\* quit <- sig, for every collectorQuitChannel (capacity 1)
Forward(c) ==
  /\ main = "forwarding" /\ quit[c] < 1 /\ Pick(c)
  /\ quit' = [quit EXCEPT ![c] = @ + 1]
  /\ UNCHANGED <<main, instances, timeUp, runnerQuit, running, poller, polled,
                 pollVars, chanVars>>

Forwarded ==
  /\ todo = {} /\ Goto("forwarding", "waitingCollectors")
  /\ UNCHANGED <<todo, instances>> /\ MainLocal

CollectorsWaited ==
  /\ ~CollectorsRunning /\ Goto("waitingCollectors", "waitingAnnouncers")
  /\ UNCHANGED <<todo, instances>> /\ MainLocal

\* Faulty variant: only the collectors are waited for.
AnnouncersNotWaited ==
  /\ Goto("waitingAnnouncers", "looping")
  /\ UNCHANGED <<todo, instances>> /\ MainLocal

AnnouncersWaited ==
  /\ ~AnnouncersRunning /\ Goto("waitingAnnouncers", "looping")
  /\ UNCHANGED <<todo, instances>> /\ MainLocal

\* cleanUpAll: one CleanUp after the other, in map order.
CleanUp(c) ==
  /\ main = "cleaning" /\ Pick(c)
  /\ running' = [running EXCEPT ![c] = FALSE]
  /\ UNCHANGED <<main, instances, timeUp, runnerQuit, quit, poller, polled,
                 pollVars, chanVars>>

CleanedUpAll ==
  /\ todo = {} /\ Goto("cleaning", "flushing")
  /\ UNCHANGED <<todo, instances>> /\ MainLocal

\* A CleanUp, or Callback.CleanUp, returns an error.
CleanUpFails ==
  /\ \/ todo # {} /\ Goto("cleaning", "exited")
     \/ Goto("flushing", "exited")
  /\ UNCHANGED <<todo, instances>> /\ MainLocal

CallbackCleanUp ==
  /\ Goto("flushing", "done")
  /\ UNCHANGED <<todo, instances>> /\ MainLocal

Initialise == (\E c \in All : Build(c) \/ SkipCollector(c))
              \/ BuildFails \/ Initialised
Start == (\E c \in All : StartCollector(c)) \/ StartFails \/ Started
Loop == MainTestsCollectors \/ MainTestsAnnouncers \/ MainTakesQuit
        \/ MainReceives \/ MainIdles \/ MainReports
Shutdown == (\E c \in All : Forward(c))
            \/ Forwarded \/ CollectorsWaited \/ AnnouncersWaited
Finish == (\E c \in All : CleanUp(c))
          \/ CleanedUpAll \/ CleanUpFails \/ CallbackCleanUp

MainStep == Initialise \/ Start \/ Loop \/ Shutdown \/ Finish

-----------------------------------------------------------------------------
(* poller: the goroutine that spawns the polls of c.  All goroutines stop  *)
(* when the process exits.                                                 *)

PollerGoto(c, from, to) ==
  /\ main # "exited" /\ poller[c] = from
  /\ poller' = [poller EXCEPT ![c] = to]
PollerLocal == UNCHANGED <<main, todo, instances, timeUp, runnerQuit, running,
                           chanVars>>

\* Faulty variant: an announcer watches the wrong wait group, its own.
KeepsPollingForAnnouncers(c) ==
  IF c \in Announcers /\ ~OnlyAnnouncers THEN AnnouncersRunning ELSE ~timeUp

KeepsPolling(c) ==
  IF c \in Announcers /\ ~OnlyAnnouncers THEN CollectorsRunning ELSE ~timeUp

\* The head of the loop and the test of runningPolls.GetCount().  Only polls
\* of c change that count between the two reads, and they only lower it.
PollerLoops(c) ==
  /\ PollerGoto(c, "looping",
       CASE ~KeepsPolling(c) -> "draining"
         [] KeepsPolling(c) /\ RunningPolls(c) >= MaxRunningPolls -> "throttled"
         [] KeepsPolling(c) /\ RunningPolls(c) < MaxRunningPolls -> "selecting")
  /\ UNCHANGED <<quit, polled, pollVars>> /\ PollerLocal

\* Faulty variant: go on as soon as one poll has returned.
PollerResumesEarly(c) ==
  /\ PollerGoto(c, "throttled", "selecting")
  /\ UNCHANGED <<quit, polled, pollVars>> /\ PollerLocal

\* runningPolls.Wait(): every running poll has to return, not only one.
PollerResumes(c) ==
  /\ RunningPolls(c) = 0 /\ PollerGoto(c, "throttled", "selecting")
  /\ UNCHANGED <<quit, polled, pollVars>> /\ PollerLocal

PollerTakesQuit(c) ==
  /\ quit[c] > 0 /\ PollerGoto(c, "selecting", "draining")
  /\ quit' = [quit EXCEPT ![c] = @ - 1]
  /\ UNCHANGED <<polled, pollVars>> /\ PollerLocal

\* runningPolls.Add(1); go collector.Poll(...)
PollerSpawns(c) ==
  /\ quit[c] = 0 /\ PollerGoto(c, "selecting", "looping")
  /\ polled' = [polled EXCEPT ![c] = TRUE]
  /\ fetching' = [fetching EXCEPT ![c] = @ + 1]
  /\ UNCHANGED <<quit, sending, returning>> /\ PollerLocal

\* The poll interval has not passed; a zero lastPoll is always due.
PollerNotDue(c) ==
  /\ quit[c] = 0 /\ polled[c] /\ PollerGoto(c, "selecting", "looping")
  /\ UNCHANGED <<quit, polled, pollVars>> /\ PollerLocal

\* Faulty variant: the poller returns without runningPolls.Wait().
PollerExitsUnwaited(c) ==
  /\ PollerGoto(c, "draining", "done")
  /\ UNCHANGED <<quit, polled, pollVars>> /\ PollerLocal

\* runningPolls.Wait(), then the deferred wg.Done().
PollerExits(c) ==
  /\ RunningPolls(c) = 0 /\ PollerGoto(c, "draining", "done")
  /\ UNCHANGED <<quit, polled, pollVars>> /\ PollerLocal

PollerStep(c) ==
  \/ PollerLoops(c) \/ PollerResumes(c) \/ PollerTakesQuit(c)
  \/ PollerSpawns(c) \/ PollerNotDue(c) \/ PollerExits(c)

-----------------------------------------------------------------------------
(* baseCollector.Poll: fetch, send the result, then wg.Done().             *)

PollLocal == /\ main # "exited"
             /\ UNCHANGED <<main, todo, instances, timeUp, runnerQuit,
                            running, quit, poller, polled>>

FetchEnds(c) ==
  /\ fetching[c] > 0
  /\ fetching' = [fetching EXCEPT ![c] = @ - 1]
  /\ sending' = [sending EXCEPT ![c] = @ + 1]
  /\ UNCHANGED <<returning, chanVars>> /\ PollLocal

\* resultsChan <- PollResult{...}: blocks while the channel is full.
SendResult(c) ==
  /\ sending[c] > 0 /\ Len(pollResults) < PollResultsQueueSize
  /\ \E result \in {"ok", "errored"} : pollResults' = Append(pollResults, result)
  /\ sending' = [sending EXCEPT ![c] = @ - 1]
  /\ returning' = [returning EXCEPT ![c] = @ + 1]
  /\ UNCHANGED <<fetching, erroredPolls>> /\ PollLocal

\* Faulty variant: an explicit wg.Done() beside the deferred one.
PollReturnsTwice(c) ==
  /\ returning[c] > 0
  /\ returning' = [returning EXCEPT ![c] = @ - 2]
  /\ UNCHANGED <<fetching, sending, chanVars>> /\ PollLocal

PollReturns(c) ==
  /\ returning[c] > 0
  /\ returning' = [returning EXCEPT ![c] = @ - 1]
  /\ UNCHANGED <<fetching, sending, chanVars>> /\ PollLocal

PollStep(c) == FetchEnds(c) \/ SendResult(c) \/ PollReturns(c)

-----------------------------------------------------------------------------
(* The environment: the clock and the operating system.                    *)

EnvLocal == UNCHANGED <<main, todo, instances, running, quit, poller, polled,
                        pollVars, chanVars>>

TimePasses ==
  /\ ~timeUp /\ timeUp' = TRUE
  /\ UNCHANGED runnerQuit /\ EnvLocal

\* signal.Notify does not block: a second pending signal is dropped.
Signal ==
  /\ ~Ended /\ ~runnerQuit /\ runnerQuit' = TRUE
  /\ UNCHANGED timeUp /\ EnvLocal

Next ==
  \/ MainStep
  \/ \E c \in All : PollerStep(c) \/ PollStep(c)
  \/ TimePasses \/ Signal

(***************************************************************************)
(* Fairness.  Every goroutine that can run eventually runs, endTime        *)
(* passes, and a fetch ends (its commands return).  Senders blocked on a   *)
(* channel are served in order, and select picks at random between ready   *)
(* cases: hence strong fairness for SendResult and MainTakesQuit.          *)
(***************************************************************************)
Fairness ==
  /\ WF_vars(MainStep) /\ SF_vars(MainTakesQuit)
  /\ WF_vars(TimePasses)
  /\ \A c \in All : /\ WF_vars(PollerStep(c)) /\ WF_vars(FetchEnds(c))
                    /\ SF_vars(SendResult(c)) /\ WF_vars(PollReturns(c))

Spec == Init /\ [][Next]_vars

FairSpec == Spec /\ Fairness

-----------------------------------------------------------------------------
(* The runner as the collectors see it. *)

startedCollectors == {c \in All : poller[c] # "unborn"}
cleanedCollectors == {c \in startedCollectors : ~running[c]}
inFlightPolls == [c \in All |-> RunningPolls(c)]

Lifecycle == INSTANCE CollectorLifecycle WITH
  started <- startedCollectors, cleaned <- cleanedCollectors,
  inFlight <- inFlightPolls

(* Every run of the runner keeps the contract of CollectorLifecycle.       *)
LifecycleSpec == Lifecycle!Spec

-----------------------------------------------------------------------------
(* Properties *)

TypeOK ==
  /\ main \in {"initialising", "starting", "looping", "counting", "selecting",
               "reporting", "forwarding", "waitingCollectors",
               "waitingAnnouncers", "cleaning", "flushing", "done", "exited"}
  /\ todo \subseteq All /\ instances \subseteq All
  /\ timeUp \in BOOLEAN /\ runnerQuit \in BOOLEAN
  /\ running \in [All -> BOOLEAN]
  /\ quit \in [All -> 0..1]
  /\ poller \in [All -> {"unborn", "looping", "throttled", "selecting",
                         "draining", "done"}]
  /\ polled \in [All -> BOOLEAN]
  /\ fetching \in [All -> Nat] /\ sending \in [All -> Nat]
  /\ returning \in [All -> Nat]
  /\ pollResults \in Seq({"ok", "errored"})
  /\ Len(pollResults) <= PollResultsQueueSize
  /\ erroredPolls \in 0..PollResultsQueueSize

(* From the moment cleanUpAll starts, no poll is anywhere between its      *)
(* spawning and its wg.Done(): a CleanUp that deletes the pod or closes    *)
(* the output file is never overtaken by a poll that uses them.  The       *)
(* poller, the wait groups and the loop of Run have to agree for this.     *)
NoPollDuringCleanUp ==
  main \in {"cleaning", "flushing", "done"} => \A c \in All : RunningPolls(c) = 0

(* Unless a signal was forwarded, an announcer outlives the collectors it  *)
(* announces for: its poller leaves its loop only when every selected      *)
(* collector has finished.  start() must spawn the announcers last.        *)
AnnouncersLast ==
  /\ ~OnlyAnnouncers
  /\ main \notin {"initialising", "forwarding", "waitingCollectors",
                  "waitingAnnouncers", "exited"}
  => \A a \in Announcers : poller[a] \in {"draining", "done"} =>
       \A c \in instances \cap Collectors : poller[c] = "done"

(* Forwarding a signal never blocks Run: each poller's quit channel has    *)
(* room, although a poller that has already finished never empties its     *)
(* own, and a user may send several signals.                               *)
ForwardNeverBlocks == main = "forwarding" => \A c \in todo : quit[c] = 0

\* Run waits for someone to read from a full erroredPolls.
BlockedOnErroredPolls ==
  main = "reporting" /\ erroredPolls = PollResultsQueueSize

\* Run waits for pollers whose polls wait for Run to read pollResults.
BlockedOnPollResults ==
  /\ main \in {"waitingCollectors", "waitingAnnouncers"}
  /\ Len(pollResults) = PollResultsQueueSize
  /\ \E c \in All : sending[c] > 0

(* Run ends, or it is blocked for good in one of two places: on            *)
(* erroredPolls, or in the wait groups behind a full pollResults.  There   *)
(* is no third way to hang.                                                *)
EndsOrBlocks == <>[](Ended \/ BlockedOnErroredPolls \/ BlockedOnPollResults)

(* What dev_info_collector.go:45-52 and runner.go:237-238 set out to       *)
(* avoid: a full erroredPolls does not block the main loop for good.       *)
ErroredPollsNeverBlockRun == []<>~BlockedOnErroredPolls

(* "Allow ourselves to handle shut down gracefully" (runner.go:26): a      *)
(* signal ends the run, also one that finds the loop running.              *)
SignalEndsRun == ([]<>~BlockedOnErroredPolls) => (runnerQuit ~> Ended)

-----------------------------------------------------------------------------
(* The inductive invariant behind the safety properties. *)

PollersStopped == \A c \in All : ~PollerRunning(c)

\* A poll belongs to a running poller, which counts it.
PollsCounted == \A c \in All :
  /\ RunningPolls(c) <= MaxRunningPolls
  /\ poller[c] = "selecting" => RunningPolls(c) < MaxRunningPolls
  /\ ~PollerRunning(c) => RunningPolls(c) = 0

\* Which collectors have a poller, by the progress of initialise and start.
PollersBorn ==
  /\ main = "initialising" => \A c \in All : poller[c] = "unborn"
  /\ main = "starting" =>
       /\ \A c \in All : c \in instances <=> (c \in todo \/ poller[c] # "unborn")
       /\ \A c \in todo : poller[c] = "unborn"
       /\ \A a \in Announcers : poller[a] # "unborn" => todo \cap Collectors = {}
  /\ main \notin {"initialising", "starting", "exited"} =>
       \A c \in All : c \in instances <=> poller[c] # "unborn"

\* Started collectors keep running until cleanUpAll reaches them.
RunningUntilCleaned ==
  /\ main \notin {"cleaning", "flushing", "done", "exited"} =>
       \A c \in All : running[c] <=> poller[c] # "unborn"
  /\ main \in {"forwarding", "cleaning"} => todo \subseteq instances
  /\ main = "cleaning" => \A c \in todo : running[c]

\* Run gets past its wait groups only when the pollers have stopped.
StoppedAtCleanUp ==
  /\ main \in {"counting", "waitingAnnouncers"} => ~CollectorsRunning
  /\ main \in {"cleaning", "flushing", "done"} => PollersStopped

\* No quit channel holds a signal until the one time Run forwards one.
QuitOnlyToStop ==
  /\ main \in {"initialising", "starting", "selecting", "reporting"} =>
       \A c \in All : quit[c] = 0
  /\ main \in {"looping", "counting"} =>
       (\A c \in All : quit[c] = 0) \/ PollersStopped
  /\ ForwardNeverBlocks

IndInv == /\ TypeOK /\ PollsCounted /\ PollersBorn /\ RunningUntilCleaned
          /\ StoppedAtCleanUp /\ QuitOnlyToStop /\ AnnouncersLast

=============================================================================
