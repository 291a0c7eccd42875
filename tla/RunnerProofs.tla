---------------------------- MODULE RunnerProofs ----------------------------
(***************************************************************************)
(* Proofs about Runner, for every set of collectors and announcers, every  *)
(* bound on running polls, and every queue size.                           *)
(***************************************************************************)
EXTENDS Runner, TLAPS

\* Type correctness of one step of Run.
LEMMA MainStepType == TypeOK /\ MainStep => TypeOK'
<1> SUFFICES ASSUME TypeOK, MainStep PROVE TypeOK'
  OBVIOUS
<1> USE DEF TypeOK, Goto, Pick, MainLocal, pollVars, chanVars, All
<1>1. CASE Initialise
  BY <1>1 DEF Initialise, Build, SkipCollector, BuildFails, Initialised
<1>2. CASE Start
  BY <1>2 DEF Start, StartCollector, StartFails, Started, Startable
<1>3. CASE Loop
  <2>1. CASE MainTestsCollectors \/ MainTestsAnnouncers
    BY <2>1 DEF MainTestsCollectors, MainTestsAnnouncers
  <2>2. CASE MainTakesQuit
    BY <2>2 DEF MainTakesQuit
  <2>3. CASE MainReceives
    <3>1. /\ pollResults' \in Seq({"ok", "errored"})
          /\ Len(pollResults') <= Len(pollResults)
      BY <2>3 DEF MainReceives
    <3>2. Len(pollResults') <= PollResultsQueueSize
      BY <2>3, <3>1, BoundsAssumption DEF MainReceives
    <3> QED BY <2>3, <3>1, <3>2 DEF MainReceives
  <2>4. CASE MainIdles
    BY <2>4 DEF MainIdles
  <2>5. CASE MainReports
    BY <2>5, BoundsAssumption DEF MainReports
  <2> QED BY <1>3, <2>1, <2>2, <2>3, <2>4, <2>5 DEF Loop
<1>4. CASE Shutdown
  <2>1. ASSUME NEW c \in All, Forward(c) PROVE TypeOK'
    <3>1. quit[c] \in 0..1 /\ quit[c] < 1
      BY <2>1 DEF Forward
    <3>2. quit' \in [All -> 0..1]
      <4> HIDE DEF All
      <4> DEFINE q == quit[c] + 1
      <4>1. q \in 0..1
        BY <3>1
      <4> HIDE DEF q
      <4>2. quit' = [quit EXCEPT ![c] = q]
        BY <2>1 DEF Forward, q
      <4> QED BY <4>1, <4>2
    <3> QED BY <2>1, <3>2 DEF Forward
  <2>2. CASE Forwarded
    BY <2>2 DEF Forwarded
  <2>3. CASE CollectorsWaited
    BY <2>3 DEF CollectorsWaited
  <2>4. CASE AnnouncersWaited
    BY <2>4 DEF AnnouncersWaited
  <2> QED BY <1>4, <2>1, <2>2, <2>3, <2>4 DEF Shutdown
<1>5. CASE Finish
  BY <1>5 DEF Finish, CleanUp, CleanedUpAll, CleanUpFails, CallbackCleanUp
<1> QED BY <1>1, <1>2, <1>3, <1>4, <1>5 DEF MainStep

\* Type correctness of one step of a poller or of one of its polls.
LEMMA PollerStepType ==
  ASSUME NEW c \in All, TypeOK, PollerStep(c) \/ PollStep(c)
  PROVE  TypeOK'
<1> USE DEF TypeOK, PollerGoto, PollerLocal, PollLocal, pollVars, chanVars
<1>1. CASE PollerLoops(c)
  BY <1>1, BoundsAssumption DEF PollerLoops, RunningPolls
<1>2. CASE PollerResumes(c)
  BY <1>2 DEF PollerResumes
<1>3. CASE PollerTakesQuit(c)
  BY <1>3 DEF PollerTakesQuit
<1>4. CASE PollerSpawns(c)
  BY <1>4 DEF PollerSpawns
<1>5. CASE PollerNotDue(c)
  BY <1>5 DEF PollerNotDue
<1>6. CASE PollerExits(c)
  BY <1>6 DEF PollerExits
<1>7. CASE FetchEnds(c)
  BY <1>7 DEF FetchEnds
<1>8. CASE SendResult(c)
  BY <1>8, BoundsAssumption DEF SendResult
<1>9. CASE PollReturns(c)
  BY <1>9 DEF PollReturns
<1> QED BY <1>1, <1>2, <1>3, <1>4, <1>5, <1>6, <1>7, <1>8, <1>9
        DEF PollerStep, PollStep

\* Type correctness of one step of the environment.
LEMMA EnvStepType ==
  TypeOK /\ (TimePasses \/ Signal) => TypeOK'
<1> USE DEF TypeOK, EnvLocal, pollVars, chanVars
<1>1. TypeOK /\ TimePasses => TypeOK'
  BY DEF TimePasses
<1>2. TypeOK /\ Signal => TypeOK'
  BY DEF Signal
<1> QED BY <1>1, <1>2

(* TypeOK holds in every state of every run.                               *)
THEOREM TypeCorrect == Spec => []TypeOK
<1>1. Init => TypeOK
  <2> SUFFICES ASSUME Init PROVE TypeOK
    OBVIOUS
  <2>1. pollResults \in Seq({"ok", "errored"}) /\ Len(pollResults) = 0
    BY DEF Init
  <2>2. /\ quit \in [All -> 0..1]
        /\ erroredPolls \in 0..PollResultsQueueSize
        /\ Len(pollResults) <= PollResultsQueueSize
    BY <2>1, BoundsAssumption DEF Init
  <2>3. /\ todo \subseteq All /\ instances \subseteq All
        /\ timeUp \in BOOLEAN /\ runnerQuit \in BOOLEAN
        /\ running \in [All -> BOOLEAN] /\ polled \in [All -> BOOLEAN]
        /\ fetching \in [All -> Nat] /\ sending \in [All -> Nat]
        /\ returning \in [All -> Nat]
        /\ main = "initialising" /\ poller = [c \in All |-> "unborn"]
    BY DEF Init
  <2> QED BY <2>1, <2>2, <2>3 DEF TypeOK
<1>2. TypeOK /\ [Next]_vars => TypeOK'
  <2> SUFFICES ASSUME TypeOK, [Next]_vars PROVE TypeOK'
    OBVIOUS
  <2>1. CASE UNCHANGED vars
    BY <2>1 DEF TypeOK, vars, pollVars, chanVars
  <2> QED BY <2>1, MainStepType, PollerStepType, EnvStepType DEF Next
<1> QED BY <1>1, <1>2, PTL DEF Spec

-----------------------------------------------------------------------------
(* What the parts of the program leave alone. *)

\* Run touches no poll, and of the pollers only the one it spawns.
LEMMA MainFrame ==
  ASSUME MainStep
  PROVE  /\ UNCHANGED <<fetching, sending, returning, polled>>
         /\ \/ UNCHANGED poller
            \/ \E c \in All : StartCollector(c)
<1> USE DEF Goto, Pick, MainLocal, pollVars
<1>1. CASE Initialise
  BY <1>1 DEF Initialise, Build, SkipCollector, BuildFails, Initialised
<1>2. CASE Start
  BY <1>2 DEF Start, StartCollector, StartFails, Started
<1>3. CASE Loop
  BY <1>3 DEF Loop, MainTestsCollectors, MainTestsAnnouncers, MainTakesQuit,
              MainReceives, MainIdles, MainReports
<1>4. CASE Shutdown
  BY <1>4 DEF Shutdown, Forward, Forwarded, CollectorsWaited, AnnouncersWaited
<1>5. CASE Finish
  BY <1>5 DEF Finish, CleanUp, CleanedUpAll, CleanUpFails, CallbackCleanUp
<1> QED BY <1>1, <1>2, <1>3, <1>4, <1>5 DEF MainStep

\* A poller touches its own state only, its polls not even that.
LEMMA PollerFrame ==
  ASSUME NEW c \in All, PollerStep(c) \/ PollStep(c)
  PROVE  /\ main # "exited"
         /\ UNCHANGED <<main, todo, instances, running>>
BY DEF PollerStep, PollerLoops, PollerResumes, PollerTakesQuit, PollerSpawns,
       PollerNotDue, PollerExits, PollerGoto, PollerLocal, PollStep, FetchEnds,
       SendResult, PollReturns, PollLocal

LEMMA PollFrame ==
  ASSUME NEW c \in All, PollStep(c)
  PROVE  UNCHANGED <<poller, quit>>
BY DEF PollStep, FetchEnds, SendResult, PollReturns, PollLocal

\* Only a poller that takes its signal changes a quit channel.
LEMMA QuitFrame ==
  ASSUME TypeOK, NEW c \in All, PollerStep(c)
  PROVE  \/ UNCHANGED quit
         \/ quit[c] = 1 /\ poller[c] = "selecting" /\ quit' = [quit EXCEPT ![c] = 0]
BY DEF TypeOK, PollerStep, PollerLoops, PollerResumes, PollerTakesQuit,
       PollerSpawns, PollerNotDue, PollerExits, PollerGoto

LEMMA EnvFrame ==
  ASSUME TimePasses \/ Signal
  PROVE  UNCHANGED <<main, todo, instances, running, quit, poller, fetching,
                     sending, returning>>
BY DEF TimePasses, Signal, EnvLocal, pollVars

\* A poller is spawned once, ends once, and starts out of nothing else.
LEMMA PollerMoves ==
  ASSUME TypeOK, NEW c \in All, PollerStep(c)
  PROVE  /\ poller[c] \notin {"unborn", "done"}
         /\ poller'[c] # "unborn"
         /\ \A d \in All \ {c} : poller'[d] = poller[d]
<1>1. CASE PollerLoops(c)
  <2>1. RunningPolls(c) \in Nat
    BY DEF TypeOK, RunningPolls
  <2> QED BY <1>1, <2>1, BoundsAssumption DEF PollerLoops, PollerGoto, TypeOK
<1>2. CASE ~PollerLoops(c)
  BY <1>2 DEF TypeOK, PollerStep, PollerResumes, PollerTakesQuit, PollerSpawns,
              PollerNotDue, PollerExits, PollerGoto
<1> QED BY <1>1, <1>2

-----------------------------------------------------------------------------
(* The parts of the inductive invariant. *)

LEMMA PollsCountedStep ==
  ASSUME TypeOK, PollsCounted, [Next]_vars
  PROVE  PollsCounted'
<1> USE DEF PollsCounted, RunningPolls, PollerRunning
<1>1. CASE MainStep
  <2>1. CASE UNCHANGED poller
    BY <1>1, <2>1, MainFrame
  <2>2. ASSUME NEW c \in All, StartCollector(c) PROVE PollsCounted'
    BY <2>2, <1>1, MainFrame DEF StartCollector, TypeOK
  <2> QED BY <1>1, <2>1, <2>2, MainFrame
<1>2. ASSUME NEW c \in All, PollerStep(c) PROVE PollsCounted'
  <2> USE DEF PollerGoto, TypeOK
  <2>1. CASE PollerLoops(c)
    BY <2>1, BoundsAssumption DEF PollerLoops, pollVars
  <2>2. CASE PollerResumes(c)
    BY <2>2, BoundsAssumption DEF PollerResumes, pollVars
  <2>3. CASE PollerTakesQuit(c)
    BY <2>3 DEF PollerTakesQuit, pollVars
  <2>4. CASE PollerSpawns(c)
    <3>1. /\ fetching'[c] = fetching[c] + 1
          /\ \A d \in All \ {c} : fetching'[d] = fetching[d]
          /\ UNCHANGED <<sending, returning>>
      BY <2>4 DEF PollerSpawns
    <3>2. /\ poller[c] = "selecting" /\ poller'[c] = "looping"
          /\ \A d \in All \ {c} : poller'[d] = poller[d]
      BY <2>4 DEF PollerSpawns
    <3>3. RunningPolls(c)' = RunningPolls(c) + 1
      BY <3>1
    <3>4. RunningPolls(c)' <= MaxRunningPolls
      BY <3>2, <3>3, BoundsAssumption
    <3> QED BY <3>1, <3>2, <3>4
  <2>5. CASE PollerNotDue(c)
    BY <2>5 DEF PollerNotDue, pollVars
  <2>6. CASE PollerExits(c)
    BY <2>6 DEF PollerExits, pollVars
  <2> QED BY <1>2, <2>1, <2>2, <2>3, <2>4, <2>5, <2>6 DEF PollerStep
<1>3. ASSUME NEW c \in All, PollStep(c) PROVE PollsCounted'
  <2>1. /\ UNCHANGED poller
        /\ \A d \in All \ {c} : RunningPolls(d)' = RunningPolls(d)
    BY <1>3 DEF PollStep, FetchEnds, SendResult, PollReturns, PollLocal, TypeOK
  <2>2. RunningPolls(c)' \in 0..RunningPolls(c)
    BY <1>3 DEF PollStep, FetchEnds, SendResult, PollReturns, TypeOK
  <2> QED BY <2>1, <2>2, BoundsAssumption DEF TypeOK
<1>4. CASE TimePasses \/ Signal
  BY <1>4, EnvFrame
<1>5. CASE UNCHANGED vars
  BY <1>5 DEF vars, pollVars
<1> QED BY <1>1, <1>2, <1>3, <1>4, <1>5 DEF Next

LEMMA PollersBornStep ==
  ASSUME TypeOK, PollersBorn, [Next]_vars
  PROVE  PollersBorn'
<1>1. CASE MainStep
  <2> USE DEF PollersBorn, TypeOK, Goto, Pick, MainLocal
  <2>1. CASE Initialise
    <3>1. UNCHANGED poller
      BY <2>1 DEF Initialise, Build, SkipCollector, BuildFails, Initialised
    <3>2. CASE Initialised
      BY <3>1, <3>2 DEF Initialised, All
    <3>3. CASE ~Initialised
      BY <2>1, <3>1, <3>3 DEF Initialise, Build, SkipCollector, BuildFails
    <3> QED BY <3>2, <3>3
  <2>2. ASSUME NEW c \in All, StartCollector(c) PROVE PollersBorn'
    BY <2>2 DEF StartCollector, Startable, All
  <2>3. CASE StartFails \/ Started
    BY <2>3 DEF StartFails, Started
  <2>4. CASE Loop
    BY <2>4 DEF Loop, MainTestsCollectors, MainTestsAnnouncers, MainTakesQuit,
                MainReceives, MainIdles, MainReports
  <2>5. CASE Shutdown
    BY <2>5 DEF Shutdown, Forward, Forwarded, CollectorsWaited, AnnouncersWaited
  <2>6. CASE Finish
    BY <2>6 DEF Finish, CleanUp, CleanedUpAll, CleanUpFails, CallbackCleanUp
  <2> QED BY <1>1, <2>1, <2>2, <2>3, <2>4, <2>5, <2>6 DEF MainStep, Start
<1>2. ASSUME NEW c \in All, PollerStep(c) PROVE PollersBorn'
  <2>1. UNCHANGED <<main, todo, instances>>
    BY <1>2, PollerFrame
  <2>2. \A d \in All : poller'[d] = "unborn" <=> poller[d] = "unborn"
    BY <1>2, PollerMoves
  <2> QED BY <2>1, <2>2 DEF PollersBorn, TypeOK, All
<1>3. ASSUME NEW c \in All, PollStep(c) PROVE PollersBorn'
  BY <1>3, PollerFrame, PollFrame DEF PollersBorn
<1>4. CASE TimePasses \/ Signal
  BY <1>4, EnvFrame DEF PollersBorn
<1>5. CASE UNCHANGED vars
  BY <1>5 DEF PollersBorn, vars
<1> QED BY <1>1, <1>2, <1>3, <1>4, <1>5 DEF Next

LEMMA RunningUntilCleanedStep ==
  ASSUME TypeOK, PollersBorn, RunningUntilCleaned, [Next]_vars
  PROVE  RunningUntilCleaned'
<1>1. CASE MainStep
  <2> USE DEF RunningUntilCleaned, PollersBorn, TypeOK, Goto, Pick, MainLocal
  <2>1. CASE Initialise
    BY <1>1, <2>1, MainFrame
       DEF Initialise, Build, SkipCollector, BuildFails, Initialised
  <2>2. ASSUME NEW c \in All, StartCollector(c) PROVE RunningUntilCleaned'
    BY <2>2 DEF StartCollector
  <2>3. CASE StartFails \/ Started
    BY <2>3 DEF StartFails, Started
  <2>4. CASE Loop
    BY <2>4 DEF Loop, MainTestsCollectors, MainTestsAnnouncers, MainTakesQuit,
                MainReceives, MainIdles, MainReports
  <2>5. CASE Shutdown
    BY <2>5 DEF Shutdown, Forward, Forwarded, CollectorsWaited, AnnouncersWaited
  <2>6. CASE Finish
    BY <2>6 DEF Finish, CleanUp, CleanedUpAll, CleanUpFails, CallbackCleanUp
  <2> QED BY <1>1, <2>1, <2>2, <2>3, <2>4, <2>5, <2>6 DEF MainStep, Start
<1>2. ASSUME NEW c \in All, PollerStep(c) PROVE RunningUntilCleaned'
  BY <1>2, PollerFrame, PollerMoves DEF RunningUntilCleaned
<1>3. ASSUME NEW c \in All, PollStep(c) PROVE RunningUntilCleaned'
  BY <1>3, PollerFrame, PollFrame DEF RunningUntilCleaned
<1>4. CASE TimePasses \/ Signal
  BY <1>4, EnvFrame DEF RunningUntilCleaned
<1>5. CASE UNCHANGED vars
  BY <1>5 DEF RunningUntilCleaned, vars
<1> QED BY <1>1, <1>2, <1>3, <1>4, <1>5 DEF Next

LEMMA StoppedAtCleanUpStep ==
  ASSUME TypeOK, StoppedAtCleanUp, [Next]_vars
  PROVE  StoppedAtCleanUp'
<1> USE DEF StoppedAtCleanUp, PollersStopped, CollectorsRunning, PollerRunning, All
<1>1. CASE MainStep
  <2> USE DEF Goto, Pick, MainLocal
  <2>1. CASE Initialise
    BY <2>1 DEF Initialise, Build, SkipCollector, BuildFails, Initialised
  <2>2. CASE Start
    BY <2>2 DEF Start, StartCollector, StartFails, Started
  <2>3. CASE Loop
    BY <2>3 DEF Loop, MainTestsCollectors, MainTestsAnnouncers, MainTakesQuit,
                MainReceives, MainIdles, MainReports, AnnouncersRunning
  <2>4. CASE Shutdown
    BY <2>4 DEF Shutdown, Forward, Forwarded, CollectorsWaited, AnnouncersWaited
  <2>5. CASE Finish
    BY <2>5 DEF Finish, CleanUp, CleanedUpAll, CleanUpFails, CallbackCleanUp
  <2> QED BY <1>1, <2>1, <2>2, <2>3, <2>4, <2>5 DEF MainStep
<1>2. ASSUME NEW c \in All, PollerStep(c) PROVE StoppedAtCleanUp'
  BY <1>2, PollerFrame, PollerMoves
<1>3. ASSUME NEW c \in All, PollStep(c) PROVE StoppedAtCleanUp'
  BY <1>3, PollerFrame, PollFrame
<1>4. CASE TimePasses \/ Signal
  BY <1>4, EnvFrame
<1>5. CASE UNCHANGED vars
  BY <1>5 DEF vars
<1> QED BY <1>1, <1>2, <1>3, <1>4, <1>5 DEF Next

LEMMA QuitOnlyToStopStep ==
  ASSUME TypeOK, StoppedAtCleanUp, QuitOnlyToStop, [Next]_vars
  PROVE  QuitOnlyToStop'
<1> USE DEF QuitOnlyToStop, ForwardNeverBlocks, PollersStopped, PollerRunning, TypeOK
<1>1. CASE MainStep
  <2> USE DEF Goto, Pick, MainLocal
  <2>1. CASE Initialise
    BY <2>1 DEF Initialise, Build, SkipCollector, BuildFails, Initialised
  <2>2. CASE Start
    BY <2>2 DEF Start, StartCollector, StartFails, Started
  <2>3. CASE Loop
    BY <2>3 DEF Loop, MainTestsCollectors, MainTestsAnnouncers, MainTakesQuit,
                MainReceives, MainIdles, MainReports, AnnouncersRunning,
                CollectorsRunning, All
  <2>4. CASE Shutdown
    BY <2>4 DEF Shutdown, Forward, Forwarded, CollectorsWaited,
                AnnouncersWaited, StoppedAtCleanUp, AnnouncersRunning,
                CollectorsRunning, All
  <2>5. CASE Finish
    BY <2>5 DEF Finish, CleanUp, CleanedUpAll, CleanUpFails, CallbackCleanUp
  <2> QED BY <1>1, <2>1, <2>2, <2>3, <2>4, <2>5 DEF MainStep
<1>2. ASSUME NEW c \in All, PollerStep(c) PROVE QuitOnlyToStop'
  <2>1. UNCHANGED <<main, todo>>
    BY <1>2, PollerFrame
  <2>2. \A d \in All : quit[d] = 0 => quit'[d] = 0
    BY <1>2, QuitFrame
  <2>3. ~PollersStopped
    BY <1>2, PollerMoves
  <2> QED BY <2>1, <2>2, <2>3
<1>3. ASSUME NEW c \in All, PollStep(c) PROVE QuitOnlyToStop'
  BY <1>3, PollerFrame, PollFrame
<1>4. CASE TimePasses \/ Signal
  BY <1>4, EnvFrame
<1>5. CASE UNCHANGED vars
  BY <1>5 DEF vars
<1> QED BY <1>1, <1>2, <1>3, <1>4, <1>5 DEF Next

LEMMA AnnouncersLastStep ==
  ASSUME IndInv, [Next]_vars
  PROVE  AnnouncersLast'
<1> USE DEF IndInv, AnnouncersLast, OnlyAnnouncers, All
<1>1. CASE MainStep
  <2> USE DEF Goto, Pick, MainLocal
  <2>1. CASE Initialise
    BY <2>1 DEF Initialise, Build, SkipCollector, BuildFails, Initialised,
                PollersBorn
  <2>2. ASSUME NEW c \in All, StartCollector(c) PROVE AnnouncersLast'
    <3>1. CASE c \in Collectors
      BY <2>2, <3>1, NamesAssumption DEF StartCollector, PollersBorn, TypeOK
    <3>2. CASE c \in Announcers
      BY <2>2, <3>2, NamesAssumption DEF StartCollector, TypeOK
    <3> QED BY <3>1, <3>2
  <2>3. CASE StartFails \/ Started
    BY <2>3 DEF StartFails, Started
  <2>4. CASE Loop
    BY <2>4 DEF Loop, MainTestsCollectors, MainTestsAnnouncers, MainTakesQuit,
                MainReceives, MainIdles, MainReports
  <2>5. CASE AnnouncersWaited
    <3>1. \A c \in instances \cap Collectors : poller[c] = "done"
      BY <2>5 DEF AnnouncersWaited, StoppedAtCleanUp, CollectorsRunning,
                  PollerRunning, PollersBorn
    <3> QED BY <2>5, <3>1 DEF AnnouncersWaited
  <2>6. CASE Shutdown /\ ~AnnouncersWaited
    BY <2>6 DEF Shutdown, Forward, Forwarded, CollectorsWaited
  <2>7. CASE Finish
    BY <2>7 DEF Finish, CleanUp, CleanedUpAll, CleanUpFails, CallbackCleanUp
  <2> QED BY <1>1, <2>1, <2>2, <2>3, <2>4, <2>5, <2>6, <2>7 DEF MainStep, Start
<1>2. ASSUME NEW c \in All, PollerStep(c) PROVE AnnouncersLast'
  <2>1. UNCHANGED <<main, todo, instances>> /\ main # "exited"
    BY <1>2, PollerFrame
  <2>2. \A d \in All : poller[d] = "done" => poller'[d] = "done"
    BY <1>2, PollerMoves DEF TypeOK
  <2> SUFFICES ASSUME ~OnlyAnnouncers,
                      main \notin {"initialising", "forwarding",
                                   "waitingCollectors", "waitingAnnouncers",
                                   "exited"},
                      NEW a \in Announcers, poller'[a] \in {"draining", "done"}
               PROVE  \A d \in instances \cap Collectors : poller'[d] = "done"
    BY <2>1
  <2>3. CASE poller[a] \in {"draining", "done"}
    BY <2>2, <2>3
  <2>4. CASE a # c
    BY <1>2, <2>3, <2>4, PollerMoves
  <2>5. CASE a = c /\ PollerLoops(c) /\ poller[a] \notin {"draining", "done"}
    <3>1. ~CollectorsRunning
      <4>1. RunningPolls(c) \in Nat
        BY DEF TypeOK, RunningPolls
      <4>2. KeepsPolling(c) => poller'[c] # "draining" /\ poller'[c] # "done"
        BY <2>5, <4>1, BoundsAssumption DEF PollerLoops, PollerGoto, TypeOK
      <4> QED BY <2>5, <4>2 DEF KeepsPolling
    <3>2. \A d \in instances \cap Collectors : poller[d] # "unborn"
      <4>1. main = "starting" => todo \cap Collectors = {}
        BY <2>5 DEF PollersBorn, PollerLoops, PollerGoto
      <4> QED BY <2>1, <4>1 DEF PollersBorn
    <3> QED BY <2>2, <3>1, <3>2 DEF CollectorsRunning, PollerRunning
  <2>6. CASE PollerTakesQuit(c)
    <3>1. quit[c] # 0 /\ PollerRunning(c)
      BY <2>6 DEF PollerTakesQuit, PollerGoto, PollerRunning, TypeOK
    <3> QED BY <2>1, <3>1 DEF QuitOnlyToStop, StoppedAtCleanUp, PollersStopped,
                              TypeOK
  <2>7. CASE /\ a = c /\ poller[a] \notin {"draining", "done"}
             /\ PollerResumes(c) \/ PollerSpawns(c) \/ PollerNotDue(c)
                \/ PollerExits(c)
    BY <2>7 DEF PollerResumes, PollerSpawns, PollerNotDue, PollerExits,
                PollerGoto, TypeOK
  <2> QED BY <1>2, <2>3, <2>4, <2>5, <2>6, <2>7 DEF PollerStep
<1>3. ASSUME NEW c \in All, PollStep(c) PROVE AnnouncersLast'
  BY <1>3, PollerFrame, PollFrame
<1>4. CASE TimePasses \/ Signal
  BY <1>4, EnvFrame
<1>5. CASE UNCHANGED vars
  BY <1>5 DEF vars
<1> QED BY <1>1, <1>2, <1>3, <1>4, <1>5 DEF Next

-----------------------------------------------------------------------------
(* The theorems. *)

(* The inductive invariant holds in every state of every run.              *)
THEOREM Inductive == Spec => []IndInv
<1>1. Init /\ TypeOK => IndInv
  <2> SUFFICES ASSUME Init, TypeOK PROVE IndInv
    OBVIOUS
  <2>1. PollsCounted
    BY BoundsAssumption DEF Init, PollsCounted, RunningPolls, PollerRunning
  <2>2. PollersBorn /\ RunningUntilCleaned /\ StoppedAtCleanUp
    BY DEF Init, PollersBorn, RunningUntilCleaned, StoppedAtCleanUp
  <2>3. QuitOnlyToStop /\ AnnouncersLast
    BY DEF Init, QuitOnlyToStop, ForwardNeverBlocks, AnnouncersLast
  <2> QED BY <2>1, <2>2, <2>3 DEF IndInv
<1>2. IndInv /\ TypeOK' /\ [Next]_vars => IndInv'
  <2> SUFFICES ASSUME IndInv, TypeOK', [Next]_vars PROVE IndInv'
    OBVIOUS
  <2> USE DEF IndInv
  <2>1. PollsCounted'
    BY PollsCountedStep
  <2>2. PollersBorn'
    BY PollersBornStep
  <2>3. RunningUntilCleaned'
    BY RunningUntilCleanedStep
  <2>4. StoppedAtCleanUp'
    BY StoppedAtCleanUpStep
  <2>5. QuitOnlyToStop'
    BY QuitOnlyToStopStep
  <2>6. AnnouncersLast'
    BY AnnouncersLastStep
  <2> QED BY <2>1, <2>2, <2>3, <2>4, <2>5, <2>6
<1> QED BY <1>1, <1>2, TypeCorrect, PTL DEF Spec

(* No poll runs while the collectors, or the callback, are cleaned up.     *)
THEOREM CleanUpSafe == Spec => []NoPollDuringCleanUp
<1>1. IndInv => NoPollDuringCleanUp
  BY DEF IndInv, StoppedAtCleanUp, PollersStopped, PollsCounted,
         NoPollDuringCleanUp
<1> QED BY <1>1, Inductive, PTL

(* Announcers outlive the collectors they announce for.                    *)
THEOREM AnnouncersSafe == Spec => []AnnouncersLast
<1>1. IndInv => AnnouncersLast
  BY DEF IndInv
<1> QED BY <1>1, Inductive, PTL

(* Run never blocks while it forwards a signal.                            *)
THEOREM ForwardSafe == Spec => []ForwardNeverBlocks
<1>1. IndInv => ForwardNeverBlocks
  BY DEF IndInv, QuitOnlyToStop
<1> QED BY <1>1, Inductive, PTL

-----------------------------------------------------------------------------
(* The runner implements CollectorLifecycle. *)

LEMMA MainStepLifecycle ==
  ASSUME IndInv, MainStep
  PROVE  [Lifecycle!Next]_(Lifecycle!vars)
<1> USE DEF Goto, Pick, MainLocal, startedCollectors, cleanedCollectors,
            inFlightPolls, RunningPolls
<1>1. ASSUME NEW c \in All, StartCollector(c) PROVE Lifecycle!Start(c)
  <2>1. /\ poller[c] = "unborn" /\ main = "starting"
        /\ \A d \in All : running[d] <=> poller[d] # "unborn"
    BY <1>1 DEF StartCollector, IndInv, PollersBorn, RunningUntilCleaned
  <2>2. c \in Collectors => startedCollectors \cap Announcers = {}
    BY <1>1, <2>1 DEF StartCollector, IndInv, PollersBorn
  <2>3. /\ startedCollectors' = startedCollectors \cup {c}
        /\ cleanedCollectors = {} /\ cleanedCollectors' = {}
    BY <1>1, <2>1 DEF StartCollector, IndInv, TypeOK
  <2>4. inFlightPolls' = inFlightPolls
    BY <1>1 DEF StartCollector, pollVars
  <2> QED BY <2>1, <2>2, <2>3, <2>4 DEF Lifecycle!Start
<1>2. ASSUME NEW c \in All, CleanUp(c) PROVE Lifecycle!CleanUp(c)
  <2>1. /\ poller[c] # "unborn" /\ running[c]
        /\ \A d \in All : RunningPolls(d) = 0
    BY <1>2 DEF CleanUp, IndInv, PollersBorn, RunningUntilCleaned,
                StoppedAtCleanUp, PollersStopped, PollsCounted
  <2>2. /\ startedCollectors' = startedCollectors
        /\ cleanedCollectors' = cleanedCollectors \cup {c}
    BY <1>2, <2>1 DEF CleanUp, IndInv, TypeOK
  <2>3. inFlightPolls' = inFlightPolls
    BY <1>2 DEF CleanUp, pollVars
  <2>4. \A d \in Lifecycle!All : inFlightPolls[d] = 0
    BY <2>1 DEF Lifecycle!All, All
  <2>5. c \in startedCollectors \ cleanedCollectors
    BY <2>1
  <2> HIDE DEF startedCollectors, cleanedCollectors, inFlightPolls
  <2> QED BY <2>2, <2>3, <2>4, <2>5 DEF Lifecycle!CleanUp
<1>3. CASE UNCHANGED <<poller, running, fetching, sending, returning>>
  BY <1>3 DEF Lifecycle!vars
<1>4. \/ UNCHANGED <<poller, running, fetching, sending, returning>>
      \/ \E c \in All : StartCollector(c) \/ CleanUp(c)
  <2>1. CASE Initialise
    BY <2>1 DEF Initialise, Build, SkipCollector, BuildFails, Initialised, pollVars
  <2>2. CASE Start
    BY <2>2 DEF Start, StartFails, Started, pollVars
  <2>3. CASE Loop
    BY <2>3 DEF Loop, MainTestsCollectors, MainTestsAnnouncers, MainTakesQuit,
                MainReceives, MainIdles, MainReports, pollVars
  <2>4. CASE Shutdown
    BY <2>4 DEF Shutdown, Forward, Forwarded, CollectorsWaited,
                AnnouncersWaited, pollVars
  <2>5. CASE Finish
    BY <2>5 DEF Finish, CleanedUpAll, CleanUpFails, CallbackCleanUp, pollVars
  <2> QED BY <2>1, <2>2, <2>3, <2>4, <2>5 DEF MainStep
<1> QED BY <1>1, <1>2, <1>3, <1>4 DEF Lifecycle!Next, Lifecycle!All, All

LEMMA PollerStepLifecycle ==
  ASSUME IndInv, NEW c \in All, PollerStep(c) \/ PollStep(c)
  PROVE  [Lifecycle!Next]_(Lifecycle!vars)
<1> USE DEF IndInv, startedCollectors, cleanedCollectors, inFlightPolls
<1>0. /\ fetching \in [All -> Nat] /\ sending \in [All -> Nat]
      /\ returning \in [All -> Nat]
  BY DEF TypeOK
<1>1. startedCollectors' = startedCollectors /\ cleanedCollectors' = cleanedCollectors
  <2>1. \A d \in All : poller'[d] = "unborn" <=> poller[d] = "unborn"
    BY PollerMoves, PollFrame
  <2> QED BY <2>1, PollerFrame
<1>2. CASE PollerSpawns(c)
  <2>1. /\ RunningPolls(c)' = RunningPolls(c) + 1
        /\ \A d \in All \ {c} : RunningPolls(d)' = RunningPolls(d)
    BY <1>2, <1>0 DEF PollerSpawns, RunningPolls
  <2>2. poller[c] = "selecting" /\ inFlightPolls[c] < MaxRunningPolls
    BY <1>2 DEF PollerSpawns, PollerGoto, PollsCounted
  <2>3. c \in startedCollectors /\ cleanedCollectors = {}
    <3>1. main \notin {"cleaning", "flushing", "done", "exited"}
      BY <1>2, <2>2 DEF PollerSpawns, PollerGoto, StoppedAtCleanUp,
                        PollersStopped, PollerRunning
    <3> QED BY <2>2, <3>1 DEF RunningUntilCleaned
  <2>4. inFlightPolls' = [inFlightPolls EXCEPT ![c] = @ + 1]
    BY <2>1
  <2> HIDE DEF IndInv, startedCollectors, cleanedCollectors, inFlightPolls
  <2> QED BY <1>1, <2>2, <2>3, <2>4
          DEF Lifecycle!Next, Lifecycle!BeginPoll, Lifecycle!All, All
<1>3. CASE PollerStep(c) /\ ~PollerSpawns(c)
  <2>1. UNCHANGED <<fetching, sending, returning>>
    BY <1>3 DEF PollerStep, PollerLoops, PollerResumes, PollerTakesQuit,
                PollerNotDue, PollerExits, pollVars
  <2> QED BY <1>1, <2>1 DEF Lifecycle!vars, RunningPolls
<1>4. CASE FetchEnds(c) \/ SendResult(c)
  <2>1. \A d \in All : RunningPolls(d)' = RunningPolls(d)
    <3>1. CASE FetchEnds(c)
      BY <3>1, <1>0 DEF FetchEnds, RunningPolls
    <3>2. CASE SendResult(c)
      <4>1. /\ sending' = [sending EXCEPT ![c] = @ - 1]
            /\ returning' = [returning EXCEPT ![c] = @ + 1]
            /\ fetching' = fetching
        BY <3>2 DEF SendResult
      <4> QED BY <4>1, <1>0 DEF RunningPolls
    <3> QED BY <1>4, <3>1, <3>2
  <2> QED BY <1>1, <2>1 DEF Lifecycle!vars
<1>5. CASE PollReturns(c)
  <2>1. /\ RunningPolls(c) > 0
        /\ RunningPolls(c)' = RunningPolls(c) - 1
        /\ \A d \in All \ {c} : RunningPolls(d)' = RunningPolls(d)
    BY <1>5, <1>0 DEF PollReturns, RunningPolls
  <2>2. inFlightPolls' = [inFlightPolls EXCEPT ![c] = @ - 1]
    BY <2>1
  <2>3. inFlightPolls[c] > 0
    BY <2>1
  <2> HIDE DEF IndInv, startedCollectors, cleanedCollectors, inFlightPolls
  <2> QED BY <1>1, <2>2, <2>3
          DEF Lifecycle!Next, Lifecycle!EndPoll, Lifecycle!All, All
<1> QED BY <1>2, <1>3, <1>4, <1>5 DEF PollStep

(* Every run of the runner is a run of CollectorLifecycle.                 *)
THEOREM Refinement == Spec => LifecycleSpec
<1>1. Init => Lifecycle!Init
  BY DEF Init, Lifecycle!Init, Lifecycle!All, All, startedCollectors,
         cleanedCollectors, inFlightPolls, RunningPolls
<1>2. IndInv /\ [Next]_vars => [Lifecycle!Next]_(Lifecycle!vars)
  <2> SUFFICES ASSUME IndInv, [Next]_vars
               PROVE  [Lifecycle!Next]_(Lifecycle!vars)
    OBVIOUS
  <2>1. CASE UNCHANGED vars \/ TimePasses \/ Signal
    <3>1. UNCHANGED <<poller, running, fetching, sending, returning>>
      BY <2>1, EnvFrame DEF vars, pollVars
    <3> QED BY <3>1 DEF Lifecycle!vars, startedCollectors, cleanedCollectors,
                        inFlightPolls, RunningPolls
  <2> QED BY <2>1, MainStepLifecycle, PollerStepLifecycle DEF Next
<1> QED BY <1>1, <1>2, Inductive, PTL DEF Spec, LifecycleSpec, Lifecycle!Spec

=============================================================================
