----------------------------- MODULE DevInfoProofs -----------------------------
(***************************************************************************)
(* Proofs about DevInfoCollector: the composition implements Runner, so    *)
(* that what RunnerProofs proves of the runner holds of it, and the        *)
(* monitor goroutine never outlives the CleanUp of its collector.          *)
(***************************************************************************)
EXTENDS DevInfoCollector, RunnerProofs

USE DEF Goto, Pick, MainLocal, EnvLocal

(* Every step of the composition is a step of the runner, or one that the  *)
(* runner does not see: the monitor is behind the interface Collector.     *)
LEMMA DevStepIsRunnerStep == [DevNext]_allVars => [Next]_vars
<1> DevInfo \in All /\ DevInfo \in Announcers
  BY DevInfoAssumption DEF All
<1> USE DEF Next, MainStep, Initialise, Start, Loop, Shutdown, Finish
<1> SUFFICES ASSUME [DevNext]_allVars PROVE [Next]_vars
  OBVIOUS
<1>1. CASE DevMainStep
  <2>1. StartDevInfo => Next
    BY DEF StartDevInfo
  <2>2. CleanUpQuits => UNCHANGED vars
    BY DEF CleanUpQuits
  <2>3. CleanUpReturns => Next
    BY DEF CleanUpReturns
  <2>4. OtherMainStep => Next
    BY DEF OtherMainStep, All
  <2> QED BY <1>1, <2>1, <2>2, <2>3, <2>4 DEF DevMainStep
<1>2. CASE MonitorStep
  BY <1>2 DEF MonitorStep, MonitorStarts, MonitorReturns, MonitorGoto
<1>3. ASSUME NEW c \in All, DevPollerStep(c) \/ DevFetchEnds(c)
                            \/ DevSendResult(c) \/ DevPollReturns(c)
      PROVE Next
  BY <1>3 DEF DevPollerStep, DevFetchEnds, DevSendResult, DevPollReturns,
              PollStep
<1>4. CASE (TimePasses \/ Signal) /\ UNCHANGED devVars
  BY <1>4
<1>5. CASE UNCHANGED allVars
  BY <1>5 DEF allVars
<1> QED BY <1>1, <1>2, <1>3, <1>4, <1>5 DEF DevNext

(* The composition of the runner and the DevInfo collector implements the  *)
(* runner, for any number of collectors beside DevInfo.                    *)
THEOREM DevRefinesRunner == DevSpec => Spec
<1>1. DevInit => Init
  BY DEF DevInit
<1> QED BY <1>1, DevStepIsRunnerStep, PTL DEF DevSpec, Spec

-----------------------------------------------------------------------------
\* The monitor variables' types and DevInv's other parts in the initial states.
LEMMA DevInvInit == DevInit => DevInv
<1> SUFFICES ASSUME DevInit PROVE DevInv
  OBVIOUS
<1> USE DEF DevInit
<1>1. DevTypeOK
  <2>1. stopping \in BOOLEAN
    BY Zenon
  <2> QED BY <2>1 DEF DevTypeOK
<1>2. running \in [All -> BOOLEAN]
  BY DEF Init
<1>3. MonitorBornOnce /\ MonitorCounted /\ MonitorGoneAfterCleanUp
  BY DEF MonitorBornOnce, MonitorCounted, MonitorGoneAfterCleanUp
<1> QED BY <1>1, <1>2, <1>3 DEF DevInv

\* The steps of Run.
LEMMA DevMainStepKeepsInv == DevInv /\ DevMainStep => DevInv'
<1> DevInfo \in All /\ DevInfo \in Announcers /\ DevInfo \notin Collectors
  BY DevInfoAssumption, NamesAssumption DEF All
<1> SUFFICES ASSUME DevInv, DevMainStep PROVE DevInv'
  OBVIOUS
<1> USE DEF DevInv, DevTypeOK, MonitorBornOnce, MonitorCounted,
            MonitorGoneAfterCleanUp, devVars
<1>1. CASE StartDevInfo
  <2>1. running' = [running EXCEPT ![DevInfo] = TRUE] /\ monitor = "unborn"
    BY <1>1 DEF StartDevInfo, StartCollector, Startable
  <2>2. running' \in [All -> BOOLEAN] /\ running'[DevInfo]
    BY <2>1
  <2> QED BY <1>1, <2>1, <2>2 DEF StartDevInfo, StartCollector
<1>2. CASE CleanUpQuits
  BY <1>2 DEF CleanUpQuits, CanStop, vars
<1>3. CASE CleanUpReturns
  <2>1. monitor = "ended" /\ monitor' = "ended"
    BY <1>3 DEF CleanUpReturns
  <2>2. running' \in [All -> BOOLEAN]
    BY <1>3 DEF CleanUpReturns, CleanUp
  <2> QED BY <1>3, <2>1, <2>2 DEF CleanUpReturns, CleanUp
<1>4. CASE OtherMainStep
  <2>1. UNCHANGED devVars
    BY <1>4 DEF OtherMainStep
  <2>2. MonitorBornOnce'
    BY <1>4, <2>1 DEF OtherMainStep, Build, SkipCollector, StartCollector,
       BuildFails, Initialised, StartFails, Started, Shutdown,
       MainTestsCollectors, MainTestsAnnouncers, MainTakesQuit, MainReceives, MainReports,
       MainIdles, Forward, Forwarded, CollectorsWaited, AnnouncersWaited,
       CleanUp, CleanUpFails, CleanedUpAll, CallbackCleanUp
  <2>3. running' \in [All -> BOOLEAN] /\ running'[DevInfo] = running[DevInfo]
    <3>1. CASE \E c \in Collectors : StartCollector(c)
      BY <3>1 DEF StartCollector, All
    <3>2. CASE \E c \in Collectors : CleanUp(c)
      BY <3>2 DEF CleanUp, All
    <3>3. CASE UNCHANGED running
      BY <3>3
    <3> QED BY <1>4, <3>1, <3>2, <3>3 DEF OtherMainStep, Build, SkipCollector,
       BuildFails, Initialised, StartFails, Started, Shutdown,
       MainTestsCollectors, MainTestsAnnouncers, MainTakesQuit, MainReceives, MainReports,
       MainIdles, Forward, Forwarded, CollectorsWaited, AnnouncersWaited,
       CleanUpFails, CleanedUpAll, CallbackCleanUp
  <2> QED BY <2>1, <2>2, <2>3
<1> QED BY <1>1, <1>2, <1>3, <1>4 DEF DevMainStep

\* The steps of the monitor.
LEMMA MonitorKeepsInv == DevInv /\ MonitorStep => DevInv'
BY DEF MonitorStep, MonitorStarts, MonitorReturns, MonitorGoto, DevInv, DevTypeOK,
       MonitorBornOnce, MonitorCounted, MonitorGoneAfterCleanUp, vars

\* The steps of the pollers and of the polls.
LEMMA PollKeepsInv ==
  ASSUME DevInv, NEW c \in All,
         DevPollerStep(c) \/ DevFetchEnds(c) \/ DevSendResult(c)
           \/ DevPollReturns(c)
  PROVE  DevInv'
<1>1. UNCHANGED <<running, main, todo, devVars>>
  BY DEF DevPollerStep, PollerStep, PollerSpawns, PollerLoops,
         PollerResumes, PollerTakesQuit, PollerNotDue, PollerExits, PollerGoto,
         PollerLocal, DevFetchEnds, FetchEnds, DevSendResult, SendResult,
         DevPollReturns, PollReturns, PollLocal
<1> QED BY <1>1 DEF DevInv, DevTypeOK, MonitorBornOnce, MonitorCounted,
        MonitorGoneAfterCleanUp, devVars

LEMMA DevInvStep == DevInv /\ [DevNext]_allVars => DevInv'
<1> SUFFICES ASSUME DevInv, [DevNext]_allVars PROVE DevInv'
  OBVIOUS
<1>1. CASE (TimePasses \/ Signal) /\ UNCHANGED devVars
  <2>1. UNCHANGED <<running, main, todo, devVars>>
    BY <1>1 DEF TimePasses, Signal
  <2> QED BY <2>1 DEF DevInv, DevTypeOK, MonitorBornOnce, MonitorCounted,
       MonitorGoneAfterCleanUp, devVars
<1>2. CASE UNCHANGED allVars
  BY <1>2 DEF allVars, vars, DevInv, DevTypeOK, MonitorBornOnce, MonitorCounted,
       MonitorGoneAfterCleanUp, devVars
<1> QED BY <1>1, <1>2, DevMainStepKeepsInv, MonitorKeepsInv, PollKeepsInv
        DEF DevNext

THEOREM DevInvariant == DevSpec => []DevInv
BY DevInvInit, DevInvStep, PTL DEF DevSpec

(* wg.Add(1) runs inside the goroutine it counts, and still CleanUp never  *)
(* returns while the monitor runs, for any number of collectors and polls: *)
(* the send on the unbuffered quit meets the monitor after its wg.Add.     *)
THEOREM MonitorGone == DevSpec => []MonitorGoneAfterCleanUp
<1>1. DevInv => MonitorGoneAfterCleanUp
  BY DEF DevInv
<1> QED BY <1>1, DevInvariant, PTL

(* The wait group of the DevInfo collector counts at most the one monitor, *)
(* and never less than nobody.                                             *)
THEOREM DevTypeCorrect == DevSpec => []DevTypeOK
<1>1. DevInv => DevTypeOK
  BY DEF DevInv
<1> QED BY <1>1, DevInvariant, PTL

(* In the composition too, no poll is under way once clean-up begins, for  *)
(* any number of collectors, while CleanUp waits for the monitor.          *)
THEOREM DevNoPollDuringCleanUp == DevSpec => []NoPollDuringCleanUp
BY DevRefinesRunner, CleanUpSafe, PTL

=============================================================================
