--------------------------- MODULE DevInfoCollector ---------------------------
(***************************************************************************)
(* The runner composed with the one announcer it has, the DevInfo          *)
(* collector (pkg/collectors/dev_info_collector.go): the goroutine         *)
(* monitorErroredPolls, which its Start spawns, and the CleanUp that stops *)
(* it.                                                                     *)
(*                                                                         *)
(* The monitor is meant to turn errored polls into requests for a new      *)
(* fetch.  It never does: NewCollectionConstructor sets every field but    *)
(* ErroredPolls, so that the channel the monitor listens to is nil and its *)
(* case is never ready; nothing else sends on requiresFetch, so that every *)
(* poll announces the device info that the builder fetched.  The code      *)
(* behind those two cases is unreachable, and only what the build can do   *)
(* is modelled: a poll of DevInfo reads what no step changes.              *)
(*                                                                         *)
(* Every step of this module is a step of Runner, or leaves Runner's       *)
(* variables alone.                                                        *)
(***************************************************************************)
EXTENDS Runner

CONSTANT DevInfo  \* the name of the collector

ASSUME DevInfoAssumption == Announcers = {DevInfo}

VARIABLES
  monitor,  \* where monitorErroredPolls is
  wg,       \* the count of ptpDev.wg
  stopping  \* CleanUp is behind its send on quit, in wg.Wait()

devVars == <<monitor, wg, stopping>>
allVars == <<vars, devVars>>

DevInit == Init /\ monitor = "unborn" /\ wg = 0 /\ stopping = FALSE

-----------------------------------------------------------------------------
(* Start and CleanUp, called by the runner, and its other steps.           *)

\* go ptpDev.monitorErroredPolls()
StartDevInfo ==
  /\ StartCollector(DevInfo) /\ monitor' = "starting"
  /\ UNCHANGED <<wg, stopping>>

CanStop == main = "cleaning" /\ DevInfo \in todo /\ ~stopping

\* Faulty variant: quit has a buffer, so the send needs no receiver.
CleanUpSendsAhead ==
  /\ CanStop /\ stopping' = TRUE
  /\ UNCHANGED <<vars, monitor, wg>>

\* ptpDev.quit <- os.Kill meets case <-ptpDev.quit: quit has no buffer.
CleanUpQuits ==
  /\ CanStop /\ monitor = "selecting"
  /\ stopping' = TRUE /\ monitor' = "returning"
  /\ UNCHANGED <<vars, wg>>

\* ptpDev.wg.Wait()
CleanUpReturns ==
  /\ stopping /\ wg = 0 /\ CleanUp(DevInfo)
  /\ stopping' = FALSE
  /\ UNCHANGED <<monitor, wg>>

\* The steps of Run that touch nothing of DevInfo; CleanUps do not overlap.
OtherMainStep ==
  /\ \/ \E c \in All : Build(c)
     \/ \E c \in Collectors : SkipCollector(c) \/ StartCollector(c)
     \/ BuildFails \/ Initialised \/ StartFails \/ Started
     \/ MainTestsCollectors \/ MainTestsAnnouncers
     \/ MainTakesQuit \/ MainReceives \/ MainReports \/ MainIdles
     \/ Shutdown
     \/ ~stopping /\ \E c \in Collectors : CleanUp(c)
     \/ ~stopping /\ CleanUpFails
     \/ CleanedUpAll \/ CallbackCleanUp
  /\ UNCHANGED devVars

DevMainStep == StartDevInfo \/ CleanUpQuits \/ CleanUpReturns \/ OtherMainStep

-----------------------------------------------------------------------------
(* monitorErroredPolls: it only sleeps in the default case and waits for   *)
(* quit, its other channel being nil.                                      *)

MonitorGoto(from, to) ==
  /\ main # "exited" /\ monitor = from /\ monitor' = to
  /\ UNCHANGED <<vars, stopping>>

\* ptpDev.wg.Add(1): the goroutine counts itself once it runs.
MonitorStarts == MonitorGoto("starting", "selecting") /\ wg' = wg + 1

\* defer ptpDev.wg.Done()
MonitorReturns == MonitorGoto("returning", "ended") /\ wg' = wg - 1

MonitorStep == MonitorStarts \/ MonitorReturns

-----------------------------------------------------------------------------
(* The pollers and the polls.  devInfoPoller only reads ptpDev.devInfo.    *)

DevPollerStep(c) == PollerStep(c) /\ UNCHANGED devVars
DevFetchEnds(c) == FetchEnds(c) /\ UNCHANGED devVars
DevSendResult(c) == SendResult(c) /\ UNCHANGED devVars
DevPollReturns(c) == PollReturns(c) /\ UNCHANGED devVars

DevNext ==
  \/ DevMainStep \/ MonitorStep
  \/ \E c \in All : \/ DevPollerStep(c) \/ DevFetchEnds(c)
                    \/ DevSendResult(c) \/ DevPollReturns(c)
  \/ (TimePasses \/ Signal) /\ UNCHANGED devVars

DevSpec == DevInit /\ [][DevNext]_allVars

(* As in Runner; the monitor, a goroutine like the others, runs too.       *)
DevFairSpec ==
  /\ DevSpec
  /\ WF_allVars(DevMainStep) /\ SF_allVars(MainTakesQuit /\ UNCHANGED devVars)
  /\ WF_allVars(MonitorStep) /\ WF_allVars(TimePasses /\ UNCHANGED devVars)
  /\ \A c \in All : /\ WF_allVars(DevPollerStep(c)) /\ WF_allVars(DevFetchEnds(c))
                    /\ SF_allVars(DevSendResult(c)) /\ WF_allVars(DevPollReturns(c))

-----------------------------------------------------------------------------
(* Properties *)

DevTypeOK ==
  /\ monitor \in {"unborn", "starting", "selecting", "returning", "ended"}
  /\ wg \in 0..1 /\ stopping \in BOOLEAN

(* Once the CleanUp of DevInfo has returned the monitor has ended, though  *)
(* wg.Add(1) runs only inside the goroutine and wg.Wait() could find the   *)
(* count at zero before it.                                                *)
MonitorGoneAfterCleanUp == running[DevInfo] \/ monitor \in {"unborn", "ended"}

-----------------------------------------------------------------------------
(* The inductive invariant behind MonitorGoneAfterCleanUp.                 *)

\* The monitor is started once.
MonitorBornOnce ==
  main = "initialising" \/ (main = "starting" /\ DevInfo \in todo)
    => monitor = "unborn"

\* The wait group counts the monitor from its first to its last step, and
\* CleanUp waits on it only after it has met the running monitor.
MonitorCounted ==
  /\ wg = IF monitor \in {"selecting", "returning"} THEN 1 ELSE 0
  /\ stopping => monitor \in {"returning", "ended"}

DevInv ==
  /\ DevTypeOK /\ running \in [All -> BOOLEAN]
  /\ MonitorBornOnce /\ MonitorCounted /\ MonitorGoneAfterCleanUp

=============================================================================
