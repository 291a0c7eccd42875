---------------------------- MODULE LogsCollector ----------------------------
(***************************************************************************)
(* The goroutines of the logs collector (pkg/collectors/log_follower.go)   *)
(* and of its generation dumper (pkg/loglines/lines.go), from Start to     *)
(* CleanUp: polls put slices on a channel, processSlices adds them to the  *)
(* generations, pushes what a flush releases to the lines channel, and     *)
(* writeToLogFile writes it.  CleanUp stops the three goroutines in turn   *)
(* through unbuffered quit channels.                                       *)
(*                                                                         *)
(* What de-duplication does to overlapping slices is Dedup's and           *)
(* LogWindows' subject.  Here slice number i stands for the lines it adds  *)
(* to the log, so what has to come out is 1, 2, 3, ... in this order.      *)
(* Slices arrive in the order of their generations, one per generation.    *)
(***************************************************************************)
EXTENDS Naturals, Sequences

CONSTANTS
  Slices,          \* how many slices the polls may produce (a bound)
  SliceChanLength, \* lineSliceChanLength, 100 in the code
  LineChanLength,  \* lineChanLength, 1000 in the code
  DumpChanSize,    \* dumpChannelSize, 100 in the code
  KeepGenerations  \* keepGenerations, 5 in the code

ASSUME CapacityAssumption ==
  /\ Slices \in Nat /\ KeepGenerations \in Nat
  /\ SliceChanLength \in Nat \ {0} /\ LineChanLength \in Nat \ {0}
  /\ DumpChanSize \in Nat \ {0}

VARIABLES
  submitted,  \* slices the polls have put on the channel so far
  slices,     \* the channel slices
  store,      \* generations.Store, oldest generation first
  pushing,    \* the lines of the last flush that are still to be pushed
  lines,      \* the channel lines
  written,    \* the output file
  toDump,     \* the channel toDump of the dumper
  dumped,     \* dump files written
  processor,  \* where processSlices is
  writer,     \* where writeToLogFile is
  dumper,     \* where dumpProcessor is
  cleanup,    \* where CleanUp is
  wg,         \* counter of logs.wg
  exited      \* IfErrorExitOrPanic ended the process

data == <<submitted, slices, store, pushing, lines, written>>
dumpVars == <<toDump, dumped, dumper>>
vars == <<submitted, slices, store, pushing, lines, written, toDump, dumped,
          processor, writer, dumper, cleanup, wg, exited>>

\* Start() has returned: the goroutines exist but have not run yet.
Init ==
  /\ submitted = 0
  /\ slices = <<>> /\ store = <<>> /\ pushing = <<>> /\ lines = <<>>
  /\ written = <<>>
  /\ toDump = <<>> /\ dumped = <<>>
  /\ processor = "unborn" /\ writer = "unborn" /\ dumper = "running"
  /\ cleanup = "idle"
  /\ wg = 0
  /\ exited = FALSE

-----------------------------------------------------------------------------
(* A poll of the collector, and CleanUp.  The runner calls CleanUp when no *)
(* poll is running any more (NoPollDuringCleanUp of Runner).               *)

Submit ==
  /\ cleanup = "idle" /\ submitted < Slices /\ Len(slices) < SliceChanLength
  /\ submitted' = submitted + 1
  /\ slices' = Append(slices, submitted + 1)
  /\ UNCHANGED <<store, pushing, lines, written, dumpVars, processor, writer,
                 cleanup, wg, exited>>

CleanUp ==
  /\ cleanup = "idle" /\ cleanup' = "quittingSlices"
  /\ UNCHANGED <<data, dumpVars, processor, writer, wg, exited>>

\* logs.wg.Wait()
CleanUpWaits ==
  /\ cleanup = "waiting" /\ wg = 0 /\ cleanup' = "quittingDumper"
  /\ UNCHANGED <<data, dumpVars, processor, writer, wg, exited>>

\* dump.quit <- &os.Kill, received by dumpProcessor
CleanUpQuitsDumper ==
  /\ cleanup = "quittingDumper" /\ dumper = "running"
  /\ cleanup' = "waitingDumper" /\ dumper' = "draining"
  /\ UNCHANGED <<data, toDump, dumped, processor, writer, wg, exited>>

\* dump.wg.Wait(); Stop and CleanUp return.
CleanUpReturns ==
  /\ cleanup = "waitingDumper" /\ dumper = "done" /\ cleanup' = "done"
  /\ UNCHANGED <<data, dumpVars, processor, writer, wg, exited>>

-----------------------------------------------------------------------------
(* processSlices *)

\* Faulty variant: the wait group is not told of the goroutine.
ProcessorStartsUncounted ==
  /\ processor = "unborn" /\ processor' = "running"
  /\ UNCHANGED <<data, dumpVars, writer, cleanup, wg, exited>>

\* logs.wg.Add(1) is the first thing the goroutine does.
ProcessorStarts ==
  /\ processor = "unborn" /\ processor' = "running" /\ wg' = wg + 1
  /\ UNCHANGED <<data, dumpVars, writer, cleanup, exited>>

\* generations.Add(<-slices): store it, then send it to the dumper.
AddSlice(from, to) ==
  /\ processor = from /\ slices # <<>> /\ processor' = to
  /\ slices' = Tail(slices)
  /\ store' = Append(store, Head(slices))
  /\ UNCHANGED <<submitted, pushing, lines, written, dumpVars, writer, cleanup,
                 wg, exited>>

\* DumpLines blocks while toDump is full.  The slice is the last in Store.
DumpSlice(from, to) ==
  /\ processor = from /\ Len(toDump) < DumpChanSize /\ processor' = to
  /\ toDump' = Append(toDump, store[Len(store)])
  /\ UNCHANGED <<data, dumped, dumper, writer, cleanup, wg, exited>>

ShouldFlush == Len(store) > KeepGenerations + 1

\* Faulty variant: the reference slice is removed with the flushed ones.
FlushForgetsReference ==
  /\ processor = "running" /\ slices = <<>> /\ cleanup # "quittingSlices"
  /\ ShouldFlush /\ processor' = "pushing"
  /\ pushing' = SubSeq(store, 1, KeepGenerations)
  /\ store' = SubSeq(store, KeepGenerations + 2, Len(store))
  /\ UNCHANGED <<submitted, slices, lines, written, dumpVars, writer, cleanup,
                 wg, exited>>

\* default: Flush releases the generations up to Oldest + keepGenerations,
\* except the last of them, which stays as the reference for the next.
Flush ==
  /\ processor = "running" /\ slices = <<>> /\ cleanup # "quittingSlices"
  /\ ShouldFlush /\ processor' = "pushing"
  /\ pushing' = SubSeq(store, 1, KeepGenerations)
  /\ store' = SubSeq(store, KeepGenerations + 1, Len(store))
  /\ UNCHANGED <<submitted, slices, lines, written, dumpVars, writer, cleanup,
                 wg, exited>>

\* logs.lines <- line, for every released line
PushLine ==
  /\ processor \in {"pushing", "finalPushing"} /\ pushing # <<>>
  /\ Len(lines) < LineChanLength
  /\ lines' = Append(lines, Head(pushing))
  /\ pushing' = Tail(pushing)
  /\ UNCHANGED <<submitted, slices, store, written, dumpVars, processor,
                 writer, cleanup, wg, exited>>

Pushed ==
  /\ pushing = <<>>
  /\ \/ processor = "pushing" /\ processor' = "running"
     \/ processor = "finalPushing" /\ processor' = "quittingWriter"
  /\ UNCHANGED <<data, dumpVars, writer, cleanup, wg, exited>>

\* sig := <-logs.sliceQuit, sent by CleanUp
ProcessorTakesQuit ==
  /\ processor = "running" /\ cleanup = "quittingSlices"
  /\ processor' = "clearing" /\ cleanup' = "waiting"
  /\ UNCHANGED <<data, dumpVars, writer, wg, exited>>

FlushAll ==
  /\ processor = "clearing" /\ slices = <<>> /\ processor' = "finalPushing"
  /\ pushing' = store /\ store' = <<>>
  /\ UNCHANGED <<submitted, slices, lines, written, dumpVars, writer, cleanup,
                 wg, exited>>

\* logs.writeQuit <- sig, received by writeToLogFile; then wg.Done()
ProcessorQuitsWriter ==
  /\ processor = "quittingWriter" /\ writer = "running"
  /\ processor' = "done" /\ writer' = "draining" /\ wg' = wg - 1
  /\ UNCHANGED <<data, dumpVars, cleanup, exited>>

Processor ==
  \/ ProcessorStarts \/ ProcessorTakesQuit \/ Flush \/ PushLine \/ Pushed
  \/ AddSlice("running", "dumping") \/ DumpSlice("dumping", "running")
  \/ AddSlice("clearing", "finalDumping")
  \/ DumpSlice("finalDumping", "clearing")
  \/ FlushAll \/ ProcessorQuitsWriter

-----------------------------------------------------------------------------
(* writeToLogFile.  A failed write is logged and counts as written here.   *)

WriterStarts ==
  /\ writer = "unborn" /\ wg' = wg + 1 /\ writer' = "opening"
  /\ UNCHANGED <<data, dumpVars, processor, cleanup, exited>>

\* os.OpenFile; an error ends the process.
WriterOpens ==
  /\ writer = "opening" /\ writer' = "running"
  /\ exited' \in BOOLEAN
  /\ UNCHANGED <<data, dumpVars, processor, cleanup, wg>>

WriteLine ==
  /\ writer \in {"running", "draining"} /\ lines # <<>>
  /\ written' = Append(written, Head(lines))
  /\ lines' = Tail(lines)
  /\ UNCHANGED <<submitted, slices, store, pushing, dumpVars, processor, writer,
                 cleanup, wg, exited>>

\* Faulty variant: return on the quit signal without draining lines.
WriterReturnsUndrained ==
  /\ writer = "draining" /\ writer' = "done" /\ wg' = wg - 1
  /\ UNCHANGED <<data, dumpVars, processor, cleanup, exited>>

WriterReturns ==
  /\ writer = "draining" /\ lines = <<>> /\ writer' = "done" /\ wg' = wg - 1
  /\ UNCHANGED <<data, dumpVars, processor, cleanup, exited>>

Writer == WriterStarts \/ WriterOpens \/ WriteLine \/ WriterReturns

-----------------------------------------------------------------------------
(* dumpProcessor *)

\* Faulty variant: the dumper only reads while it is being stopped.
DumpWhenDraining ==
  /\ dumper = "draining" /\ toDump # <<>>
  /\ dumped' = Append(dumped, Head(toDump))
  /\ toDump' = Tail(toDump)
  /\ UNCHANGED <<data, dumper, processor, writer, cleanup, wg, exited>>

DumpToFile ==
  /\ dumper \in {"running", "draining"} /\ toDump # <<>>
  /\ dumped' = Append(dumped, Head(toDump))
  /\ toDump' = Tail(toDump)
  /\ UNCHANGED <<data, dumper, processor, writer, cleanup, wg, exited>>

DumperReturns ==
  /\ dumper = "draining" /\ toDump = <<>> /\ dumper' = "done"
  /\ UNCHANGED <<data, toDump, dumped, processor, writer, cleanup, wg, exited>>

Dumper == DumpToFile \/ DumperReturns

CleanUpStep == CleanUpWaits \/ CleanUpQuitsDumper \/ CleanUpReturns

Next ==
  /\ ~exited
  /\ Submit \/ CleanUp \/ CleanUpStep \/ Processor \/ Writer \/ Dumper

\* Every goroutine that can run eventually runs, and the runner eventually
\* calls CleanUp.  A goroutine takes its quit signal even while its other
\* channel stays ready, because select picks at random.
Fairness ==
  /\ WF_vars(~exited /\ Processor) /\ WF_vars(~exited /\ Writer)
  /\ WF_vars(~exited /\ Dumper) /\ WF_vars(~exited /\ CleanUpStep)
  /\ WF_vars(~exited /\ CleanUp)
  /\ SF_vars(~exited /\ ProcessorTakesQuit)
  /\ SF_vars(~exited /\ ProcessorQuitsWriter)
  /\ SF_vars(~exited /\ CleanUpQuitsDumper)

Spec == Init /\ [][Next]_vars
FairSpec == Spec /\ Fairness

-----------------------------------------------------------------------------
(* Properties *)

TypeOK ==
  /\ submitted \in 0..Slices
  /\ slices \in Seq(1..Slices) /\ Len(slices) <= SliceChanLength
  /\ store \in Seq(1..Slices) /\ pushing \in Seq(1..Slices)
  /\ lines \in Seq(1..Slices) /\ Len(lines) <= LineChanLength
  /\ written \in Seq(1..Slices)
  /\ toDump \in Seq(1..Slices) /\ Len(toDump) <= DumpChanSize
  /\ dumped \in Seq(1..Slices)
  /\ processor \in {"unborn", "running", "dumping", "pushing", "clearing",
                    "finalDumping", "finalPushing", "quittingWriter", "done"}
  /\ writer \in {"unborn", "opening", "running", "draining", "done"}
  /\ dumper \in {"running", "draining", "done"}
  /\ cleanup \in {"idle", "quittingSlices", "waiting", "quittingDumper",
                  "waitingDumper", "done"}
  /\ wg \in 0..2 /\ exited \in BOOLEAN

Submitted == [i \in 1..submitted |-> i]

(* Nothing is lost, doubled or overtaken on the way: at any moment what is *)
(* written, on the lines channel, being pushed, stored and on the slices   *)
(* channel is, in this order, exactly what the polls submitted.            *)
Conserved == written \o lines \o pushing \o store \o slices = Submitted

(* When CleanUp returns, every submitted line is in the output file, every *)
(* slice has its dump file, and no goroutine of the collector is left to   *)
(* touch the files that Stop removes.                                      *)
CleanUpComplete ==
  cleanup = "done" =>
    /\ written = Submitted /\ dumped = Submitted
    /\ processor = "done" /\ writer = "done" /\ dumper = "done"

(* The pipeline of three goroutines and four channels keeps the promise of *)
(* LogDelivery: both ends only ever grow by the slice that comes next, and *)
(* the clean-up closes the collector when both have everything.            *)
Delivery == INSTANCE LogDelivery WITH closed <- cleanup = "done"
DeliverySpec == Delivery!Spec

(* CleanUp returns: the chain of unbuffered quit channels, bounded data    *)
(* channels and wait groups cannot hold itself up.                         *)
CleanUpReturnsEventually == <>(cleanup = "done" \/ exited)

-----------------------------------------------------------------------------
(* The inductive invariant behind Conserved and CleanUpComplete. *)

\* The slice that is stored and not yet sent to the dumper.
InHand == IF processor \in {"dumping", "finalDumping"} THEN <<store[Len(store)]>>
                                                      ELSE <<>>

\* The second way of a slice: to its dump file.
DumpsConserved == dumped \o toDump \o InHand \o slices = Submitted

\* The wait group counts the two goroutines that have started and not ended.
Counted ==
  wg = (IF processor \in {"unborn", "done"} THEN 0 ELSE 1)
         + (IF writer \in {"unborn", "done"} THEN 0 ELSE 1)

\* CleanUp, the processor, the writer and the dumper end in this order.
Quitting ==
  /\ cleanup \in {"idle", "quittingSlices"} <=>
       processor \in {"unborn", "running", "dumping", "pushing"}
  /\ processor = "done" <=> writer \in {"draining", "done"}
  /\ cleanup \in {"quittingDumper", "waitingDumper", "done"} => writer = "done"
  /\ dumper = "running" <=> cleanup \notin {"waitingDumper", "done"}
  /\ cleanup = "done" => dumper = "done"

\* Who has ended, or has come to an end of a phase, has left nothing behind.
Emptied ==
  /\ processor \in {"dumping", "finalDumping"} => store # <<>>
  /\ processor \notin {"pushing", "finalPushing"} => pushing = <<>>
  /\ processor \in {"finalPushing", "quittingWriter", "done"} =>
       store = <<>> /\ slices = <<>>
  /\ writer = "done" => lines = <<>>
  /\ dumper = "done" => toDump = <<>>

PipelineInv == /\ TypeOK /\ Conserved /\ DumpsConserved
               /\ Counted /\ Quitting /\ Emptied

=============================================================================
