------------------------------ MODULE LogWindows ------------------------------
(***************************************************************************)
(* How the logs collector turns overlapping follow windows into one log    *)
(* (pkg/collectors/log_follower.go, poll; pkg/loglines/lines.go,           *)
(* GenerationalLockedTime and Generations; Dedup for the stitching).       *)
(*                                                                         *)
(* The container logs one line per tick: line i at time i.  A poll looks   *)
(* for the pod, reads lastPoll, asks for a stream of the lines since then, *)
(* and, once the stream is open, follows it until a line is past now + poll interval.    *)
(* It then hands its lines to the generations and moves lastPoll to the    *)
(* moment its stream opened.  Several polls run at a time.  The channel    *)
(* between a poll and the generations is a FIFO and is left out: slices    *)
(* are added in the order in which the polls send them (LogsCollector).    *)
(***************************************************************************)
EXTENDS Dedup

CONSTANTS
  LastTick,        \* the clock stops here (a bound)
  PollInterval,    \* logPollInterval, in ticks
  MaxRunningPolls, \* maxRunningPolls of the runner
  KeepGenerations, \* keepGenerations, 5 in the code
  MaxBroken        \* how many polls may fail or lose their stream (a bound)

ASSUME IntervalAssumption == PollInterval \in Nat \ {0} /\ LastTick \in Nat \ {0}
ASSUME PollsAssumption ==
  MaxRunningPolls \in Nat \ {0} /\ KeepGenerations \in Nat /\ MaxBroken \in Nat

Polls == 1..MaxRunningPolls

VARIABLES
  now,        \* the clock, and the last line logged
  lastSpawn,  \* lastPoll of the runner's poller; -1 is the zero time
  waiting,    \* the poller is in runningPolls.Wait()
  poll,       \* poll[p]: a running poll, or Idle
  lastTime,   \* lastPoll.time
  lastGen,    \* lastPoll.generation
  store,      \* generations.Store: generation -> its slices
  latest,     \* generations.Latest
  oldest,     \* generations.Oldest
  written,    \* the lines released to the output file
  flushed,    \* FlushAll is done
  panicked,   \* de-duplication has panicked
  collected,  \* every line a poll has handed over
  late,       \* a slice came in for a generation older than Oldest
  overtaken,  \* lastPoll moved between a poll's two looks at it
  broken,     \* how many requests have failed and streams have broken
  cut         \* a stream has ended before its expected end

pollerVars == <<now, lastSpawn, waiting>>
lastPoll == <<lastTime, lastGen>>
genVars == <<store, latest, oldest, written, flushed, panicked>>
history == <<collected, late, overtaken, broken, cut>>
vars == <<pollerVars, poll, lastPoll, genVars, history>>

Idle == [phase |-> "idle", since |-> 0, start |-> 0, generation |-> 0]

Init ==
  /\ now = 1
  /\ lastSpawn = -1 /\ waiting = FALSE
  /\ poll = [p \in Polls |-> Idle]
  /\ lastTime = 1 /\ lastGen = 0
  /\ store = <<>> /\ latest = 0 /\ oldest = 0
  /\ written = <<>> /\ flushed = FALSE /\ panicked = FALSE
  /\ collected = {} /\ late = FALSE /\ overtaken = FALSE
  /\ broken = 0 /\ cut = FALSE

Running == {p \in Polls : poll[p] # Idle}

-----------------------------------------------------------------------------
(* The clock, and the runner's poller, which spawns a poll when more than  *)
(* the interval has passed and waits for all polls when MaxRunningPolls    *)
(* are running.                                                            *)

Tick ==
  /\ now < LastTick /\ ~flushed
  /\ now' = now + 1
  /\ UNCHANGED <<lastSpawn, waiting, poll, lastPoll, genVars, history>>

PollerWaits ==
  /\ ~waiting /\ Running = Polls /\ waiting' = TRUE
  /\ UNCHANGED <<now, lastSpawn, poll, lastPoll, genVars, history>>

PollerResumes ==
  /\ waiting /\ Running = {} /\ waiting' = FALSE
  /\ UNCHANGED <<now, lastSpawn, poll, lastPoll, genVars, history>>

\* Polls have no names in the code; a new one takes the first free slot.  It
\* begins with the request for the pod's name (FindPodNameFromPrefix).
BeginPoll(p) ==
  /\ ~flushed /\ ~waiting /\ poll[p] = Idle /\ 1..(p - 1) \subseteq Running
  /\ lastSpawn = -1 \/ now - lastSpawn > PollInterval
  /\ lastSpawn' = now
  /\ poll' = [poll EXCEPT ![p] =
       [phase |-> "looking", since |-> 0, start |-> 0, generation |-> 0]]
  /\ UNCHANGED <<now, waiting, lastPoll, genVars, history>>

-----------------------------------------------------------------------------
(* The rest of poll. *)

\* The pod is found: lastPoll.Time() is read for the SinceTime, and the request
\* for the stream is sent.
SendRequest(p) ==
  /\ poll[p].phase = "looking"
  /\ poll' = [poll EXCEPT ![p] =
       [phase |-> "requesting", since |-> lastTime, start |-> 0, generation |-> 0]]
  /\ UNCHANGED <<pollerVars, lastPoll, genVars, history>>

\* The stream is open: start is read, and lastPoll.Generation().
OpenStream(p) ==
  /\ poll[p].phase = "requesting"
  /\ poll' = [poll EXCEPT ![p] = [@ EXCEPT
       !.phase = "streaming", !.start = now, !.generation = lastGen]]
  /\ overtaken' = (overtaken \/ lastTime # poll[p].since)
  /\ UNCHANGED <<pollerVars, lastPoll, genVars, collected, late, broken, cut>>

\* FindPodNameFromPrefix or Stream returns an error, or the stream breaks in
\* the middle of a line, which processStream reports: no slice, no update.
PollFails(p) ==
  /\ poll[p].phase \in {"looking", "requesting", "streaming"} /\ broken < MaxBroken
  /\ poll' = [poll EXCEPT ![p] = Idle]
  /\ broken' = broken + 1
  /\ UNCHANGED <<pollerVars, lastPoll, genVars, collected, late, overtaken,
                 cut>>

Window(first, last) == [i \in 1..(last - first + 1) |-> first + i - 1]

\* Faulty variant: Latest is not kept up to date.
AddSliceForgetsLatest(slice) ==
  LET gen == slice.generation
      others == IF gen \in DOMAIN store THEN store[gen] ELSE <<>>
  IN  /\ store' = [g \in DOMAIN store \cup {gen} |->
                     IF g = gen THEN Append(others, slice) ELSE store[g]]
      /\ collected' = collected \cup ToSet(slice.lines)
      /\ late' = (late \/ gen < oldest)
      /\ UNCHANGED <<latest, oldest, written, flushed, panicked>>

\* slices <- MakeSliceFromLines(lines, generation), up to Generations.Add.
AddSlice(slice) ==
  LET gen == slice.generation
      others == IF gen \in DOMAIN store THEN store[gen] ELSE <<>>
  IN  /\ store' = [g \in DOMAIN store \cup {gen} |->
                     IF g = gen THEN Append(others, slice) ELSE store[g]]
      /\ latest' = IF latest < gen THEN gen ELSE latest
      /\ collected' = collected \cup ToSet(slice.lines)
      /\ late' = (late \/ gen < oldest)
      /\ UNCHANGED <<oldest, written, flushed, panicked>>

\* processStream returns: a line is past the expected end, which is the
\* last one kept.
EndStream(p) ==
  LET end == poll[p].start + PollInterval + 1 IN
  /\ poll[p].phase = "streaming" /\ now >= end
  /\ AddSlice(MakeSliceFromLines(Window(poll[p].since, end), poll[p].generation))
  /\ poll' = [poll EXCEPT ![p].phase = "updating"]
  /\ UNCHANGED <<pollerVars, lastPoll, overtaken, broken, cut>>

\* Faulty variant: a window without lines is handed over like any other.
CutStreamHandsOverNothing(p) ==
  /\ poll[p].phase = "streaming" /\ broken < MaxBroken
  /\ \E last \in (poll[p].since - 1)..now :
       /\ last < poll[p].start + PollInterval + 1
       /\ AddSlice(MakeSliceFromLines(Window(poll[p].since, last),
                                     poll[p].generation))
  /\ poll' = [poll EXCEPT ![p].phase = "updating"]
  /\ cut' = TRUE /\ broken' = broken + 1
  /\ UNCHANGED <<pollerVars, lastPoll, overtaken>>

\* The stream breaks or times out between two lines: Scan() is FALSE, and
\* Err() is not asked again, so the lines read so far count as the window.
CutStream(p) ==
  /\ poll[p].phase = "streaming" /\ broken < MaxBroken
  /\ \E last \in poll[p].since..now :
       /\ last < poll[p].start + PollInterval + 1
       /\ AddSlice(MakeSliceFromLines(Window(poll[p].since, last),
                                     poll[p].generation))
  /\ poll' = [poll EXCEPT ![p].phase = "updating"]
  /\ cut' = TRUE /\ broken' = broken + 1
  /\ UNCHANGED <<pollerVars, lastPoll, overtaken>>

\* Faulty variant: the time a poll ends at becomes lastPoll, whatever it was.
UpdateUnconditionally(p) ==
  /\ poll[p].phase = "updating"
  /\ lastTime' = poll[p].start /\ lastGen' = lastGen + 1
  /\ poll' = [poll EXCEPT ![p] = Idle]
  /\ UNCHANGED <<pollerVars, genVars, history>>

\* Faulty variant: the moment the poll is done becomes lastPoll.
UpdateToNow(p) ==
  /\ poll[p].phase = "updating"
  /\ IF now > lastTime
       THEN lastTime' = now /\ lastGen' = lastGen + 1
       ELSE UNCHANGED <<lastTime, lastGen>>
  /\ poll' = [poll EXCEPT ![p] = Idle]
  /\ UNCHANGED <<pollerVars, genVars, history>>

\* SetLastPoll(start): GenerationalLockedTime.Update.
Update(p) ==
  /\ poll[p].phase = "updating"
  /\ IF poll[p].start > lastTime
       THEN lastTime' = poll[p].start /\ lastGen' = lastGen + 1
       ELSE UNCHANGED <<lastTime, lastGen>>
  /\ poll' = [poll EXCEPT ![p] = Idle]
  /\ UNCHANGED <<pollerVars, genVars, history>>

-----------------------------------------------------------------------------
(* processSlices: flush the generations. *)

\* flush: one slice per generation, then the generations among themselves.
FlushGenerations(gens) ==
  LET order == Arranged(gens, <)
      Flushed(each) ==
        [DedupLineSlices([i \in DOMAIN each |-> each[i].slice]) EXCEPT
           !.panic = @ \/ \E i \in DOMAIN each : each[i].panic]
  IN  Flushed([i \in DOMAIN order |-> dedupGeneration(store[order[i]])])

\* A flush may release the same lines again and again (FlushAdvances says
\* when it does not); MaxWritten bounds how often.
MaxWritten == 2 * LastTick

ShouldFlush ==
  latest - oldest > KeepGenerations /\ Cardinality(DOMAIN store) > KeepGenerations

\* Faulty variant: the reference slice does not go back into the store.
FlushForgetsReference ==
  /\ ShouldFlush /\ ~flushed /\ Len(written) <= MaxWritten
  /\ \E r \in {FlushGenerations({g \in DOMAIN store : g <= oldest + KeepGenerations})} :
       LET gen == r.last.generation IN
       /\ written' = written \o r.result
       /\ store' = [g \in {g \in DOMAIN store : g > gen} |-> store[g]]
       /\ oldest' = gen /\ panicked' = (panicked \/ r.panic)
       /\ UNCHANGED <<pollerVars, poll, lastPoll, latest, flushed, history>>

\* Faulty variant: removeOlderThan leaves Oldest as it was.
FlushKeepsOldest ==
  /\ ShouldFlush /\ ~flushed /\ Len(written) <= MaxWritten
  /\ \E r \in {FlushGenerations({g \in DOMAIN store : g <= oldest + KeepGenerations})} :
       LET gen == r.last.generation IN
       /\ written' = written \o r.result
       /\ store' = [g \in {g \in DOMAIN store : g >= gen} |->
                      IF g = gen THEN <<r.last>> ELSE store[g]]
       /\ panicked' = (panicked \/ r.panic)
       /\ UNCHANGED <<pollerVars, poll, lastPoll, latest, oldest, flushed, history>>

\* Flush, then removeOlderThan(lastSlice.Generation).
Flush ==
  /\ ShouldFlush /\ ~flushed /\ Len(written) <= MaxWritten
  /\ \E r \in {FlushGenerations({g \in DOMAIN store : g <= oldest + KeepGenerations})} :
       LET gen == r.last.generation IN
       /\ written' = written \o r.result
       /\ store' = [g \in {g \in DOMAIN store : g >= gen} |->
                      IF g = gen THEN <<r.last>> ELSE store[g]]
       /\ oldest' = gen /\ panicked' = (panicked \/ r.panic)
       /\ UNCHANGED <<pollerVars, poll, lastPoll, latest, flushed, history>>

\* CleanUp, when no poll runs any more: FlushAll.
FlushAll ==
  /\ ~flushed /\ Running = {}
  /\ flushed' = TRUE
  /\ IF store = <<>>
       THEN UNCHANGED <<written, panicked>>
       ELSE \E r \in {FlushGenerations(DOMAIN store)} :
              /\ written' = written \o r.result \o r.last.lines
              /\ panicked' = (panicked \/ r.panic)
  /\ UNCHANGED <<pollerVars, poll, lastPoll, store, latest, oldest, history>>

Next ==
  \/ Tick \/ PollerWaits \/ PollerResumes \/ Flush \/ FlushAll
  \/ \E p \in Polls : \/ BeginPoll(p) \/ SendRequest(p) \/ OpenStream(p)
                      \/ PollFails(p) \/ EndStream(p) \/ CutStream(p)
                      \/ Update(p)

Spec == Init /\ [][Next]_vars

-----------------------------------------------------------------------------
(* Properties *)

Increasing(s) == \A i \in 1..(Len(s) - 1) : s[i] < s[i + 1]

TypeOK ==
  /\ now \in 1..LastTick /\ lastSpawn \in -1..now /\ waiting \in BOOLEAN
  /\ \A p \in Polls :
       poll[p].phase \in {"idle", "looking", "requesting", "streaming", "updating"}
  /\ lastTime \in 1..now /\ lastGen \in Nat
  /\ latest \in Nat
  /\ oldest \in 0..latest  \* the code subtracts them as unsigned numbers
  /\ \A g \in DOMAIN store : g <= latest /\ store[g] # <<>>
  /\ collected \subseteq 1..LastTick /\ ToSet(written) \subseteq collected

(* The windows leave no hole between them: below a line that some poll has *)
(* handed over every line has been handed over, whichever polls fail, are  *)
(* late or overtaken, unless a stream was cut.  Each window has to begin   *)
(* where the ones handed over before it are complete.                      *)
NoHole == ~cut => \A last \in collected : 1..last \subseteq collected

\* Polls that know their generation.
Following == {p \in Polls : poll[p].phase \in {"streaming", "updating"}}

(* The generations order the windows: a poll of a later generation asks    *)
(* for lines from a later time on, and polls of one generation from the    *)
(* same, unless a poll was overtaken.  A flush relies on it: it drops all  *)
(* generations older than that of the slice that comes last in the log.    *)
GenerationsInOrder ==
  ~overtaken => \A p, q \in Following :
    poll[p].generation < poll[q].generation <=> poll[p].since < poll[q].since

(* The log has every line once and in order, whatever polls fail and       *)
(* streams break, unless a slice is late (it comes in for a generation     *)
(* that is already flushed) or a poll was overtaken (lastPoll moved        *)
(* between its reading the time and its reading the generation).           *)
WrittenOnce == ~late /\ ~overtaken => Increasing(written)

(* After CleanUp no line is missing up to the last one that any poll has   *)
(* seen, if moreover no stream was cut.                                    *)
NothingMissing ==
  flushed /\ ~late /\ ~overtaken /\ ~cut =>
    written = [i \in 1..Cardinality(collected) |-> i]

(* A flush that writes something makes progress: Oldest grows, so that     *)
(* processSlices does not write the same generations again and again.      *)
FlushAdvances ==
  [][written' # written /\ ~flushed' /\ ~late /\ ~overtaken => oldest' > oldest]_vars

(* De-duplication never indexes out of range, whatever windows the polls   *)
(* hand over, late and overtaken ones included.                            *)
NeverPanics == ~panicked

(* "The lines are then fed into a channel, in another goroutine they are   *)
(* de-duplicated and written to an output file" (log_follower.go:41-42):   *)
(* every line that a poll has handed over is in the file after CleanUp.    *)
HandedOverIsWritten == flushed /\ ~cut => ToSet(written) = collected

(* "error while reading logs stream" (log_follower.go:186-187): a stream   *)
(* that breaks is an error of the poll, so that the next poll asks for the *)
(* same lines again and the log has no hole.                               *)
NothingSkipped ==
  flushed /\ ~overtaken => ToSet(written) = 1..Cardinality(ToSet(written))

-----------------------------------------------------------------------------
(* The inductive invariant behind NoHole and GenerationsInOrder. *)

WindowTypes ==
  /\ now \in Nat /\ lastTime \in Nat \ {0} /\ lastGen \in Nat /\ collected \subseteq Nat
  /\ cut \in BOOLEAN /\ overtaken \in BOOLEAN
  /\ poll \in [Polls -> [phase : {"idle", "looking", "requesting",
                                   "streaming", "updating"},
                         since : Nat, start : Nat, generation : Nat]]

\* Every line before time t has been handed over.
HandedOverBefore(t) == 1..(t - 1) \subseteq collected

\* No window begins too late, nor will one that begins at lastPoll.
WindowsMeet ==
  ~cut => /\ HandedOverBefore(lastTime)
          /\ \A p \in Polls : HandedOverBefore(poll[p].since)
          /\ \A p \in Polls : poll[p].phase = "updating" =>
               HandedOverBefore(poll[p].start)

\* What a poll has read is lastPoll, or an earlier value of both its parts.
ReadTogether ==
  ~overtaken => \A p \in Following :
    /\ poll[p].generation <= lastGen /\ poll[p].since <= lastTime
    /\ poll[p].generation = lastGen <=> poll[p].since = lastTime

WindowInv ==
  WindowTypes /\ NoHole /\ WindowsMeet /\ ReadTogether /\ GenerationsInOrder

=============================================================================
