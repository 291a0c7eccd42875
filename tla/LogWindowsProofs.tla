--------------------------- MODULE LogWindowsProofs ---------------------------
(***************************************************************************)
(* Proofs about LogWindows, for any poll interval, number of polls and     *)
(* generations kept and length of the log.  First the windows themselves:  *)
(* they leave no hole, and generations order them.  Then what the store    *)
(* and de-duplication make of them: the log has every line once, in order  *)
(* and, after CleanUp, completely, and every flush makes progress.  What   *)
(* de-duplication makes of windows is proved in DedupProofs.               *)
(***************************************************************************)
EXTENDS LogWindows, DedupProofs

USE DEF pollerVars, lastPoll, genVars, history

Phases == {"idle", "looking", "requesting", "streaming", "updating"}
PollState == [phase : Phases, since : Nat, start : Nat, generation : Nat]

(* The lines of a window are those from its first to its last.             *)
LEMMA WindowLines ==
  ASSUME NEW first \in Nat, NEW last \in Nat
  PROVE  ToSet(Window(first, last)) = first..last
<1> DEFINE w == Window(first, last)
<1>1. /\ DOMAIN w = 1..(last - first + 1)
      /\ \A i \in 1..(last - first + 1) : w[i] = first + i - 1
  BY DEF Window
<1> HIDE DEF w
<1>2. ASSUME NEW l \in first..last PROVE \E i \in DOMAIN w : w[i] = l
  <2>1. l - first + 1 \in 1..(last - first + 1) /\ first + (l - first + 1) - 1 = l
    OBVIOUS
  <2> QED BY <2>1, <1>1
<1>3. \A i \in DOMAIN w : w[i] \in first..last
  BY <1>1
<1> QED BY <1>2, <1>3 DEF ToSet, w

(* Taking the windows' lines together: a window that begins where the      *)
(* lines handed over before it are complete keeps them complete.           *)
LEMMA WindowJoins ==
  ASSUME NEW before \in SUBSET Nat, NEW first \in Nat, NEW last \in Nat,
         1..(first - 1) \subseteq before,
         \A l \in before : 1..l \subseteq before
  PROVE  LET after == before \cup first..last IN
         /\ \A l \in after : 1..l \subseteq after
         /\ \A t \in Nat : t <= last => 1..(t - 1) \subseteq after
OBVIOUS

LEMMA WindowInvInit == Init => WindowInv
<1> SUFFICES ASSUME Init PROVE WindowInv
  OBVIOUS
<1> USE DEF Init
<1>1. Idle \in PollState /\ Idle.phase = "idle" /\ Idle.since = 0
  BY DEF Idle, PollState, Phases
<1>2. poll \in [Polls -> PollState] /\ \A p \in Polls : poll[p] = Idle
  BY <1>1
<1>3. WindowTypes
  <2>1. cut \in BOOLEAN /\ overtaken \in BOOLEAN
    BY Zenon
  <2> QED BY <1>2, <2>1 DEF WindowTypes, PollState, Phases
<1>4. Following = {}
  BY <1>1, <1>2 DEF Following
<1>5. NoHole /\ WindowsMeet
  BY <1>1, <1>2 DEF NoHole, WindowsMeet, HandedOverBefore
<1> QED BY <1>3, <1>4, <1>5 DEF WindowInv, ReadTogether, GenerationsInOrder

(* A step of one poll, from one record to another, that neither hands over *)
(* lines nor moves lastPoll.                                               *)
LEMMA PollMoves ==
  ASSUME WindowInv, NEW p \in Polls, NEW to \in PollState,
         poll' = [poll EXCEPT ![p] = to],
         UNCHANGED <<now, lastPoll, collected, cut>>, overtaken' \in BOOLEAN,
         overtaken => overtaken',
         to.since \in {0, lastTime, poll[p].since},
         to.phase # "updating",
         ~overtaken' /\ to.phase = "streaming" =>
           to.generation = lastGen /\ to.since = lastTime
  PROVE  WindowInv'
<1> USE DEF WindowInv
<1>1. /\ poll'[p] = to /\ \A q \in Polls \ {p} : poll'[q] = poll[q]
      /\ poll' \in [Polls -> PollState]
  BY DEF WindowTypes, PollState, Phases
<1>2. WindowTypes'
  BY <1>1 DEF WindowTypes, PollState, Phases
<1>3. NoHole'
  BY DEF NoHole
<1>4. WindowsMeet'
  <2>1. HandedOverBefore(0)
    BY DEF HandedOverBefore
  <2> QED BY <1>1, <2>1 DEF WindowsMeet, HandedOverBefore
<1>5. ReadTogether'
  <2> SUFFICES ASSUME ~overtaken', NEW q \in Following'
               PROVE  /\ poll'[q].generation <= lastGen /\ poll'[q].since <= lastTime
                      /\ poll'[q].generation = lastGen <=> poll'[q].since = lastTime
    BY DEF ReadTogether
  <2>1. CASE q = p
    BY <1>1, <2>1 DEF Following, PollState, Phases, WindowTypes
  <2>2. CASE q # p
    BY <1>1, <2>2 DEF Following, ReadTogether
  <2> QED BY <2>1, <2>2
<1>6. GenerationsInOrder'
  <2> SUFFICES ASSUME ~overtaken', NEW q \in Following', NEW r \in Following'
               PROVE  poll'[q].generation < poll'[r].generation
                        <=> poll'[q].since < poll'[r].since
    BY DEF GenerationsInOrder
  <2>1. \A s \in Following' \ {p} : s \in Following /\ poll'[s] = poll[s]
    BY <1>1 DEF Following
  <2>2. p \in Following' => poll'[p].generation = lastGen /\ poll'[p].since = lastTime
    BY <1>1 DEF Following, PollState, Phases
  <2>3. \A s \in Polls : poll'[s].generation \in Nat /\ poll'[s].since \in Nat
    BY <1>1 DEF PollState
  <2>4. q \in Polls /\ r \in Polls /\ lastGen \in Nat /\ lastTime \in Nat
    BY DEF Following, WindowTypes
  <2>5. CASE q # p /\ r # p
    BY <2>1, <2>5 DEF GenerationsInOrder
  <2>6. CASE q = p \/ r = p
    BY <2>1, <2>2, <2>3, <2>4, <2>6 DEF ReadTogether
  <2> QED BY <2>5, <2>6
<1> QED BY <1>2, <1>3, <1>4, <1>5, <1>6

(* processStream returns and its lines are handed over.                    *)
LEMMA WindowHandedOver ==
  ASSUME WindowInv, NEW p \in Polls, NEW last \in Nat,
         poll[p].phase = "streaming",
         poll' = [poll EXCEPT ![p].phase = "updating"],
         collected' = collected \cup poll[p].since..last,
         UNCHANGED <<now, lastPoll, overtaken>>, cut' \in BOOLEAN,
         ~cut' => ~cut /\ poll[p].start <= last
  PROVE  WindowInv'
<1> USE DEF WindowInv
<1>1. /\ poll[p] \in PollState
      /\ poll'[p] = [poll[p] EXCEPT !.phase = "updating"]
      /\ \A q \in Polls \ {p} : poll'[q] = poll[q]
  BY DEF WindowTypes, PollState, Phases
<1>2. /\ poll'[p].phase = "updating" /\ poll'[p].since = poll[p].since
      /\ poll'[p].start = poll[p].start /\ poll'[p].generation = poll[p].generation
      /\ poll'[p] \in PollState
  BY <1>1 DEF PollState, Phases
<1>3. poll[p].since \in Nat /\ poll[p].start \in Nat
  BY <1>1 DEF PollState
<1>4. WindowTypes'
  BY <1>1, <1>2, <1>3 DEF WindowTypes, PollState, Phases
<1>5. ASSUME ~cut'
      PROVE  /\ \A l \in collected' : 1..l \subseteq collected'
             /\ \A t \in Nat : t <= last => 1..(t - 1) \subseteq collected'
  <2>1. collected \in SUBSET Nat /\ 1..(poll[p].since - 1) \subseteq collected
        /\ \A l \in collected : 1..l \subseteq collected
    BY <1>5 DEF WindowTypes, WindowsMeet, HandedOverBefore, NoHole
  <2> QED BY <1>3, <2>1, WindowJoins
<1>6. NoHole'
  BY <1>5 DEF NoHole
<1>7. WindowsMeet'
  <2> SUFFICES ASSUME ~cut' PROVE WindowsMeet'
    BY DEF WindowsMeet
  <2>1. HandedOverBefore(poll[p].start)'
    BY <1>1, <1>2, <1>3, <1>5 DEF HandedOverBefore
  <2> QED BY <1>1, <1>2, <2>1 DEF WindowsMeet, HandedOverBefore
<1>8. Following' = Following /\ \A q \in Following :
        poll'[q].since = poll[q].since /\ poll'[q].generation = poll[q].generation
  BY <1>1, <1>2 DEF Following
<1>9. ReadTogether' /\ GenerationsInOrder'
  BY <1>8 DEF ReadTogether, GenerationsInOrder
<1> QED BY <1>4, <1>6, <1>7, <1>9

(* lastPoll moves, both parts together, to the start of a window that has  *)
(* been handed over.                                                       *)
LEMMA UpdateKeepsWindows ==
  ASSUME WindowInv, NEW p \in Polls, Update(p)
  PROVE  WindowInv'
<1> USE DEF WindowInv
<1>1. /\ poll[p] \in PollState /\ Idle \in PollState
      /\ Idle.phase = "idle" /\ Idle.since = 0
      /\ poll[p].phase = "updating" /\ poll'[p] = Idle
      /\ \A q \in Polls \ {p} : poll'[q] = poll[q]
      /\ poll' \in [Polls -> PollState]
      /\ UNCHANGED <<now, collected, cut, overtaken>>
  BY DEF Update, WindowTypes, PollState, Phases, Idle
<1>2. poll[p].start \in Nat
  BY <1>1 DEF PollState
<1>3. CASE UNCHANGED lastPoll
  <2>1. poll' = [poll EXCEPT ![p] = Idle] /\ overtaken' \in BOOLEAN
    BY <1>1 DEF Update, WindowTypes
  <2> QED BY <1>1, <1>3, <2>1, PollMoves
<1>4. CASE /\ lastTime' = poll[p].start /\ lastGen' = lastGen + 1
           /\ poll[p].start > lastTime
  <2>1. WindowTypes'
    BY <1>1, <1>2, <1>4 DEF WindowTypes, PollState, Phases
  <2>2. NoHole' /\ WindowsMeet'
    <3>1. HandedOverBefore(0)
      BY DEF HandedOverBefore
    <3> QED BY <1>1, <1>4, <3>1 DEF NoHole, WindowsMeet, HandedOverBefore
  <2>3. \A q \in Following' : q \in Following /\ poll'[q] = poll[q]
    BY <1>1 DEF Following
  <2>4. \A q \in Following : poll[q].generation \in Nat /\ poll[q].since \in Nat
    BY DEF Following, WindowTypes
  <2>5. lastGen \in Nat /\ lastTime \in Nat
    BY DEF WindowTypes
  <2>6. ReadTogether'
    BY <1>1, <1>2, <1>4, <2>3, <2>4, <2>5 DEF ReadTogether
  <2>7. GenerationsInOrder'
    BY <1>1, <2>3 DEF GenerationsInOrder
  <2> QED BY <2>1, <2>2, <2>6, <2>7
<1> QED BY <1>3, <1>4 DEF Update

LEMMA WindowInvStep == WindowInv /\ [Next]_vars => WindowInv'
<1> SUFFICES ASSUME WindowInv, [Next]_vars PROVE WindowInv'
  OBVIOUS
<1>1. ASSUME UNCHANGED <<now, poll, lastPoll, collected, cut, overtaken>>
      PROVE  WindowInv'
  BY <1>1 DEF WindowInv, WindowTypes, NoHole, WindowsMeet, ReadTogether,
              GenerationsInOrder, HandedOverBefore, Following
<1>2. CASE Tick
  BY <1>2 DEF Tick, WindowInv, WindowTypes, NoHole, WindowsMeet, ReadTogether,
              GenerationsInOrder, HandedOverBefore, Following
<1>3. CASE PollerWaits \/ PollerResumes \/ Flush \/ FlushAll
  BY <1>1, <1>3 DEF PollerWaits, PollerResumes, Flush, FlushAll
<1>4. ASSUME NEW p \in Polls, BeginPoll(p) PROVE WindowInv'
  <2> DEFINE to == [phase |-> "looking", since |-> 0, start |-> 0, generation |-> 0]
  <2>1. to \in PollState /\ to.since = 0 /\ to.phase = "looking"
        /\ overtaken \in BOOLEAN
    BY DEF PollState, Phases, WindowInv, WindowTypes
  <2>2. poll' = [poll EXCEPT ![p] = to]
        /\ UNCHANGED <<now, lastPoll, collected, cut, overtaken>>
    BY <1>4 DEF BeginPoll
  <2> HIDE DEF to
  <2> QED BY <2>1, <2>2, PollMoves
<1>4a. ASSUME NEW p \in Polls, SendRequest(p) PROVE WindowInv'
  <2> DEFINE to == [phase |-> "requesting", since |-> lastTime, start |-> 0,
                    generation |-> 0]
  <2>1. to \in PollState /\ to.since = lastTime /\ to.phase = "requesting"
        /\ overtaken \in BOOLEAN
    BY DEF PollState, Phases, WindowInv, WindowTypes
  <2>2. poll' = [poll EXCEPT ![p] = to]
        /\ UNCHANGED <<now, lastPoll, collected, cut, overtaken>>
    BY <1>4a DEF SendRequest
  <2> HIDE DEF to
  <2> QED BY <2>1, <2>2, PollMoves
<1>5. ASSUME NEW p \in Polls, OpenStream(p) PROVE WindowInv'
  <2> DEFINE to == [poll[p] EXCEPT !.phase = "streaming", !.start = now,
                                   !.generation = lastGen]
  <2>1. poll[p] \in PollState /\ now \in Nat /\ lastGen \in Nat /\ overtaken \in BOOLEAN
    BY DEF WindowInv, WindowTypes, PollState, Phases
  <2>2. to \in PollState /\ to.since = poll[p].since /\ to.phase = "streaming"
        /\ to.generation = lastGen
    BY <2>1 DEF PollState, Phases
  <2>3. poll' = [poll EXCEPT ![p] = to]
        /\ overtaken' = (overtaken \/ lastTime # poll[p].since)
        /\ UNCHANGED <<now, lastPoll, collected, cut>>
    BY <1>5 DEF OpenStream
  <2>4. overtaken' \in BOOLEAN
    BY <2>1, <2>3, Zenon
  <2> HIDE DEF to
  <2> QED BY <2>2, <2>3, <2>4, PollMoves
<1>6. ASSUME NEW p \in Polls, PollFails(p) PROVE WindowInv'
  <2>1. Idle \in PollState /\ Idle.since = 0 /\ Idle.phase = "idle"
        /\ overtaken \in BOOLEAN
    BY DEF Idle, PollState, Phases, WindowInv, WindowTypes
  <2> QED BY <1>6, <2>1, PollMoves DEF PollFails
<1>7. ASSUME NEW p \in Polls PROVE poll[p].since \in Nat /\ poll[p].start \in Nat
  BY <1>7 DEF WindowInv, WindowTypes
<1>8. ASSUME NEW p \in Polls, EndStream(p) PROVE WindowInv'
  <2> DEFINE end == poll[p].start + PollInterval + 1
  <2>1. end \in Nat /\ poll[p].start <= end
    BY <1>7, IntervalAssumption
  <2>2. collected' = collected \cup poll[p].since..end
    BY <1>7, <1>8, <2>1, WindowLines DEF EndStream, AddSlice, MakeSliceFromLines
  <2>3. /\ poll[p].phase = "streaming"
        /\ poll' = [poll EXCEPT ![p].phase = "updating"]
        /\ UNCHANGED <<now, lastPoll, overtaken, cut>> /\ cut \in BOOLEAN
    BY <1>8 DEF EndStream, WindowInv, WindowTypes
  <2> HIDE DEF end
  <2> QED BY <2>1, <2>2, <2>3, WindowHandedOver
<1>9. ASSUME NEW p \in Polls, CutStream(p) PROVE WindowInv'
  <2>1. PICK last \in poll[p].since..now :
          AddSlice(MakeSliceFromLines(Window(poll[p].since, last), poll[p].generation))
    BY <1>9 DEF CutStream
  <2>2. last \in Nat
    BY <1>7 DEF WindowInv, WindowTypes
  <2>3. collected' = collected \cup poll[p].since..last
    BY <1>7, <2>1, <2>2, WindowLines DEF AddSlice, MakeSliceFromLines
  <2>4. /\ poll[p].phase = "streaming"
        /\ poll' = [poll EXCEPT ![p].phase = "updating"]
        /\ UNCHANGED <<now, lastPoll, overtaken>> /\ cut' = TRUE
    BY <1>9 DEF CutStream
  <2> QED BY <2>2, <2>3, <2>4, WindowHandedOver
<1>10. ASSUME NEW p \in Polls, Update(p) PROVE WindowInv'
  BY <1>10, UpdateKeepsWindows
<1>11. CASE UNCHANGED vars
  BY <1>1, <1>11 DEF vars
<1> QED BY <1>2, <1>3, <1>4, <1>4a, <1>5, <1>6, <1>8, <1>9, <1>10, <1>11 DEF Next

-----------------------------------------------------------------------------
(* The theorems. *)

(* The windows' types, where they begin, and what a poll has read of       *)
(* lastPoll, in every reachable state.                                     *)
THEOREM WindowInvariant == Spec => []WindowInv
BY WindowInvInit, WindowInvStep, PTL DEF Spec

(* poll and SetLastPoll: as lastPoll only ever moves to where a window has *)
(* been followed to its end, no line falls between two windows, whatever   *)
(* polls fail in between and in whatever order they come back.             *)
THEOREM WindowsLeaveNoHole == Spec => []NoHole
BY WindowInvariant, PTL DEF WindowInv

(* GenerationalLockedTime: a time that is not newer changes neither part   *)
(* of lastPoll, so that generations are in the order of their windows.     *)
THEOREM GenerationsOrdered == Spec => []GenerationsInOrder
BY WindowInvariant, PTL DEF WindowInv

-----------------------------------------------------------------------------
(* What a flush comes to. *)

\* store[g] is the slices of generation g.
StoredAs(g, U) ==
  /\ store[g] \in Seq(SlicesOf(U)) /\ store[g] # <<>>
  /\ \A i \in 1..Len(store[g]) : store[g][i].generation = g

OneOf(g) == dedupGeneration(store[g])

\* r is what de-duplicating the slices makes of generations gens, each of
\* which gives one of the slices.
FlushedAs(r, gens, slices, U) ==
  /\ slices \in Seq(SlicesOf(U)) /\ slices # <<>>
  /\ \A k \in 1..Len(slices) : \E g \in gens : slices[k] = OneOf(g).slice
  /\ \A g \in gens : \E k \in 1..Len(slices) : slices[k] = OneOf(g).slice
  /\ r.result = DedupLineSlices(slices).result /\ r.last = DedupLineSlices(slices).last
  /\ (\A g \in gens : OneOf(g).panic = FALSE) /\ DedupLineSlices(slices).panic = FALSE
       => r.panic = FALSE
  /\ r.panic \in BOOLEAN

(* flush: the generations in their order, then their slices together.      *)
LEMMA FlushIs ==
  ASSUME NEW gens \in SUBSET Nat, IsFiniteSet(gens), gens # {}, NEW U \in SUBSET Nat,
         \A g \in gens : StoredAs(g, U)
  PROVE  \E slices : FlushedAs(FlushGenerations(gens), gens, slices, U)
<1> DEFINE order == Arranged(gens, <)
           n == Cardinality(gens)
           slices == [k \in 1..n |-> OneOf(order[k]).slice]
           d == DedupLineSlices(slices)
           panics == \E k \in 1..n : OneOf(order[k]).panic
           r == FlushGenerations(gens)
<1>1. /\ n \in Nat /\ order \in [1..n -> gens]
      /\ \A g \in gens : \E k \in 1..n : order[k] = g
  BY NumbersInOrder
<1> HIDE DEF n, order
<1>2. n # 0
  <2>1. PICK g \in gens : TRUE
    OBVIOUS
  <2>2. PICK k \in 1..n : order[k] = g
    BY <1>1
  <2> QED BY <1>1, <2>2
<1>3. ASSUME NEW g \in gens
      PROVE  OneOf(g).slice \in SlicesOf(U) /\ OneOf(g).slice.generation = g
             /\ OneOf(g).panic \in BOOLEAN
  <2> DEFINE s == store[g]
  <2>1. s \in Seq(SlicesOf(U)) /\ s # <<>> /\ \A i \in 1..Len(s) : s[i].generation = g
    BY <1>3 DEF StoredAs
  <2>2. OneOf(g) = dedupGeneration(s)
    BY DEF OneOf
  <2> HIDE DEF s
  <2>3. /\ dedupGeneration(s).slice \in SlicesOf(U)
        /\ dedupGeneration(s).slice.generation = g
        /\ dedupGeneration(s).panic \in BOOLEAN
    BY ONLY <2>1, GenerationSlice
  <2> QED BY <2>2, <2>3, Zenon
<1>4. r = [d EXCEPT !.panic = @ \/ panics]
  <2> DEFINE each == [k \in DOMAIN order |-> OneOf(order[k])]
  <2>1. DOMAIN each = 1..n /\ \A k \in 1..n : each[k] = OneOf(order[k])
    BY <1>1
  <2>2. r = [DedupLineSlices([k \in DOMAIN each |-> each[k].slice]) EXCEPT
               !.panic = @ \/ \E k \in DOMAIN each : each[k].panic]
    BY DEF FlushGenerations, OneOf, order
  <2>3. [k \in DOMAIN each |-> each[k].slice] = slices
    <3> HIDE DEF each
    <3> QED BY <2>1
  <2>4. (\E k \in DOMAIN each : each[k].panic) = panics
    <3> HIDE DEF each
    <3> QED BY <2>1, Zenon
  <2> HIDE DEF each, slices, r
  <2> QED BY <2>2, <2>3, <2>4
<1>5. slices \in Seq(SlicesOf(U)) /\ Len(slices) = n /\ slices # <<>>
      /\ \A k \in 1..n : slices[k] = OneOf(order[k]).slice
  <2>1. \A k \in 1..n : slices[k] \in SlicesOf(U)
    BY <1>1, <1>3
  <2>2. slices \in [1..n -> SlicesOf(U)]
    <3>1. slices = [k \in 1..n |-> slices[k]]
      OBVIOUS
    <3> HIDE DEF slices
    <3> QED BY <2>1, <3>1
  <2>3. \A k \in 1..n : slices[k] = OneOf(order[k]).slice
    OBVIOUS
  <2> HIDE DEF slices
  <2>4. slices \in Seq(SlicesOf(U)) /\ Len(slices) = n
    BY <1>1, <2>2
  <2> QED BY <1>2, <2>3, <2>4
<1> HIDE DEF slices, r
<1>6. Released(d, slices, U)
  BY <1>5, SlicesReleased
<1> HIDE DEF d
<1>7. d = [result |-> d.result, last |-> d.last, panic |-> d.panic] /\ d.panic \in BOOLEAN
  BY <1>6 DEF Released, IsReturn
<1>8. panics \in BOOLEAN
  BY Zenon
<1>9. (\A g \in gens : OneOf(g).panic = FALSE) => panics = FALSE
  BY <1>1, Zenon
<1> HIDE DEF panics
<1>10. r.result = d.result /\ r.last = d.last /\ r.panic = (d.panic \/ panics)
  BY <1>4, <1>7
<1>11. r.panic \in BOOLEAN
  BY <1>10, Zenon
<1>12. (\A g \in gens : OneOf(g).panic = FALSE) /\ d.panic = FALSE => r.panic = FALSE
  BY <1>9, <1>10, Zenon
<1>13. \A k \in 1..n : \E g \in gens : slices[k] = OneOf(g).slice
  BY <1>1, <1>5
<1>14. \A g \in gens : \E k \in 1..n : slices[k] = OneOf(g).slice
  BY <1>1, <1>5
<1>15. FlushedAs(r, gens, slices, U)
  BY <1>5, <1>10, <1>11, <1>12, <1>13, <1>14 DEF FlushedAs, d
<1> QED BY <1>15 DEF r

-----------------------------------------------------------------------------
(* What the store has, and how the two operations on it change that.       *)

StoreTypes ==
  /\ DOMAIN store \subseteq Nat /\ collected \subseteq Nat
  /\ \A g \in DOMAIN store : StoredAs(g, collected)

Stored == UNION {ToSet(store[g]) : g \in DOMAIN store}

LEMMA StoredSlices ==
  ASSUME StoreTypes
  PROVE  /\ \A x \in Stored : /\ x \in SlicesOf(collected) /\ x \in SlicesOf(Nat)
                              /\ x.generation \in DOMAIN store
                              /\ ToSet(x.lines) \subseteq collected
                              /\ \E i \in 1..Len(store[x.generation]) :
                                   store[x.generation][i] = x
         /\ \A g \in DOMAIN store : /\ 1 \in 1..Len(store[g])
                                    /\ \A i \in 1..Len(store[g]) :
                                         store[g][i] \in Stored /\ store[g][i].generation = g
<1>1. ASSUME NEW g \in DOMAIN store
      PROVE  /\ Len(store[g]) \in Nat \ {0} /\ DOMAIN store[g] = 1..Len(store[g])
             /\ \A i \in 1..Len(store[g]) : /\ store[g][i] \in SlicesOf(collected)
                                            /\ store[g][i].generation = g
  <2>1. StoredAs(g, collected)
    BY <1>1 DEF StoreTypes
  <2> DEFINE s == store[g]
  <2>2. s \in Seq(SlicesOf(collected)) /\ s # <<>>
        /\ \A i \in 1..Len(s) : s[i].generation = g
    BY <2>1 DEF StoredAs
  <2> HIDE DEF s
  <2>3. Len(s) \in Nat /\ Len(s) # 0 /\ DOMAIN s = 1..Len(s)
        /\ \A i \in 1..Len(s) : s[i] \in SlicesOf(collected)
    BY <2>2
  <2> QED BY <2>2, <2>3 DEF s
<1>2. ASSUME NEW g \in DOMAIN store, NEW i \in 1..Len(store[g])
      PROVE  store[g][i] \in Stored
  <2>1. store[g][i] \in ToSet(store[g])
    BY <1>1, <1>2 DEF ToSet
  <2> QED BY <2>1 DEF Stored
<1>3. ASSUME NEW x \in Stored
      PROVE  /\ x.generation \in DOMAIN store /\ x \in SlicesOf(collected)
             /\ \E i \in 1..Len(store[x.generation]) : store[x.generation][i] = x
  <2>1. PICK g \in DOMAIN store : x \in ToSet(store[g])
    BY <1>3 DEF Stored
  <2>2. PICK i \in 1..Len(store[g]) : store[g][i] = x
    BY <1>1, <2>1 DEF ToSet
  <2> QED BY <1>1, <2>1, <2>2
<1>4. ASSUME NEW x \in SlicesOf(collected)
      PROVE  x \in SlicesOf(Nat) /\ ToSet(x.lines) \subseteq collected
  <2>1. collected \in SUBSET Nat
    BY DEF StoreTypes
  <2>2. x.lines \in Seq(collected) /\ x.generation \in Nat
        /\ x = [lines |-> x.lines, generation |-> x.generation]
    BY DEF SlicesOf
  <2>3. x.lines \in Seq(Nat) /\ ToSet(x.lines) \subseteq collected
    BY <2>1, <2>2, InSubset
  <2> QED BY <2>2, <2>3 DEF SlicesOf
<1>5. \A g \in DOMAIN store : 1 \in 1..Len(store[g])
  BY <1>1
<1> QED BY <1>1, <1>2, <1>3, <1>4, <1>5

(* A larger set of lines has the same slices.                              *)
LEMMA SlicesIn ==
  ASSUME NEW U \in SUBSET Nat, NEW V \in SUBSET Nat, U \subseteq V, NEW s \in Seq(SlicesOf(U))
  PROVE  s \in Seq(SlicesOf(V))
<1>1. \A x \in SlicesOf(U) : x \in SlicesOf(V)
  <2> SUFFICES ASSUME NEW x \in SlicesOf(U) PROVE x \in SlicesOf(V)
    OBVIOUS
  <2>1. x.lines \in Seq(U) /\ x.generation \in Nat
        /\ x = [lines |-> x.lines, generation |-> x.generation]
    BY DEF SlicesOf
  <2>2. x.lines \in Seq(V)
    BY <2>1, SeqMonotonic
  <2> QED BY <2>1, <2>2 DEF SlicesOf
<1> QED BY <1>1, SeqMonotonic

LEMMA SliceAdded ==
  ASSUME StoreTypes, NEW slice \in SlicesOf(Nat), AddSlice(slice)
  PROVE  /\ DOMAIN store' = DOMAIN store \cup {slice.generation} /\ StoreTypes'
         /\ Stored' = Stored \cup {slice}
<1> DEFINE gen == slice.generation
           others == IF gen \in DOMAIN store THEN store[gen] ELSE <<>>
           lines == ToSet(slice.lines)
<1>1. /\ gen \in Nat /\ slice.lines \in Seq(Nat) /\ lines \subseteq Nat
      /\ slice = [lines |-> slice.lines, generation |-> gen]
  BY LinesNat DEF SlicesOf
<1>2. /\ store' = [g \in DOMAIN store \cup {gen} |->
                     IF g = gen THEN Append(others, slice) ELSE store[g]]
      /\ collected' = collected \cup lines
  BY DEF AddSlice
<1>3. collected \in SUBSET Nat /\ collected' \in SUBSET Nat
      /\ collected \subseteq collected'
  BY <1>1, <1>2 DEF StoreTypes
<1>4. slice \in SlicesOf(collected')
  <2>1. slice.lines \in Seq(collected')
    BY <1>1, <1>2, <1>3, InSubset
  <2> QED BY <1>1, <2>1 DEF SlicesOf
<1>5. ASSUME NEW g \in DOMAIN store PROVE store[g] \in Seq(SlicesOf(collected'))
  BY <1>3, <1>5, SlicesIn DEF StoreTypes, StoredAs
<1>6. /\ others \in Seq(SlicesOf(collected'))
      /\ \A i \in 1..Len(others) : others[i].generation = gen
  <2>1. CASE gen \in DOMAIN store
    BY <1>5, <2>1 DEF StoreTypes, StoredAs
  <2>2. CASE gen \notin DOMAIN store
    <3>1. others = <<>>
      BY <2>2
    <3> HIDE DEF others
    <3> QED BY <3>1
  <2> QED BY <2>1, <2>2
<1>7. ToSet(others) = UNION {ToSet(store[g]) : g \in DOMAIN store \cap {gen}}
  <2>1. CASE gen \in DOMAIN store
    <3>1. others = store[gen]
      BY <2>1
    <3> HIDE DEF others
    <3> QED BY <2>1, <3>1
  <2>2. CASE gen \notin DOMAIN store
    <3>1. others = <<>>
      BY <2>2
    <3> HIDE DEF others
    <3> QED BY <2>2, <3>1 DEF ToSet
  <2> QED BY <2>1, <2>2
<1> HIDE DEF others
<1> DEFINE added == Append(others, slice)
<1>8. /\ added \in Seq(SlicesOf(collected')) /\ added # <<>>
      /\ \A i \in 1..Len(added) : added[i].generation = gen
      /\ ToSet(added) = ToSet(others) \cup {slice}
  <2>1. /\ Len(others) \in Nat /\ Len(added) = Len(others) + 1
        /\ added \in Seq(SlicesOf(collected'))
        /\ \A i \in 1..Len(others) : added[i] = others[i]
        /\ added[Len(others) + 1] = slice
        /\ DOMAIN added = 1..Len(added) /\ DOMAIN others = 1..Len(others)
    BY <1>4, <1>6
  <2> HIDE DEF added
  <2>2. \A i \in 1..Len(added) : i \in 1..Len(others) \/ i = Len(others) + 1
    BY <2>1
  <2>3. \A i \in 1..Len(others) : i \in 1..Len(added)
    BY <2>1
  <2>4. Len(others) + 1 \in 1..Len(added)
    BY <2>1
  <2> QED BY <1>6, <2>1, <2>2, <2>3, <2>4 DEF ToSet
<1> HIDE DEF added
<1>9. /\ DOMAIN store' = DOMAIN store \cup {gen} /\ store'[gen] = added
      /\ \A g \in DOMAIN store : g # gen => store'[g] = store[g]
  BY <1>2 DEF added
<1>10. ASSUME NEW g \in DOMAIN store' PROVE StoredAs(g, collected)'
  <2>1. CASE g = gen
    BY <1>8, <1>9, <2>1 DEF StoredAs
  <2>2. CASE g # gen
    BY <1>5, <1>9, <1>10, <2>2 DEF StoreTypes, StoredAs
  <2> QED BY <2>1, <2>2
<1>11. StoreTypes'
  BY <1>1, <1>3, <1>9, <1>10 DEF StoreTypes
<1>12. Stored' = Stored \cup {slice}
  <2>1. Stored' = ToSet(added) \cup (UNION {ToSet(store[g]) : g \in DOMAIN store \ {gen}})
    BY <1>9 DEF Stored
  <2>2. Stored = (UNION {ToSet(store[g]) : g \in DOMAIN store \ {gen}})
                 \cup (UNION {ToSet(store[g]) : g \in DOMAIN store \cap {gen}})
    BY DEF Stored
  <2> QED BY <1>7, <1>8, <2>1, <2>2
<1> QED BY <1>9, <1>11, <1>12

\* What a flush leaves in the store: a slice, and the later generations.
KeepsFrom(x) ==
  store' = [g \in {g \in DOMAIN store : g >= x.generation} |->
              IF g = x.generation THEN <<x>> ELSE store[g]]

LEMMA StoreKept ==
  ASSUME StoreTypes, NEW x \in SlicesOf(collected), x.generation \in DOMAIN store,
         KeepsFrom(x), collected' = collected
  PROVE  /\ DOMAIN store' = {g \in DOMAIN store : g >= x.generation} /\ StoreTypes'
         /\ Stored' = {y \in Stored : y.generation > x.generation} \cup {x}
<1> DEFINE gen == x.generation
<1>1. gen \in Nat /\ gen \in DOMAIN store /\ DOMAIN store \subseteq Nat
  BY DEF StoreTypes
<1>2. /\ DOMAIN store' = {g \in DOMAIN store : g >= gen}
      /\ \A g \in DOMAIN store' : store'[g] = IF g = gen THEN <<x>> ELSE store[g]
  BY DEF KeepsFrom
<1>3. /\ <<x>> \in Seq(SlicesOf(collected)) /\ <<x>> # <<>> /\ ToSet(<<x>>) = {x}
      /\ \A i \in 1..Len(<<x>>) : <<x>>[i].generation = gen
  BY DEF ToSet
<1> HIDE DEF gen
<1>4. ASSUME NEW g \in DOMAIN store' PROVE StoredAs(g, collected)'
  <2>1. CASE g = gen
    <3>1. store'[g] = <<x>>
      BY <1>2, <1>4, <2>1
    <3> QED BY <1>3, <2>1, <3>1 DEF StoredAs
  <2>2. CASE g # gen
    BY <1>2, <1>4, <2>2 DEF StoreTypes, StoredAs
  <2> QED BY <2>1, <2>2
<1>5. StoreTypes'
  BY <1>2, <1>4 DEF StoreTypes
<1>6. gen \in DOMAIN store'
  BY <1>1, <1>2
<1>7. ASSUME NEW y \in Stored' PROVE y = x \/ (y \in Stored /\ y.generation > gen)
  <2>1. PICK g \in DOMAIN store' : y \in ToSet(store'[g])
    BY <1>7 DEF Stored
  <2>2. CASE g = gen
    BY <1>2, <1>3, <2>1, <2>2
  <2>3. CASE g # gen
    <3>1. g \in DOMAIN store /\ y \in ToSet(store[g]) /\ g > gen
      BY <1>1, <1>2, <2>1, <2>3
    <3>2. PICK i \in DOMAIN store[g] : y = store[g][i]
      BY <3>1 DEF ToSet
    <3>3. store[g] \in Seq(SlicesOf(collected))
          /\ \A j \in 1..Len(store[g]) : store[g][j].generation = g
      BY <3>1 DEF StoreTypes, StoredAs
    <3>4. y.generation = g
      BY <3>2, <3>3
    <3> QED BY <3>1, <3>4 DEF Stored
  <2> QED BY <2>2, <2>3
<1>8. x \in Stored'
  <2>1. x \in ToSet(store'[gen])
    BY <1>2, <1>3, <1>6
  <2> QED BY <1>6, <2>1 DEF Stored
<1>9. ASSUME NEW y \in Stored, y.generation > gen PROVE y \in Stored'
  <2>1. y.generation \in DOMAIN store
        /\ \E i \in 1..Len(store[y.generation]) : store[y.generation][i] = y
    BY StoredSlices
  <2>2. y.generation \in DOMAIN store' /\ store'[y.generation] = store[y.generation]
    BY <1>1, <1>2, <1>9, <2>1
  <2>3. y \in ToSet(store[y.generation])
    <3>1. store[y.generation] \in Seq(SlicesOf(collected))
      BY <2>1 DEF StoreTypes, StoredAs
    <3>2. DOMAIN store[y.generation] = 1..Len(store[y.generation])
      BY <3>1
    <3> QED BY <2>1, <3>2 DEF ToSet
  <2>4. y \in ToSet(store'[y.generation])
    BY <2>2, <2>3
  <2> QED BY <2>2, <2>4 DEF Stored
<1> QED BY <1>2, <1>5, <1>7, <1>8, <1>9 DEF gen

-----------------------------------------------------------------------------
(* Types. *)

FlushTypes(r, gens) ==
  /\ r.result \in Seq(collected) /\ r.last \in SlicesOf(collected)
  /\ r.last.generation \in gens /\ r.panic \in BOOLEAN

(* A flush releases lines that were handed over, and keeps a slice of one  *)
(* of the generations that it flushes.                                     *)
LEMMA FlushesCollected ==
  ASSUME StoreTypes, NEW gens \in SUBSET (DOMAIN store), IsFiniteSet(gens), gens # {},
         NEW r, r = FlushGenerations(gens)
  PROVE  FlushTypes(r, gens)
<1>1. gens \in SUBSET Nat /\ collected \in SUBSET Nat /\ \A g \in gens : StoredAs(g, collected)
  BY DEF StoreTypes
<1>2. PICK slices : FlushedAs(r, gens, slices, collected)
  BY <1>1, FlushIs
<1>3. /\ slices \in Seq(SlicesOf(collected)) /\ slices # <<>>
      /\ \A k \in 1..Len(slices) : \E g \in gens : slices[k] = OneOf(g).slice
      /\ r.result = DedupLineSlices(slices).result /\ r.last = DedupLineSlices(slices).last
      /\ r.panic \in BOOLEAN
  BY <1>2 DEF FlushedAs
<1>4. Released(DedupLineSlices(slices), slices, collected)
  BY <1>1, <1>3, SlicesReleased
<1>5. PICK k \in 1..Len(slices) : r.last.generation = slices[k].generation
  BY <1>3, <1>4 DEF Released
<1>6. PICK g \in gens : slices[k] = OneOf(g).slice
  BY <1>3
<1>7. OneOf(g).slice.generation = g
  <2> DEFINE s == store[g]
  <2>1. s \in Seq(SlicesOf(collected)) /\ s # <<>>
        /\ \A i \in 1..Len(s) : s[i].generation = g
    BY <1>1, <1>6 DEF StoredAs
  <2>2. OneOf(g) = dedupGeneration(s)
    BY DEF OneOf
  <2> HIDE DEF s
  <2>3. dedupGeneration(s).slice.generation = g
    <3>1. collected \in SUBSET Nat
      BY <1>1
    <3>2. ASSUME NEW U \in SUBSET Nat, s \in Seq(SlicesOf(U))
          PROVE  /\ dedupGeneration(s).slice \in SlicesOf(U)
                 /\ dedupGeneration(s).slice.generation = g
                 /\ dedupGeneration(s).panic \in BOOLEAN
      BY ONLY <2>1, <3>2, GenerationSlice
    <3> QED BY <2>1, <3>1, <3>2, Zenon
  <2> QED BY <2>2, <2>3
<1> QED BY <1>3, <1>4, <1>5, <1>6, <1>7 DEF FlushTypes, Released

PollTimes(p) ==
  /\ poll[p].phase \notin {"idle", "looking"} => poll[p].since \in 1..lastTime
  /\ poll[p].phase \in {"streaming", "updating"} =>
       poll[p].start \in poll[p].since..now /\ poll[p].generation \in 0..lastGen

\* No poll has handed over anything yet.
NothingYet ==
  /\ store = <<>> /\ lastGen = 0 /\ oldest = 0 /\ written = <<>> /\ collected = {}
  /\ \A p \in Polls : poll[p].phase # "updating"

LogTypes ==
  /\ now \in 1..LastTick /\ lastSpawn \in -1..now
  /\ waiting \in BOOLEAN /\ flushed \in BOOLEAN /\ panicked \in BOOLEAN
  /\ late \in BOOLEAN /\ overtaken \in BOOLEAN /\ cut \in BOOLEAN
  /\ poll \in [Polls -> PollState] /\ \A p \in Polls : PollTimes(p)
  /\ flushed => \A p \in Polls : poll[p] = Idle
  /\ lastTime \in 1..now /\ lastGen \in Nat
  /\ latest \in Nat /\ oldest \in 0..latest /\ DOMAIN store \subseteq 0..latest
  /\ collected \subseteq 1..LastTick /\ written \in Seq(collected)
  /\ StoreTypes
  /\ oldest \in DOMAIN store \/ NothingYet

LEMMA LogTypesInit == Init => LogTypes
<1> SUFFICES ASSUME Init PROVE LogTypes
  OBVIOUS
<1> USE DEF Init
<1>1. Idle \in PollState /\ Idle.phase = "idle"
  BY DEF Idle, PollState, Phases
<1>2. poll \in [Polls -> PollState] /\ \A p \in Polls : poll[p] = Idle
  BY <1>1
<1>3. /\ waiting \in BOOLEAN /\ flushed \in BOOLEAN /\ panicked \in BOOLEAN
      /\ late \in BOOLEAN /\ overtaken \in BOOLEAN /\ cut \in BOOLEAN /\ flushed = FALSE
  BY Zenon
<1>4. DOMAIN store = {}
  OBVIOUS
<1>5. StoreTypes /\ NothingYet
  BY <1>1, <1>2, <1>4 DEF StoreTypes, NothingYet
<1>6. written \in Seq(collected)
  OBVIOUS
<1>7. \A p \in Polls : PollTimes(p)
  BY <1>1, <1>2 DEF PollTimes
<1> QED BY <1>2, <1>3, <1>4, <1>5, <1>6, <1>7, IntervalAssumption DEF LogTypes

\* The steps that change neither the store nor the log.
Quiet ==
  UNCHANGED <<store, latest, oldest, written, flushed, panicked, collected, late, lastGen,
              lastTime, cut, now>>

LEMMA QuietTypes ==
  ASSUME LogTypes, Quiet, lastSpawn' \in -1..now, waiting' \in BOOLEAN,
         overtaken' \in BOOLEAN, poll' \in [Polls -> PollState],
         \A p \in Polls : PollTimes(p)',
         \A p \in Polls : poll'[p] # poll[p] => poll'[p].phase # "updating" /\ ~flushed
  PROVE  LogTypes'
<1> USE DEF Quiet
<1>1. StoreTypes' /\ StoreTypes
  BY DEF LogTypes, StoreTypes, StoredAs
<1>2. NothingYet => NothingYet'
  BY DEF NothingYet
<1>3. flushed' => \A p \in Polls : poll'[p] = Idle
  BY DEF LogTypes
<1> QED BY <1>1, <1>2, <1>3 DEF LogTypes

\* Poll p hands over its lines up to last.
HandsOver(p, last) ==
  /\ poll[p].phase = "streaming" /\ last \in poll[p].since..now
  /\ AddSlice(MakeSliceFromLines(Window(poll[p].since, last), poll[p].generation))
  /\ poll' = [poll EXCEPT ![p].phase = "updating"]
  /\ UNCHANGED <<pollerVars, lastPoll, overtaken>> /\ cut' \in BOOLEAN /\ (cut => cut')

(* A window has at least a line, and the lines of a window follow one      *)
(* another.                                                                *)
LEMMA WindowConsecutive ==
  ASSUME NEW first \in Nat, NEW last \in Nat, first <= last
  PROVE  /\ Consecutive(Window(first, last)) /\ Window(first, last)[1] = first
         /\ Window(first, last)[Len(Window(first, last))] = last
         /\ Window(first, last) \in Seq(first..last)
<1> DEFINE n == last - first + 1
           w == Window(first, last)
<1>1. n \in Nat \ {0} /\ first + n - 1 = last
  OBVIOUS
<1>2. w = [i \in 1..n |-> first + i - 1]
  BY DEF Window
<1> HIDE DEF n, w
<1>3. /\ w \in Seq(Nat) /\ Len(w) = n /\ \A j \in 1..n : w[j] = first + j - 1
  <2>1. \A j \in 1..n : first + j - 1 \in Nat
    BY <1>1
  <2> QED BY <1>1, <1>2, <2>1
<1>4. 1 \in 1..n /\ n \in 1..n
  BY <1>1
<1>5. w[1] = first /\ w[n] = last /\ w # <<>>
  BY <1>1, <1>3, <1>4
<1>6. \A j \in 1..n : w[j] = w[1] + (j - 1) /\ w[j] \in first..last
  BY <1>1, <1>3, <1>5
<1>7. w \in Seq(first..last)
  BY <1>1, <1>3, <1>6
<1> QED BY <1>3, <1>5, <1>6, <1>7 DEF Consecutive, w

LEMMA HandedOver ==
  ASSUME LogTypes, NEW p \in Polls, NEW last, HandsOver(p, last), NEW slice,
         slice = [lines |-> Window(poll[p].since, last), generation |-> poll[p].generation]
  PROVE  /\ slice \in SlicesOf(Nat) /\ Consecutive(slice.lines)
         /\ slice.generation = poll[p].generation
         /\ First(slice) = poll[p].since /\ Final(slice) = last /\ AddSlice(slice)
         /\ ToSet(slice.lines) \subseteq 1..LastTick
         /\ poll[p] \in PollState
         /\ poll'[p] = [poll[p] EXCEPT !.phase = "updating"]
         /\ \A q \in Polls \ {p} : poll'[q] = poll[q]
<1>1. poll[p] \in PollState /\ poll[p].since \in Nat \ {0} /\ poll[p].generation \in Nat
      /\ now \in 1..LastTick /\ LastTick \in Nat
  BY IntervalAssumption DEF LogTypes, PollTimes, HandsOver, PollState, Phases
<1>2. last \in Nat /\ poll[p].since <= last /\ last <= LastTick
  BY <1>1 DEF HandsOver
<1>3. /\ Consecutive(Window(poll[p].since, last)) /\ Window(poll[p].since, last)[1] = poll[p].since
      /\ Window(poll[p].since, last)[Len(Window(poll[p].since, last))] = last
      /\ Window(poll[p].since, last) \in Seq(Nat)
  <2> DEFINE since == poll[p].since
             w == Window(since, last)
  <2>1. since \in Nat /\ last \in Nat /\ since <= last
    BY <1>1, <1>2
  <2> HIDE DEF since
  <2>2. Consecutive(w) /\ w[1] = since /\ w[Len(w)] = last
    BY <2>1, WindowConsecutive
  <2> HIDE DEF w
  <2>3. w \in Seq(Nat)
    BY <2>2 DEF Consecutive
  <2> QED BY <2>2, <2>3 DEF w, since
<1>4. ToSet(Window(poll[p].since, last)) = poll[p].since..last
  BY <1>1, <1>2, WindowLines
<1>5. AddSlice(slice)
  BY DEF HandsOver, MakeSliceFromLines
<1>6. /\ poll'[p] = [poll[p] EXCEPT !.phase = "updating"]
      /\ \A q \in Polls \ {p} : poll'[q] = poll[q]
  BY DEF HandsOver, LogTypes
<1>7. slice \in SlicesOf(Nat) /\ slice.lines = Window(poll[p].since, last)
  BY <1>1, <1>3 DEF SlicesOf
<1>8. ToSet(slice.lines) \subseteq 1..LastTick
  BY <1>1, <1>2, <1>4, <1>7
<1> QED BY <1>1, <1>3, <1>5, <1>6, <1>7, <1>8 DEF First, Final

LEMMA HandedOverTypes ==
  ASSUME LogTypes, NEW p \in Polls, NEW last, HandsOver(p, last)
  PROVE  LogTypes'
<1> DEFINE slice == [lines |-> Window(poll[p].since, last), generation |-> poll[p].generation]
<1>1. /\ slice \in SlicesOf(Nat) /\ slice.generation = poll[p].generation
      /\ AddSlice(slice) /\ ToSet(slice.lines) \subseteq 1..LastTick
      /\ poll[p] \in PollState
      /\ poll'[p] = [poll[p] EXCEPT !.phase = "updating"]
      /\ \A q \in Polls \ {p} : poll'[q] = poll[q]
  BY HandedOver
<1> HIDE DEF slice
<1>2. /\ poll'[p].phase = "updating" /\ poll'[p].since = poll[p].since
      /\ poll'[p].start = poll[p].start /\ poll'[p].generation = poll[p].generation
      /\ poll'[p] \in PollState
  BY <1>1 DEF PollState, Phases
<1>3. poll' \in [Polls -> PollState]
  BY <1>1, <1>2 DEF HandsOver, LogTypes
<1>4. DOMAIN store' = DOMAIN store \cup {slice.generation} /\ StoreTypes'
  BY <1>1, SliceAdded DEF LogTypes
<1> DEFINE gen == poll[p].generation
<1>5. gen \in 0..lastGen /\ lastGen \in Nat
  BY DEF LogTypes, HandsOver, PollTimes
<1>6. /\ latest' = IF latest < gen THEN gen ELSE latest
      /\ collected' = collected \cup ToSet(slice.lines)
      /\ late' = (late \/ gen < oldest)
      /\ UNCHANGED <<oldest, written, flushed, panicked>>
  BY <1>1 DEF AddSlice
<1>7. /\ UNCHANGED <<now, lastSpawn, waiting, lastTime, lastGen, overtaken>>
      /\ cut' \in BOOLEAN /\ poll[p].phase = "streaming"
  BY Zenon DEF HandsOver
<1>8. ~flushed
  <2>1. Idle.phase = "idle"
    BY DEF Idle
  <2> QED BY <1>7, <2>1 DEF LogTypes
<1>9. late' \in BOOLEAN
  BY <1>6, Zenon
<1>10. \A q \in Polls : PollTimes(q)'
  BY <1>1, <1>2, <1>7 DEF PollTimes, LogTypes
<1>11. written' \in Seq(collected')
  <2>1. collected \subseteq collected'
    BY <1>6
  <2> QED BY <1>6, <2>1, SeqMonotonic DEF LogTypes
<1>12. collected' \subseteq 1..LastTick
  BY <1>1, <1>6 DEF LogTypes
<1>13. /\ latest' \in Nat /\ oldest' \in 0..latest' /\ DOMAIN store' \subseteq 0..latest'
       /\ oldest' \in DOMAIN store'
  <2> HIDE DEF gen
  <2>1. /\ latest \in Nat /\ oldest \in 0..latest /\ DOMAIN store \subseteq 0..latest
    BY DEF LogTypes
  <2>2. gen \in Nat /\ latest' \in Nat /\ latest <= latest' /\ gen <= latest'
    BY <1>5, <1>6, <2>1
  <2>3. DOMAIN store' = DOMAIN store \cup {gen}
    BY <1>1, <1>4 DEF gen
  <2>4. oldest \in DOMAIN store \/ oldest = gen
    BY <1>5 DEF LogTypes, NothingYet
  <2> QED BY <1>6, <2>1, <2>2, <2>3, <2>4
<1> HIDE DEF gen
<1> QED BY <1>3, <1>4, <1>6, <1>7, <1>8, <1>9, <1>10, <1>11, <1>12, <1>13 DEF LogTypes

\* The generations that processSlices flushes.
Selected == {g \in DOMAIN store : g <= oldest + KeepGenerations}

Flushing(r) ==
  /\ r = FlushGenerations(Selected) /\ FlushTypes(r, Selected)
  /\ ~flushed /\ written' = written \o r.result /\ KeepsFrom(r.last)
  /\ oldest' = r.last.generation /\ panicked' = (panicked \/ r.panic)
  /\ UNCHANGED <<pollerVars, poll, lastPoll, latest, flushed, history>>

FlushingAll(r) ==
  /\ r = FlushGenerations(DOMAIN store) /\ FlushTypes(r, DOMAIN store)
  /\ written' = written \o r.result \o r.last.lines
  /\ panicked' = (panicked \/ r.panic)

LEMMA StoreFinite ==
  ASSUME LogTypes, NEW gens \in SUBSET (DOMAIN store)
  PROVE  IsFiniteSet(gens) /\ gens \in SUBSET Nat
<1>1. latest \in Nat /\ gens \subseteq 0..latest
  BY DEF LogTypes
<1>2. IsFiniteSet(0..latest)
  BY <1>1, FS_Interval
<1> QED BY <1>1, <1>2, FS_Subset

LEMMA FlushStep ==
  ASSUME LogTypes, Flush
  PROVE  /\ \E r : Flushing(r)
         /\ oldest \in Selected /\ Selected \subseteq DOMAIN store
<1>1. oldest \in DOMAIN store
  <2>1. CASE NothingYet
    <3>1. DOMAIN store = {}
      BY <2>1 DEF NothingYet
    <3>2. Cardinality(DOMAIN store) = 0
      BY <3>1, FS_EmptySet
    <3>3. Cardinality(DOMAIN store) > KeepGenerations
      BY DEF Flush, ShouldFlush
    <3> QED BY <3>2, <3>3, PollsAssumption
  <2> QED BY <2>1 DEF LogTypes
<1>2. oldest \in Selected /\ Selected \subseteq DOMAIN store
  BY <1>1, PollsAssumption DEF LogTypes, Selected
<1> DEFINE r == FlushGenerations(Selected)
<1>3. /\ ~flushed /\ written' = written \o r.result /\ KeepsFrom(r.last)
      /\ oldest' = r.last.generation /\ panicked' = (panicked \/ r.panic)
      /\ UNCHANGED <<pollerVars, poll, lastPoll, latest, flushed, history>>
  BY Zenon DEF Flush, Selected, KeepsFrom
<1>4. r = FlushGenerations(Selected)
  OBVIOUS
<1> HIDE DEF r
<1>5. FlushTypes(r, Selected)
  BY <1>2, <1>4, StoreFinite, FlushesCollected DEF LogTypes
<1>6. Flushing(r)
  BY <1>3, <1>4, <1>5 DEF Flushing
<1> QED BY <1>2, <1>6

LEMMA FlushAllStep ==
  ASSUME LogTypes, FlushAll
  PROVE  /\ ~flushed /\ flushed' = TRUE /\ \A p \in Polls : poll[p] = Idle
         /\ UNCHANGED <<pollerVars, poll, lastPoll, store, latest, oldest, history>>
         /\ \/ NothingYet /\ UNCHANGED <<written, panicked>>
            \/ oldest \in DOMAIN store /\ \E r : FlushingAll(r)
<1>1. /\ ~flushed /\ flushed' = TRUE /\ \A p \in Polls : poll[p] = Idle
      /\ UNCHANGED <<pollerVars, poll, lastPoll, store, latest, oldest, history>>
  BY DEF FlushAll, Running
<1>2. CASE store = <<>>
  <2>1. DOMAIN store = {}
    BY <1>2
  <2>2. NothingYet
    BY <2>1 DEF LogTypes
  <2> QED BY <1>1, <1>2, <2>2 DEF FlushAll
<1>3. CASE store # <<>>
  <2>1. oldest \in DOMAIN store
    BY <1>3 DEF LogTypes, NothingYet
  <2> DEFINE r == FlushGenerations(DOMAIN store)
  <2>2. /\ written' = written \o r.result \o r.last.lines
        /\ panicked' = (panicked \/ r.panic)
    BY <1>3, Zenon DEF FlushAll
  <2>3. r = FlushGenerations(DOMAIN store)
    OBVIOUS
  <2> HIDE DEF r
  <2>4. FlushTypes(r, DOMAIN store)
    BY <2>1, <2>3, StoreFinite, FlushesCollected DEF LogTypes
  <2>5. FlushingAll(r)
    BY <2>2, <2>3, <2>4 DEF FlushingAll
  <2> QED BY <1>1, <2>1, <2>5
<1> QED BY <1>2, <1>3

LEMMA FlushingTypes ==
  ASSUME LogTypes, NEW r, Flushing(r) PROVE LogTypes'
<1>1. /\ r.result \in Seq(collected) /\ r.last \in SlicesOf(collected)
      /\ r.last.generation \in DOMAIN store
      /\ r.panic \in BOOLEAN
  BY DEF Flushing, FlushTypes, Selected
<1>2. /\ ~flushed /\ written' = written \o r.result /\ KeepsFrom(r.last)
      /\ oldest' = r.last.generation /\ panicked' = (panicked \/ r.panic)
      /\ UNCHANGED <<now, lastSpawn, waiting, poll, lastTime, lastGen, latest, flushed,
                     collected, late, overtaken, cut>>
  BY DEF Flushing
<1>3. /\ DOMAIN store' = {g \in DOMAIN store : g >= r.last.generation} /\ StoreTypes'
  BY <1>1, <1>2, StoreKept DEF LogTypes
<1>4. oldest' \in 0..latest' /\ oldest' \in DOMAIN store' /\ DOMAIN store' \subseteq 0..latest'
  BY <1>1, <1>2, <1>3 DEF LogTypes
<1>5. written' \in Seq(collected')
  BY <1>1, <1>2 DEF LogTypes
<1>6. panicked' \in BOOLEAN
  BY <1>2, Zenon
<1>7. \A p \in Polls : PollTimes(p)'
  BY <1>2 DEF PollTimes, LogTypes
<1> QED BY <1>2, <1>3, <1>4, <1>5, <1>6, <1>7 DEF LogTypes

LEMMA FlushAllTypes ==
  ASSUME LogTypes, FlushAll PROVE LogTypes'
<1>1. /\ ~flushed /\ flushed' = TRUE /\ \A p \in Polls : poll[p] = Idle
      /\ UNCHANGED <<now, lastSpawn, waiting, poll, lastTime, lastGen, store, latest, oldest,
                     collected, late, overtaken, cut>>
      /\ \/ NothingYet /\ UNCHANGED <<written, panicked>>
         \/ oldest \in DOMAIN store /\ \E r : FlushingAll(r)
  BY FlushAllStep
<1>2. StoreTypes'
  BY <1>1 DEF LogTypes, StoreTypes, StoredAs
<1>3. \A p \in Polls : PollTimes(p)'
  BY <1>1 DEF PollTimes, LogTypes
<1>4. written' \in Seq(collected') /\ panicked' \in BOOLEAN
      /\ (oldest' \in DOMAIN store' \/ NothingYet')
  <2>1. CASE NothingYet /\ UNCHANGED <<written, panicked>>
    BY <1>1, <2>1 DEF LogTypes, NothingYet
  <2>2. CASE oldest \in DOMAIN store /\ \E r : FlushingAll(r)
    <3>1. PICK r : FlushingAll(r)
      BY <2>2
    <3>2. /\ r.result \in Seq(collected) /\ r.last \in SlicesOf(collected)
          /\ written' = written \o r.result \o r.last.lines
      BY <3>1 DEF FlushingAll, FlushTypes
    <3>3. r.last.lines \in Seq(collected)
      BY <3>2 DEF SlicesOf
    <3>4. panicked' \in BOOLEAN
      BY <3>1, Zenon DEF FlushingAll
    <3> QED BY <1>1, <2>2, <3>2, <3>3, <3>4 DEF LogTypes
  <2> QED BY <1>1, <2>1, <2>2
<1>5. flushed' \in BOOLEAN
  BY <1>1, Zenon
<1> QED BY <1>1, <1>2, <1>3, <1>4, <1>5 DEF LogTypes

\* The steps, by what they do to the windows.
Rests ==
  UNCHANGED <<poll, lastPoll, genVars, collected, late, overtaken, cut>>
  /\ now' \in {now, now + 1} /\ now' \in 1..LastTick

Leaves(p) ==
  /\ \E to \in PollState : /\ \/ to.phase \in {"idle", "looking"}
                              \/ to.phase = "requesting" /\ to.since = lastTime
                           /\ poll' = [poll EXCEPT ![p] = to]
  /\ ~flushed
  /\ UNCHANGED <<now, lastPoll, genVars, collected, late, overtaken, cut>>

HandsOverAll(p) == HandsOver(p, poll[p].start + PollInterval + 1) /\ cut' = cut

HandsOverPart(p) == cut' = TRUE /\ \E last : HandsOver(p, last)

LEMMA Steps ==
  ASSUME LogTypes, [Next]_vars
  PROVE  \/ Rests \/ (\E r : Flushing(r)) \/ FlushAll
         \/ \E p \in Polls : \/ Leaves(p) \/ OpenStream(p) \/ HandsOverAll(p)
                             \/ HandsOverPart(p) \/ Update(p)
<1>0. now \in 1..LastTick /\ LastTick \in Nat
  BY IntervalAssumption DEF LogTypes
<1>1. CASE Tick
  BY <1>0, <1>1 DEF Tick, Rests
<1>2. CASE PollerWaits \/ PollerResumes \/ UNCHANGED vars
  BY <1>0, <1>2 DEF PollerWaits, PollerResumes, vars, Rests
<1>3. CASE Flush
  BY <1>3, FlushStep
<1>4. ASSUME NEW p \in Polls, BeginPoll(p) PROVE Leaves(p)
  <2> DEFINE to == [phase |-> "looking", since |-> 0, start |-> 0, generation |-> 0]
  <2>1. to \in PollState /\ to.phase = "looking"
    BY DEF PollState, Phases
  <2> QED BY <1>4, <2>1 DEF BeginPoll, Leaves
<1>4a. ASSUME NEW p \in Polls, SendRequest(p) PROVE Leaves(p)
  <2> DEFINE to == [phase |-> "requesting", since |-> lastTime, start |-> 0, generation |-> 0]
  <2>1. to \in PollState /\ to.phase = "requesting" /\ to.since = lastTime
    BY DEF PollState, Phases, LogTypes
  <2>2. Idle.phase = "idle"
    BY DEF Idle
  <2>3. ~flushed
    BY <1>4a, <2>2 DEF SendRequest, LogTypes
  <2> QED BY <1>4a, <2>1, <2>3 DEF SendRequest, Leaves
<1>5. ASSUME NEW p \in Polls, PollFails(p) PROVE Leaves(p)
  <2>1. Idle \in PollState /\ Idle.phase = "idle"
    BY DEF Idle, PollState, Phases
  <2>2. ~flushed
    BY <1>5, <2>1 DEF PollFails, LogTypes
  <2> QED BY <1>5, <2>1, <2>2 DEF PollFails, Leaves
<1>6. ASSUME NEW p \in Polls, EndStream(p) PROVE HandsOverAll(p)
  <2> DEFINE end == poll[p].start + PollInterval + 1
  <2>1. poll[p].phase = "streaming" /\ now >= end
        /\ AddSlice(MakeSliceFromLines(Window(poll[p].since, end), poll[p].generation))
        /\ poll' = [poll EXCEPT ![p].phase = "updating"]
        /\ UNCHANGED <<pollerVars, lastPoll, overtaken, cut>>
    BY <1>6 DEF EndStream
  <2>2. end \in poll[p].since..now
    <3>1. poll[p].since \in Nat /\ poll[p].start \in poll[p].since..now /\ now \in Nat
      BY <2>1 DEF LogTypes, PollTimes, PollState
    <3> QED BY <2>1, <3>1, IntervalAssumption
  <2>3. cut' \in BOOLEAN
    BY <2>1 DEF LogTypes
  <2> HIDE DEF end
  <2>4. HandsOver(p, end) /\ cut' = cut
    BY <2>1, <2>2, <2>3, Zenon DEF HandsOver
  <2> QED BY <2>4 DEF HandsOverAll, end
<1>7. ASSUME NEW p \in Polls, CutStream(p) PROVE HandsOverPart(p)
  <2>1. PICK last \in poll[p].since..now :
          AddSlice(MakeSliceFromLines(Window(poll[p].since, last), poll[p].generation))
    BY <1>7, Zenon DEF CutStream
  <2>2. /\ poll[p].phase = "streaming"
        /\ poll' = [poll EXCEPT ![p].phase = "updating"]
        /\ UNCHANGED <<pollerVars, lastPoll, overtaken>> /\ cut' = TRUE
    BY <1>7 DEF CutStream
  <2>3. cut' \in BOOLEAN /\ (cut => cut')
    BY <2>2, Zenon
  <2>4. HandsOver(p, last)
    BY <2>1, <2>2, <2>3, Zenon DEF HandsOver
  <2> QED BY <2>2, <2>4 DEF HandsOverPart
<1> QED BY <1>1, <1>2, <1>3, <1>4, <1>4a, <1>5, <1>6, <1>7 DEF Next

LEMMA PollerTypes ==
  ASSUME LogTypes, [Next]_vars PROVE lastSpawn' \in -1..now' /\ waiting' \in BOOLEAN
<1>1. lastSpawn \in -1..now /\ waiting \in BOOLEAN /\ now \in Nat
  BY DEF LogTypes
<1>2. waiting' \in BOOLEAN
  <2>1. waiting' = waiting \/ waiting' = TRUE \/ waiting' = FALSE
    BY DEF Next, Tick, PollerWaits, PollerResumes, Flush, FlushAll, BeginPoll, SendRequest, OpenStream,
           PollFails, EndStream, CutStream, Update, vars
  <2> QED BY <1>1, <2>1, Zenon
<1>3. lastSpawn' \in {lastSpawn, now} /\ now' \in {now, now + 1}
  BY DEF Next, Tick, PollerWaits, PollerResumes, Flush, FlushAll, BeginPoll, SendRequest, OpenStream,
         PollFails, EndStream, CutStream, Update, vars
<1> QED BY <1>1, <1>2, <1>3

LEMMA LogTypesStep == LogTypes /\ [Next]_vars => LogTypes'
<1> SUFFICES ASSUME LogTypes, [Next]_vars PROVE LogTypes'
  OBVIOUS
<1>0. lastSpawn' \in -1..now' /\ waiting' \in BOOLEAN
  BY PollerTypes
<1>00. /\ now \in 1..LastTick /\ lastTime \in 1..now /\ lastGen \in Nat /\ LastTick \in Nat
       /\ poll \in [Polls -> PollState] /\ overtaken \in BOOLEAN
       /\ \A p \in Polls : PollTimes(p)
  BY IntervalAssumption DEF LogTypes
<1>1. CASE Rests
  <2>1. /\ now' \in 1..LastTick /\ now' \in {now, now + 1}
        /\ UNCHANGED <<poll, lastPoll, genVars, collected, late, overtaken, cut>>
    BY <1>1 DEF Rests
  <2>2. StoreTypes' /\ (NothingYet => NothingYet')
    BY <2>1 DEF LogTypes, StoreTypes, StoredAs, NothingYet
  <2>3. \A p \in Polls : PollTimes(p)'
    BY <1>00, <2>1 DEF PollTimes, PollState
  <2>4. lastTime' \in 1..now'
    BY <1>00, <2>1
  <2> QED BY <1>0, <2>1, <2>2, <2>3, <2>4 DEF LogTypes
<1>2. ASSUME NEW r, Flushing(r) PROVE LogTypes'
  BY <1>2, FlushingTypes
<1>3. CASE FlushAll
  BY <1>3, FlushAllTypes
<1>4. ASSUME NEW p \in Polls, NEW to \in PollState, poll' = [poll EXCEPT ![p] = to],
             Quiet, overtaken' \in BOOLEAN, to.phase # "updating", ~flushed,
             to.phase \notin {"idle", "looking"} => to.since \in 1..lastTime,
             to.phase = "streaming" =>
               to.start \in to.since..now /\ to.generation \in 0..lastGen
      PROVE  LogTypes'
  <2>1. poll' \in [Polls -> PollState] /\ poll'[p] = to
        /\ \A q \in Polls \ {p} : poll'[q] = poll[q]
    BY <1>00, <1>4
  <2>2. PollTimes(p)'
    BY <1>4, <2>1 DEF PollTimes, Quiet
  <2>3. \A q \in Polls \ {p} : PollTimes(q)'
    BY <1>00, <1>4, <2>1 DEF PollTimes, Quiet
  <2>4. \A q \in Polls : PollTimes(q)'
    BY <2>2, <2>3
  <2>5. \A q \in Polls : poll'[q] # poll[q] => poll'[q].phase # "updating" /\ ~flushed
    BY <1>4, <2>1
  <2> QED BY <1>0, <1>4, <2>1, <2>4, <2>5, QuietTypes DEF Quiet
<1>5. ASSUME NEW p \in Polls, Leaves(p) PROVE LogTypes'
  <2>1. PICK to \in PollState : /\ \/ to.phase \in {"idle", "looking"}
                                   \/ to.phase = "requesting" /\ to.since = lastTime
                                /\ poll' = [poll EXCEPT ![p] = to]
    BY <1>5 DEF Leaves
  <2>2. Quiet /\ ~flushed /\ overtaken' = overtaken
    BY <1>5 DEF Leaves, Quiet
  <2>3. to.phase \notin {"idle", "looking"} => to.since \in 1..lastTime
    BY <1>00, <2>1
  <2> QED BY <1>00, <1>4, <2>1, <2>2, <2>3
<1>6. ASSUME NEW p \in Polls, poll[p].phase # "idle" PROVE ~flushed
  <2>1. Idle.phase = "idle"
    BY DEF Idle
  <2> QED BY <1>6, <2>1 DEF LogTypes
<1>7. ASSUME NEW p \in Polls, OpenStream(p) PROVE LogTypes'
  <2> DEFINE to == [poll[p] EXCEPT !.phase = "streaming", !.start = now,
                                   !.generation = lastGen]
  <2>1. poll[p] \in PollState /\ now \in Nat /\ poll[p].phase = "requesting"
        /\ poll[p].since \in 1..lastTime
    BY <1>00, <1>7 DEF OpenStream, PollTimes
  <2>2. to \in PollState /\ to.since = poll[p].since /\ to.phase = "streaming"
        /\ to.generation = lastGen /\ to.start = now
    BY <1>00, <2>1 DEF PollState, Phases
  <2>3. poll' = [poll EXCEPT ![p] = to] /\ Quiet
    BY <1>7 DEF OpenStream, Quiet
  <2>4. overtaken' \in BOOLEAN
    BY <1>7, Zenon DEF OpenStream
  <2> HIDE DEF to
  <2>5. to.start \in to.since..now /\ to.generation \in 0..lastGen
    BY <1>00, <2>1, <2>2
  <2> QED BY <1>4, <1>6, <2>1, <2>2, <2>3, <2>4, <2>5
<1>8. ASSUME NEW p \in Polls, HandsOverAll(p) \/ HandsOverPart(p) PROVE LogTypes'
  <2>1. PICK last : HandsOver(p, last)
    BY <1>8 DEF HandsOverAll, HandsOverPart
  <2> QED BY <2>1, HandedOverTypes
<1>9. ASSUME NEW p \in Polls, Update(p) PROVE LogTypes'
  <2>1. /\ Idle \in PollState /\ Idle.phase = "idle" /\ poll[p].phase = "updating"
        /\ poll' = [poll EXCEPT ![p] = Idle] /\ UNCHANGED <<pollerVars, genVars, history>>
    BY <1>9 DEF Update, Idle, PollState, Phases
  <2>2. poll' \in [Polls -> PollState] /\ poll'[p] = Idle
        /\ \A q \in Polls \ {p} : poll'[q] = poll[q]
    BY <1>00, <2>1
  <2>3. poll[p].start \in 1..now
    BY <1>00, <2>1 DEF PollTimes, PollState
  <2>4. lastTime <= lastTime' /\ lastTime' \in 1..now' /\ lastGen' \in Nat /\ lastGen <= lastGen'
    BY <1>00, <1>9, <2>1, <2>3 DEF Update
  <2>5. \A q \in Polls : PollTimes(q)'
    BY <1>00, <2>1, <2>2, <2>4 DEF PollTimes, PollState
  <2>6. StoreTypes' /\ ~NothingYet /\ ~flushed
    BY <1>6, <2>1 DEF LogTypes, StoreTypes, StoredAs, NothingYet
  <2> QED BY <1>0, <2>1, <2>2, <2>4, <2>5, <2>6 DEF LogTypes
<1> QED BY <1>1, <1>2, <1>3, <1>5, <1>7, <1>8, <1>9, Steps

-----------------------------------------------------------------------------
(* The windows, unless a poll was overtaken. *)

\* What polls have read of lastPoll, and what it is.
Readings ==
  {<<poll[p].generation, poll[p].since>> : p \in Following}
  \cup {<<x.generation, First(x)>> : x \in Stored} \cup {<<lastGen, lastTime>>}

ReadingsInOrder ==
  /\ \A a \in Readings : a[1] <= lastGen /\ a[2] <= lastTime
  /\ \A a, b \in Readings : a[1] < b[1] <=> a[2] < b[2]

StoredWindows == \A x \in Stored : Consecutive(x.lines)

WindowsHold == ~overtaken => ReadingsInOrder /\ StoredWindows /\ ~panicked

LEMMA StoredNumbers ==
  ASSUME LogTypes, StoredWindows, NEW x \in Stored
  PROVE  /\ x.generation \in Nat /\ First(x) \in Nat /\ Final(x) \in Nat /\ First(x) <= Final(x)
         /\ ToSet(x.lines) = First(x)..Final(x) /\ x.generation \in DOMAIN store
         /\ x \in SlicesOf(Nat)
<1>1. x \in SlicesOf(Nat) /\ x.generation \in DOMAIN store
  BY StoredSlices DEF LogTypes
<1>2. Consecutive(x.lines)
  BY DEF StoredWindows
<1> QED BY <1>1, <1>2, ConsecutiveLines DEF First, Final, SlicesOf

LEMMA ReadingNumbers ==
  ASSUME LogTypes, StoredWindows
  PROVE  /\ \A a \in Readings : a[1] \in Nat /\ a[2] \in Nat
         /\ lastGen \in Nat /\ lastTime \in Nat
<1>1. lastGen \in Nat /\ lastTime \in Nat
  BY DEF LogTypes
<1>2. \A p \in Polls : poll[p].generation \in Nat /\ poll[p].since \in Nat
  BY DEF LogTypes, PollState
<1>3. \A x \in Stored : x.generation \in Nat /\ First(x) \in Nat
  BY StoredNumbers
<1> QED BY <1>1, <1>2, <1>3 DEF Readings, Following

LEMMA StoredInOrder ==
  ASSUME LogTypes, StoredWindows, ReadingsInOrder, NEW x \in Stored, NEW y \in Stored
  PROVE  /\ x.generation < y.generation <=> First(x) < First(y)
         /\ x.generation = y.generation <=> First(x) = First(y)
<1>1. <<x.generation, First(x)>> \in Readings /\ <<y.generation, First(y)>> \in Readings
  BY DEF Readings
<1>2. /\ x.generation < y.generation <=> First(x) < First(y)
      /\ y.generation < x.generation <=> First(y) < First(x)
  BY <1>1 DEF ReadingsInOrder
<1>3. /\ x.generation \in Nat /\ y.generation \in Nat /\ First(x) \in Nat /\ First(y) \in Nat
  BY StoredNumbers
<1> QED BY <1>2, <1>3

\* Every generation but the last of them reaches to a later one.
ReachOn(gens) ==
  \A g, h \in gens : g < h =>
    \E x, y \in Stored : /\ x.generation = g /\ y.generation \in gens /\ g < y.generation
                         /\ First(y) <= Final(x) + 1

KeepsLast(r, gens) ==
  /\ r.last \in Stored /\ r.last.generation \in gens
  /\ \A g \in gens : g <= r.last.generation
  /\ \A x \in Stored : x.generation = r.last.generation => Final(x) <= Final(r.last)

ReleasesFrom(r, gens, low) ==
  /\ low \in Stored /\ low.generation \in gens
  /\ \A g \in gens : low.generation <= g
  /\ \A l \in ToSet(r.result) : First(low) <= l /\ l < First(r.last)
  /\ ReachOn(gens) => ToSet(r.result) = First(low)..(First(r.last) - 1)

WindowsFlushed(r, gens) ==
  /\ KeepsLast(r, gens) /\ r.panic = FALSE
  /\ r.result \in Seq(Nat) /\ Ordered(r.result)
  /\ \E low : ReleasesFrom(r, gens, low)

\* The slice that stands for generation g in a flush.
Stands(x, g) ==
  /\ x \in Stored /\ x.generation = g
  /\ \A y \in Stored : y.generation = g => Final(y) <= Final(x)

LEMMA GenerationStands ==
  ASSUME LogTypes, StoredWindows, ReadingsInOrder, NEW g \in DOMAIN store
  PROVE  OneOf(g).panic = FALSE /\ Stands(OneOf(g).slice, g)
<1> DEFINE s == store[g]
           n == Len(s)
<1>1. s \in Seq(SlicesOf(collected)) /\ s # <<>> /\ collected \in SUBSET Nat
  BY DEF LogTypes, StoreTypes, StoredAs
<1>2. \A i \in 1..n : s[i] \in Stored /\ s[i].generation = g
  BY StoredSlices DEF LogTypes
<1>3. \A x \in Stored : x.generation = g => \E i \in 1..n : s[i] = x
  BY StoredSlices DEF LogTypes
<1>4. OneOf(g) = dedupGeneration(s)
  BY DEF OneOf
<1> HIDE DEF s
<1>5. s \in Seq(SlicesOf(Nat)) /\ n \in Nat
  BY <1>1, SlicesIn
<1>6. Windows(s)
  BY <1>1, <1>2, <1>5 DEF Windows, StoredWindows
<1>7. \A i, j \in 1..n : First(s[i]) = First(s[j])
  BY <1>2, StoredInOrder
<1> HIDE DEF n
<1>8. \E last \in 1..n : /\ dedupGeneration(s) = [slice |-> s[last], panic |-> FALSE]
                         /\ \A i \in 1..n : Final(s[i]) <= Final(s[last])
  BY <1>6, <1>7, GenerationWindow DEF n
<1>9. PICK last \in 1..n : /\ dedupGeneration(s) = [slice |-> s[last], panic |-> FALSE]
                           /\ \A i \in 1..n : Final(s[i]) <= Final(s[last])
  BY <1>8
<1>10. OneOf(g).slice = s[last] /\ OneOf(g).panic = FALSE
  BY <1>4, <1>9
<1> QED BY <1>2, <1>3, <1>9, <1>10 DEF Stands

(* A flush of windows keeps the one of the last generation that reaches    *)
(* furthest, and releases the lines before it.                             *)
LEMMA FlushesWindows ==
  ASSUME LogTypes, StoredWindows, ReadingsInOrder,
         NEW gens \in SUBSET (DOMAIN store), gens # {}, NEW r, r = FlushGenerations(gens)
  PROVE  WindowsFlushed(r, gens)
<1>1. /\ gens \in SUBSET Nat /\ IsFiniteSet(gens) /\ collected \in SUBSET Nat
      /\ \A g \in gens : StoredAs(g, collected)
  BY StoreFinite DEF LogTypes, StoreTypes
<1>2. PICK slices : FlushedAs(r, gens, slices, collected)
  BY <1>1, FlushIs
<1> DEFINE n == Len(slices)
           d == DedupLineSlices(slices)
<1>3. /\ slices \in Seq(SlicesOf(collected)) /\ slices # <<>>
      /\ \A k \in 1..n : \E g \in gens : slices[k] = OneOf(g).slice
      /\ \A g \in gens : \E k \in 1..n : slices[k] = OneOf(g).slice
      /\ r.result = d.result /\ r.last = d.last
      /\ (\A g \in gens : OneOf(g).panic = FALSE) /\ d.panic = FALSE => r.panic = FALSE
  BY <1>2 DEF FlushedAs
<1>4. \A g \in gens : OneOf(g).panic = FALSE /\ Stands(OneOf(g).slice, g)
  BY GenerationStands
<1>5. slices \in Seq(SlicesOf(Nat)) /\ n \in Nat
  <2>1. collected \in SUBSET Nat /\ slices \in Seq(SlicesOf(collected))
    BY <1>1, <1>3
  <2>2. slices \in Seq(SlicesOf(Nat))
    BY ONLY <2>1, SlicesIn
  <2> QED BY <2>2
<1> HIDE DEF n, d
<1>6. ASSUME NEW k \in 1..n
      PROVE  /\ slices[k] \in Stored /\ slices[k].generation \in gens
             /\ Stands(slices[k], slices[k].generation) /\ Consecutive(slices[k].lines)
  <2>1. PICK g \in gens : slices[k] = OneOf(g).slice
    BY <1>3
  <2> QED BY <1>4, <2>1 DEF Stands, StoredWindows
<1>7. \A g \in gens : \E k \in 1..n : slices[k].generation = g
  BY <1>3, <1>4 DEF Stands
<1>8. Windows(slices)
  BY <1>3, <1>5, <1>6 DEF Windows, n
<1>9. PICK last \in 1..n : WindowsReleased(d, slices, last)
  BY <1>8, WindowsPassed DEF n, d
<1>10. /\ d.last = slices[last] /\ d.panic = FALSE /\ Latest(slices, last)
       /\ d.result \in Seq(Nat) /\ Ordered(d.result)
       /\ \E i \in 1..n :
            /\ \A j \in 1..n : First(slices[i]) <= First(slices[j])
            /\ \A l \in ToSet(d.result) : First(slices[i]) <= l /\ l < First(slices[last])
            /\ NoGap(slices, last) =>
                 ToSet(d.result) = First(slices[i])..(First(slices[last]) - 1)
  BY <1>9 DEF WindowsReleased, n
<1>11. PICK i \in 1..n :
         /\ \A j \in 1..n : First(slices[i]) <= First(slices[j])
         /\ \A l \in ToSet(d.result) : First(slices[i]) <= l /\ l < First(slices[last])
         /\ NoGap(slices, last) =>
              ToSet(d.result) = First(slices[i])..(First(slices[last]) - 1)
  BY <1>10
<1>12. ASSUME NEW k \in 1..n, NEW l \in 1..n, First(slices[k]) <= First(slices[l])
       PROVE  slices[k].generation <= slices[l].generation
  <2>1. slices[k] \in Stored /\ slices[l] \in Stored
    BY <1>6
  <2>2. slices[l].generation < slices[k].generation <=> First(slices[l]) < First(slices[k])
    BY <2>1, StoredInOrder
  <2>3. /\ slices[k].generation \in Nat /\ slices[l].generation \in Nat
        /\ First(slices[k]) \in Nat /\ First(slices[l]) \in Nat
    BY <2>1, StoredNumbers
  <2> QED BY <1>12, <2>2, <2>3
<1>13. \A g \in gens : slices[i].generation <= g /\ g <= slices[last].generation
  <2> SUFFICES ASSUME NEW g \in gens
               PROVE  slices[i].generation <= g /\ g <= slices[last].generation
    OBVIOUS
  <2>1. PICK k \in 1..n : slices[k].generation = g
    BY <1>7
  <2>2. First(slices[i]) <= First(slices[k]) /\ First(slices[k]) <= First(slices[last])
    BY <1>10, <1>11 DEF Latest, n
  <2> QED BY <1>12, <2>1, <2>2
<1>14. KeepsLast(r, gens)
  <2>1. r.last = slices[last]
    BY <1>3, <1>10
  <2> QED BY <1>6, <1>13, <2>1 DEF KeepsLast, Stands
<1>15. r.panic = FALSE
  BY <1>3, <1>4, <1>10
<1>16. ReachOn(gens) => NoGap(slices, last)
  <2> SUFFICES ASSUME ReachOn(gens), NEW k \in 1..n, First(slices[k]) < First(slices[last])
               PROVE  \E j \in 1..n : First(slices[k]) < First(slices[j])
                                      /\ First(slices[j]) <= Final(slices[k]) + 1
    BY DEF NoGap, n
  <2> DEFINE g == slices[k].generation
  <2>1. slices[k] \in Stored /\ slices[last] \in Stored /\ g \in gens
        /\ slices[last].generation \in gens /\ Stands(slices[k], g)
    BY <1>6
  <2>2. g < slices[last].generation
    BY <2>1, StoredInOrder
  <2>3. PICK x \in Stored, y \in Stored :
          /\ x.generation = g /\ y.generation \in gens /\ g < y.generation
          /\ First(y) <= Final(x) + 1
    BY <2>1, <2>2 DEF ReachOn
  <2>4. PICK j \in 1..n : slices[j].generation = y.generation
    BY <1>7, <2>3
  <2>5. slices[j] \in Stored /\ First(slices[j]) = First(y)
    BY <1>6, <2>3, <2>4, StoredInOrder
  <2>6. First(slices[k]) < First(slices[j])
    BY <2>1, <2>3, <2>4, <2>5, StoredInOrder
  <2>7. Final(x) <= Final(slices[k])
    BY <2>1, <2>3 DEF Stands
  <2>8. Final(x) \in Nat /\ Final(slices[k]) \in Nat /\ First(y) \in Nat
    BY <2>1, <2>3, StoredNumbers
  <2>9. First(slices[j]) <= Final(slices[k]) + 1
    BY ONLY <2>3, <2>5, <2>7, <2>8
  <2> QED BY <2>6, <2>9
<1>17. ReleasesFrom(r, gens, slices[i])
  <2>1. r.last = slices[last] /\ r.result = d.result
    BY <1>3, <1>10
  <2> QED BY <1>6, <1>11, <1>13, <1>16, <2>1 DEF ReleasesFrom
<1> QED BY <1>3, <1>10, <1>14, <1>15, <1>17 DEF WindowsFlushed

LEMMA ReadingsKept ==
  ASSUME ReadingsInOrder, Readings' \subseteq Readings, UNCHANGED lastPoll
  PROVE  ReadingsInOrder'
BY DEF ReadingsInOrder

LEMMA ReadingAdded ==
  ASSUME LogTypes, StoredWindows, ReadingsInOrder, lastGen' \in Nat, lastTime' \in Nat,
         lastGen' > lastGen, lastTime' > lastTime,
         Readings' \subseteq Readings \cup {<<lastGen', lastTime'>>}
  PROVE  ReadingsInOrder'
<1>1. \A a \in Readings : a[1] <= lastGen /\ a[2] <= lastTime
  BY DEF ReadingsInOrder
<1>2. /\ \A a \in Readings : a[1] \in Nat /\ a[2] \in Nat
      /\ lastGen \in Nat /\ lastTime \in Nat
  BY ReadingNumbers
<1>3. ASSUME NEW a \in Readings'
      PROVE  \/ a \in Readings /\ a[1] \in Nat /\ a[2] \in Nat /\ a[1] < lastGen' /\ a[2] < lastTime'
             \/ a[1] = lastGen' /\ a[2] = lastTime'
  BY <1>1, <1>2
<1>4. \A a \in Readings' : a[1] <= lastGen' /\ a[2] <= lastTime'
  BY <1>3
<1>5. ASSUME NEW a \in Readings', NEW b \in Readings'
      PROVE  a[1] < b[1] <=> a[2] < b[2]
  <2>1. CASE a \in Readings /\ b \in Readings
    BY <2>1 DEF ReadingsInOrder
  <2>2. CASE ~(a \in Readings /\ b \in Readings)
    BY <1>3, <2>2
  <2> QED BY <2>1, <2>2
<1> QED BY <1>4, <1>5 DEF ReadingsInOrder

\* What a step leaves of the following polls.
FollowingKept ==
  \A q \in Following' : /\ q \in Following /\ poll'[q].generation = poll[q].generation
                        /\ poll'[q].since = poll[q].since /\ poll'[q].start = poll[q].start

LEMMA LeavesKeeps ==
  ASSUME LogTypes, NEW p \in Polls, Leaves(p) \/ Update(p)
  PROVE  FollowingKept /\ store' = store /\ Stored' = Stored
<1>1. PICK to \in PollState : to.phase \in {"idle", "looking", "requesting"}
                              /\ poll' = [poll EXCEPT ![p] = to]
  <2>1. Idle \in PollState /\ Idle.phase = "idle"
    BY DEF Idle, PollState, Phases
  <2> QED BY <2>1 DEF Leaves, Update
<1>2. poll'[p] = to /\ \A q \in Polls \ {p} : poll'[q] = poll[q]
  BY <1>1 DEF LogTypes
<1>3. FollowingKept
  BY <1>1, <1>2 DEF FollowingKept, Following
<1>4. store' = store
  BY DEF Leaves, Update
<1> QED BY <1>3, <1>4 DEF Stored

LEMMA HandsOverKeeps ==
  ASSUME LogTypes, NEW p \in Polls, NEW last, HandsOver(p, last)
  PROVE  /\ FollowingKept /\ p \in Following
         /\ \E slice : /\ Stored' = Stored \cup {slice} /\ Consecutive(slice.lines)
                       /\ slice.generation = poll[p].generation
                       /\ First(slice) = poll[p].since /\ Final(slice) = last
                       /\ AddSlice(slice) /\ slice \in SlicesOf(Nat)
<1> DEFINE slice == [lines |-> Window(poll[p].since, last), generation |-> poll[p].generation]
<1>1. /\ slice \in SlicesOf(Nat) /\ Consecutive(slice.lines)
      /\ slice.generation = poll[p].generation
      /\ First(slice) = poll[p].since /\ Final(slice) = last /\ AddSlice(slice)
      /\ poll[p] \in PollState
      /\ poll'[p] = [poll[p] EXCEPT !.phase = "updating"]
      /\ \A q \in Polls \ {p} : poll'[q] = poll[q]
  BY HandedOver
<1> HIDE DEF slice
<1>2. Stored' = Stored \cup {slice}
  BY <1>1, SliceAdded DEF LogTypes
<1>3. poll[p].phase = "streaming" /\ p \in Following
  BY DEF HandsOver, Following
<1>4. /\ poll'[p].since = poll[p].since /\ poll'[p].start = poll[p].start
      /\ poll'[p].generation = poll[p].generation
  BY <1>1 DEF PollState
<1>5. FollowingKept
  BY <1>1, <1>3, <1>4 DEF FollowingKept, Following
<1> QED BY <1>1, <1>2, <1>3, <1>5

LEMMA OpenStreamKeeps ==
  ASSUME LogTypes, NEW p \in Polls, OpenStream(p), ~overtaken'
  PROVE  /\ ~overtaken /\ Readings' \subseteq Readings /\ Stored' = Stored
         /\ UNCHANGED <<lastPoll, panicked>>
         /\ poll'[p].phase = "streaming" /\ poll'[p].generation = lastGen
         /\ poll'[p].start = now
         /\ \A q \in Polls \ {p} : poll'[q] = poll[q]
<1> DEFINE to == [poll[p] EXCEPT !.phase = "streaming", !.start = now,
                                 !.generation = lastGen]
<1>1. /\ poll' = [poll EXCEPT ![p] = to] /\ UNCHANGED <<lastPoll, genVars>>
      /\ overtaken' = (overtaken \/ lastTime # poll[p].since)
  BY DEF OpenStream
<1>2. ~overtaken /\ poll[p].since = lastTime
  BY <1>1
<1>3. to.phase = "streaming" /\ to.generation = lastGen /\ to.since = lastTime /\ to.start = now
  BY <1>2 DEF LogTypes, PollState
<1>4. poll'[p] = to /\ \A q \in Polls \ {p} : poll'[q] = poll[q]
  BY <1>1 DEF LogTypes
<1> HIDE DEF to
<1>5. ASSUME NEW q \in Following'
      PROVE  <<poll'[q].generation, poll'[q].since>> \in Readings
  <2>1. CASE q = p
    BY <1>3, <1>4, <2>1 DEF Readings
  <2>2. CASE q # p
    <3>1. q \in Following /\ poll'[q] = poll[q]
      BY <1>4, <1>5, <2>2 DEF Following
    <3> QED BY <3>1 DEF Readings
  <2> QED BY <2>1, <2>2
<1>6. Stored' = Stored
  BY <1>1 DEF Stored
<1>7. Readings' \subseteq Readings
  BY <1>1, <1>5, <1>6 DEF Readings
<1> QED BY <1>1, <1>2, <1>3, <1>4, <1>6, <1>7

LEMMA FlushingKeeps ==
  ASSUME LogTypes, ~overtaken, WindowsHold, NEW r, Flushing(r)
  PROVE  /\ WindowsFlushed(r, Selected)
         /\ Stored' = {y \in Stored : y.generation > r.last.generation} \cup {r.last}
         /\ r.last \in Stored
<1>1. /\ Selected \in SUBSET (DOMAIN store) /\ Selected # {} /\ r = FlushGenerations(Selected)
      /\ r.last \in SlicesOf(collected) /\ r.last.generation \in DOMAIN store
      /\ KeepsFrom(r.last) /\ collected' = collected
  BY DEF Flushing, FlushTypes, Selected
<1>2. WindowsFlushed(r, Selected)
  BY <1>1, FlushesWindows DEF WindowsHold
<1>3. Stored' = {y \in Stored : y.generation > r.last.generation} \cup {r.last}
  BY <1>1, StoreKept DEF LogTypes
<1> QED BY <1>2, <1>3 DEF WindowsFlushed, KeepsLast

LEMMA FlushingAllKeeps ==
  ASSUME LogTypes, ~overtaken, WindowsHold, NEW r, FlushingAll(r)
  PROVE  WindowsFlushed(r, DOMAIN store)
<1>1. /\ DOMAIN store # {} /\ r = FlushGenerations(DOMAIN store)
  BY DEF FlushingAll, FlushTypes
<1> QED BY <1>1, FlushesWindows DEF WindowsHold

LEMMA WindowsHoldInit == Init => WindowsHold
<1> SUFFICES ASSUME Init PROVE WindowsHold
  OBVIOUS
<1> USE DEF Init
<1>1. Stored = {}
  BY DEF Stored
<1>2. Following = {}
  <2>1. Idle.phase = "idle"
    BY DEF Idle
  <2> QED BY <2>1 DEF Following
<1>3. Readings = {<<0, 1>>}
  BY <1>1, <1>2 DEF Readings
<1> QED BY <1>1, <1>3 DEF WindowsHold, ReadingsInOrder, StoredWindows

LEMMA WindowsHoldStep ==
  ASSUME LogTypes, WindowsHold, [Next]_vars PROVE WindowsHold'
<1>0. LogTypes'
  BY LogTypesStep
<1> SUFFICES ASSUME ~overtaken' PROVE (ReadingsInOrder /\ StoredWindows /\ ~panicked)'
  BY DEF WindowsHold
<1>1. ASSUME ~overtaken PROVE ReadingsInOrder /\ StoredWindows /\ ~panicked
  BY <1>1 DEF WindowsHold
<1>2. ASSUME ~overtaken, FollowingKept, Stored' \subseteq Stored, UNCHANGED <<lastPoll, panicked>>
      PROVE  (ReadingsInOrder /\ StoredWindows /\ ~panicked)'
  <2>1. Readings' \subseteq Readings
    BY <1>2 DEF Readings, FollowingKept
  <2> QED BY <1>1, <1>2, <2>1, ReadingsKept DEF StoredWindows
<1>3. CASE Rests
  <2>1. UNCHANGED <<poll, store, lastPoll, panicked, overtaken>>
    BY <1>3 DEF Rests
  <2>2. FollowingKept /\ Stored' \subseteq Stored
    BY <2>1 DEF FollowingKept, Following, Stored
  <2> QED BY <1>2, <2>1, <2>2
<1>4. ASSUME NEW r, Flushing(r) PROVE (ReadingsInOrder /\ StoredWindows /\ ~panicked)'
  <2>1. /\ UNCHANGED <<poll, lastPoll, overtaken>> /\ panicked' = (panicked \/ r.panic)
    BY <1>4 DEF Flushing
  <2>2. WindowsFlushed(r, Selected) /\ Stored' \subseteq Stored
    BY <1>4, <2>1, FlushingKeeps
  <2>3. r.panic = FALSE
    BY <2>2 DEF WindowsFlushed
  <2>4. panicked' = panicked
    BY <2>1, <2>3 DEF LogTypes
  <2>5. FollowingKept
    BY <2>1 DEF FollowingKept, Following
  <2> QED BY <1>2, <2>1, <2>2, <2>4, <2>5
<1>5. CASE FlushAll
  <2>1. /\ UNCHANGED <<poll, lastPoll, store, overtaken>>
        /\ panicked' = panicked \/ \E r : FlushingAll(r)
    BY <1>5, FlushAllStep
  <2>2. panicked' = panicked
    <3>1. ASSUME NEW r, FlushingAll(r) PROVE panicked' = panicked
      <4>1. r.panic = FALSE /\ panicked' = (panicked \/ r.panic)
        BY <2>1, <3>1, FlushingAllKeeps DEF WindowsFlushed, FlushingAll
      <4> QED BY <4>1 DEF LogTypes
    <3> QED BY <2>1, <3>1
  <2>3. FollowingKept /\ Stored' \subseteq Stored
    BY <2>1 DEF FollowingKept, Following, Stored
  <2> QED BY <1>2, <2>1, <2>2, <2>3
<1>6. ASSUME NEW p \in Polls, Leaves(p) PROVE (ReadingsInOrder /\ StoredWindows /\ ~panicked)'
  <2>1. UNCHANGED <<lastPoll, panicked, overtaken>>
    BY <1>6 DEF Leaves
  <2> QED BY <1>2, <1>6, <2>1, LeavesKeeps
<1>7. ASSUME NEW p \in Polls, OpenStream(p) PROVE (ReadingsInOrder /\ StoredWindows /\ ~panicked)'
  <2>1. /\ ~overtaken /\ Readings' \subseteq Readings /\ Stored' = Stored
        /\ UNCHANGED <<lastPoll, panicked>>
    BY <1>7, OpenStreamKeeps
  <2> QED BY <1>1, <2>1, ReadingsKept DEF StoredWindows
<1>8. ASSUME NEW p \in Polls, NEW last, HandsOver(p, last)
      PROVE  (ReadingsInOrder /\ StoredWindows /\ ~panicked)'
  <2>1. UNCHANGED <<lastPoll, panicked, overtaken>>
    BY <1>8 DEF HandsOver, AddSlice
  <2>2. FollowingKept /\ p \in Following
    BY <1>8, HandsOverKeeps
  <2>3. PICK slice : /\ Stored' = Stored \cup {slice} /\ Consecutive(slice.lines)
                     /\ slice.generation = poll[p].generation /\ First(slice) = poll[p].since
    BY <1>8, HandsOverKeeps
  <2>4. Readings' \subseteq Readings
    BY <2>1, <2>2, <2>3 DEF Readings, FollowingKept
  <2> QED BY <1>1, <2>1, <2>3, <2>4, ReadingsKept DEF StoredWindows
<1>9. ASSUME NEW p \in Polls, Update(p) PROVE (ReadingsInOrder /\ StoredWindows /\ ~panicked)'
  <2>1. UNCHANGED <<panicked, overtaken>>
    BY <1>9 DEF Update
  <2>2. FollowingKept /\ Stored' = Stored
    BY <1>9, LeavesKeeps
  <2>3. CASE UNCHANGED lastPoll
    BY <1>2, <2>1, <2>2, <2>3
  <2>4. CASE lastGen' = lastGen + 1 /\ lastTime' > lastTime
    <3>1. lastGen \in Nat /\ lastGen' \in Nat /\ lastTime' \in Nat
      BY <1>0 DEF LogTypes
    <3>2. Readings' \subseteq Readings \cup {<<lastGen', lastTime'>>}
      BY <2>2 DEF Readings, FollowingKept
    <3>3. lastGen' > lastGen
      BY <2>4, <3>1
    <3>4. ReadingsInOrder'
      BY <1>1, <2>1, <2>4, <3>1, <3>2, <3>3, ReadingAdded
    <3> QED BY <1>1, <2>1, <2>2, <3>4 DEF StoredWindows
  <2>5. UNCHANGED lastPoll \/ (lastGen' = lastGen + 1 /\ lastTime' > lastTime)
    BY <1>9 DEF Update
  <2> QED BY <2>3, <2>4, <2>5
<1>10. ASSUME NEW p \in Polls, HandsOverAll(p) \/ HandsOverPart(p)
       PROVE  (ReadingsInOrder /\ StoredWindows /\ ~panicked)'
  BY <1>8, <1>10 DEF HandsOverAll, HandsOverPart
<1> QED BY <1>3, <1>4, <1>5, <1>6, <1>7, <1>9, <1>10, Steps

-----------------------------------------------------------------------------
(* The windows, unless a stream was cut: those of one generation meet.     *)

\* What polls have read of lastPoll and when their streams opened, from where
\* to where the windows in the store go, and lastPoll.
Spans ==
  {<<poll[p].generation, poll[p].since, poll[p].start>> : p \in Following}
  \cup {<<x.generation, First(x), Final(x)>> : x \in Stored}
  \cup {<<lastGen, lastTime, lastTime>>}

SpansMeet ==
  /\ \A a \in Spans : a[1] <= lastGen
  /\ \A a, b \in Spans : a[1] = b[1] => a[2] <= b[3]

MeetHolds == ~cut => SpansMeet /\ StoredWindows /\ ~panicked

\* The last line that a poll follows its stream to.
End(p) == poll[p].start + PollInterval + 1

LEMMA StoredMeet ==
  ASSUME SpansMeet, NEW x \in Stored, NEW y \in Stored, x.generation = y.generation
  PROVE  First(x) <= Final(y)
<1>1. <<x.generation, First(x), Final(x)>> \in Spans
      /\ <<y.generation, First(y), Final(y)>> \in Spans
  BY DEF Spans
<1> QED BY <1>1 DEF SpansMeet

(* De-duplication joins windows that meet to one window.                   *)
LEMMA WindowsJoined ==
  ASSUME NEW slices, Windows(slices),
         \A i, j \in 1..Len(slices) : First(slices[i]) <= Final(slices[j])
  PROVE  /\ dedupGeneration(slices).panic = FALSE
         /\ Consecutive(dedupGeneration(slices).slice.lines)
         /\ \E i, j \in 1..Len(slices) :
              /\ First(dedupGeneration(slices).slice) = First(slices[i])
              /\ Final(dedupGeneration(slices).slice) = Final(slices[j])
<1> DEFINE n == Len(slices)
           r == DedupLineSlices(slices)
           x == dedupGeneration(slices).slice
<1>1. PICK last \in 1..n : WindowsReleased(r, slices, last)
  BY WindowsPassed
<1>2. dedupGeneration(slices) = [slice |-> [lines |-> r.result \o r.last.lines,
                                            generation |-> r.last.generation],
                                 panic |-> r.panic]
  BY DEF dedupGeneration, MakeSliceFromLines
<1>3. \A i \in 1..n : Consecutive(slices[i].lines)
  BY DEF Windows
<1> HIDE DEF r
<1>4. x.lines = r.result \o r.last.lines /\ dedupGeneration(slices).panic = r.panic
  <2> DEFINE d == dedupGeneration(slices)
             lines == r.result \o r.last.lines
  <2> HIDE DEF d, lines
  <2>1. d = [slice |-> [lines |-> lines, generation |-> r.last.generation], panic |-> r.panic]
    BY <1>2 DEF d, lines
  <2>2. d.slice.lines = lines /\ d.panic = r.panic
    BY ONLY <2>1
  <2> QED BY <2>2 DEF d, lines
<1> HIDE DEF x
<1>5. \A i \in 1..n : First(slices[i]) \in Nat /\ Final(slices[i]) \in Nat
                      /\ First(slices[i]) <= Final(slices[i])
                      /\ ToSet(slices[i].lines) = First(slices[i])..Final(slices[i])
                      /\ Ordered(slices[i].lines) /\ slices[i].lines \in Seq(Nat)
  BY <1>3, ConsecutiveLines DEF First, Final, Consecutive
<1>6. NoGap(slices, last)
  <2>1. ASSUME NEW i \in 1..n PROVE First(slices[last]) <= Final(slices[i]) + 1
    BY <1>5
  <2> QED BY <2>1 DEF NoGap
<1>7. PICK i \in 1..n :
        /\ \A j \in 1..n : First(slices[i]) <= First(slices[j])
        /\ ToSet(r.result) = First(slices[i])..(First(slices[last]) - 1)
  BY <1>1, <1>6 DEF WindowsReleased
<1> DEFINE v == slices[last].lines
           lo == First(slices[i])
           mid == First(slices[last])
           hi == Final(slices[last])
<1>8. /\ r.last = slices[last] /\ r.panic = FALSE
      /\ r.result \in Seq(Nat) /\ Ordered(r.result)
      /\ ToSet(r.result) = lo..(mid - 1)
  BY <1>1, <1>7 DEF WindowsReleased
<1>9. /\ v \in Seq(Nat) /\ Ordered(v) /\ ToSet(v) = mid..hi
      /\ lo \in Nat /\ mid \in Nat /\ hi \in Nat /\ lo <= mid /\ mid <= hi
  BY <1>5, <1>7
<1>10. x.lines = r.result \o v
  BY <1>4, <1>8
<1> HIDE DEF v, lo, mid, hi
<1>11. \A j \in 1..Len(r.result), k \in 1..Len(v) : r.result[j] < v[k]
  <2> SUFFICES ASSUME NEW j \in 1..Len(r.result), NEW k \in 1..Len(v)
               PROVE  r.result[j] < v[k]
    OBVIOUS
  <2> DEFINE l == r.result[j]
             m == v[k]
  <2>1. l \in lo..(mid - 1) /\ m \in mid..hi
    BY <1>8, <1>9, Member
  <2>2. lo \in Nat /\ mid \in Nat /\ hi \in Nat
    BY <1>9
  <2> HIDE DEF l, m
  <2>3. l < m
    BY ONLY <2>1, <2>2
  <2> QED BY <2>3 DEF l, m
<1>12. /\ r.result \o v \in Seq(Nat) /\ Ordered(r.result \o v)
       /\ ToSet(r.result \o v) = lo..hi
  <2> DEFINE u == r.result
  <2>1. u \in Seq(Nat) /\ v \in Seq(Nat) /\ Ordered(u) /\ Ordered(v)
        /\ \A j \in 1..Len(u), k \in 1..Len(v) : u[j] < v[k]
    BY <1>8, <1>9, <1>11
  <2>2. ToSet(u) = lo..(mid - 1) /\ ToSet(v) = mid..hi
    BY <1>8, <1>9
  <2> HIDE DEF u
  <2>3. u \o v \in Seq(Nat) /\ ToSet(u \o v) = ToSet(u) \cup ToSet(v)
    BY ONLY <2>1, LinesJoined
  <2>4. lo..(mid - 1) \cup mid..hi = lo..hi
    BY <1>9
  <2>5. Ordered(u \o v)
    BY ONLY <2>1, OrderedJoined
  <2> QED BY <2>2, <2>3, <2>4, <2>5 DEF u
<1>13. /\ Consecutive(Window(lo, hi)) /\ Window(lo, hi)[1] = lo
       /\ Window(lo, hi)[Len(Window(lo, hi))] = hi
       /\ ToSet(Window(lo, hi)) = lo..hi
  <2>1. lo <= hi
    BY <1>9
  <2> QED BY <1>9, <2>1, WindowConsecutive, WindowLines
<1>14. Window(lo, hi) \in Seq(Nat) /\ Ordered(Window(lo, hi))
  BY <1>13, ConsecutiveLines DEF Consecutive
<1>15. x.lines = Window(lo, hi)
  BY <1>10, <1>12, <1>13, <1>14, OrderedUnique
<1>16. Consecutive(x.lines) /\ First(x) = lo /\ Final(x) = hi
  BY <1>13, <1>15 DEF First, Final
<1> QED BY <1>4, <1>8, <1>16 DEF lo, hi, x

\* A window of generation g whose ends are those of stored ones.
Spanned(x, g) ==
  /\ Consecutive(x.lines) /\ x.generation = g
  /\ \E y, z \in Stored : /\ y.generation = g /\ z.generation = g
                          /\ First(x) = First(y) /\ Final(x) = Final(z)

LEMMA GenerationJoined ==
  ASSUME LogTypes, StoredWindows, SpansMeet, NEW g \in DOMAIN store
  PROVE  OneOf(g).panic = FALSE /\ Spanned(OneOf(g).slice, g)
<1> DEFINE s == store[g]
           n == Len(s)
<1>1. /\ s \in Seq(SlicesOf(collected)) /\ s # <<>> /\ collected \in SUBSET Nat
      /\ \A i \in 1..n : s[i].generation = g
  BY DEF LogTypes, StoreTypes, StoredAs
<1>2. \A i \in 1..n : s[i] \in Stored /\ s[i].generation = g
  BY StoredSlices DEF LogTypes
<1>3. OneOf(g) = dedupGeneration(s)
  BY DEF OneOf
<1> HIDE DEF s
<1>4. s \in Seq(SlicesOf(Nat)) /\ n \in Nat
  BY <1>1, SlicesIn
<1>5. Windows(s)
  BY <1>1, <1>2, <1>4 DEF Windows, StoredWindows
<1>6. \A i, j \in 1..n : First(s[i]) <= Final(s[j])
  BY <1>2, StoredMeet
<1>7. dedupGeneration(s).slice.generation = g
  <2>1. Nat \in SUBSET Nat
    OBVIOUS
  <2> QED BY <1>1, <1>4, <2>1, GenerationSlice
<1> HIDE DEF n
<1>8. /\ dedupGeneration(s).panic = FALSE /\ Consecutive(dedupGeneration(s).slice.lines)
      /\ \E i, j \in 1..n : /\ First(dedupGeneration(s).slice) = First(s[i])
                            /\ Final(dedupGeneration(s).slice) = Final(s[j])
  BY <1>5, <1>6, WindowsJoined DEF n
<1>9. \E y, z \in Stored : /\ y.generation = g /\ z.generation = g
                           /\ First(dedupGeneration(s).slice) = First(y)
                           /\ Final(dedupGeneration(s).slice) = Final(z)
  BY <1>2, <1>8
<1> QED BY <1>3, <1>7, <1>8, <1>9 DEF Spanned

(* A flush of windows that meet goes without a panic, and keeps a window   *)
(* in place of those of its generation.                                    *)
LEMMA FlushesMeeting ==
  ASSUME LogTypes, StoredWindows, SpansMeet,
         NEW gens \in SUBSET (DOMAIN store), gens # {}, NEW r, r = FlushGenerations(gens)
  PROVE  r.panic = FALSE /\ Spanned(r.last, r.last.generation)
<1>1. /\ gens \in SUBSET Nat /\ IsFiniteSet(gens) /\ collected \in SUBSET Nat
      /\ \A g \in gens : StoredAs(g, collected)
  BY StoreFinite DEF LogTypes, StoreTypes
<1>2. PICK slices : FlushedAs(r, gens, slices, collected)
  BY <1>1, FlushIs
<1> DEFINE n == Len(slices)
           d == DedupLineSlices(slices)
<1>3. /\ slices \in Seq(SlicesOf(collected)) /\ slices # <<>>
      /\ \A k \in 1..n : \E g \in gens : slices[k] = OneOf(g).slice
      /\ r.last = d.last
      /\ (\A g \in gens : OneOf(g).panic = FALSE) /\ d.panic = FALSE => r.panic = FALSE
  BY <1>2 DEF FlushedAs
<1>4. \A g \in gens : OneOf(g).panic = FALSE /\ Spanned(OneOf(g).slice, g)
  BY GenerationJoined
<1>5. slices \in Seq(SlicesOf(Nat))
  <2>1. collected \in SUBSET Nat /\ slices \in Seq(SlicesOf(collected))
    BY <1>1, <1>3
  <2> QED BY ONLY <2>1, SlicesIn
<1>6. ASSUME NEW k \in 1..n PROVE Spanned(slices[k], slices[k].generation)
  <2>1. PICK g \in gens : slices[k] = OneOf(g).slice
    BY <1>3
  <2>2. Spanned(slices[k], g)
    BY <1>4, <2>1
  <2> QED BY <2>2 DEF Spanned
<1>7. Windows(slices)
  BY <1>3, <1>5, <1>6 DEF Windows, Spanned
<1> HIDE DEF n, d
<1>8. PICK last \in 1..n : WindowsReleased(d, slices, last)
  BY <1>7, WindowsPassed DEF n, d
<1>9. d.last = slices[last] /\ d.panic = FALSE
  BY <1>8 DEF WindowsReleased
<1> QED BY <1>3, <1>4, <1>6, <1>9

LEMMA SpanNumbers ==
  ASSUME LogTypes, StoredWindows
  PROVE  /\ \A a \in Spans : a[1] \in Nat /\ a[2] \in Nat /\ a[3] \in Nat /\ a[2] <= a[3]
         /\ lastGen \in Nat /\ lastTime \in Nat /\ now \in Nat /\ lastTime <= now
<1>1. lastGen \in Nat /\ lastTime \in Nat /\ now \in Nat /\ lastTime <= now
  BY DEF LogTypes
<1>2. \A p \in Following : /\ poll[p].generation \in Nat /\ poll[p].since \in Nat
                           /\ poll[p].start \in Nat /\ poll[p].since <= poll[p].start
  BY <1>1 DEF LogTypes, PollTimes, Following
<1>3. \A x \in Stored : /\ x.generation \in Nat /\ First(x) \in Nat
                        /\ Final(x) \in Nat /\ First(x) <= Final(x)
  BY StoredNumbers
<1> QED BY <1>1, <1>2, <1>3 DEF Spans

\* b is a span, or reaches as far to either side as spans of its generation.
Reaches(b) ==
  \E a, c \in Spans : a[1] = b[1] /\ c[1] = b[1] /\ b[2] <= a[2] /\ c[3] <= b[3]

(* Spans that reach at least as far as others meet what these meet.        *)
LEMMA SpansKept ==
  ASSUME SpansMeet, LogTypes, StoredWindows, UNCHANGED lastGen,
         \A b \in Spans' : b[2] \in Nat /\ b[3] \in Nat /\ Reaches(b)
  PROVE  SpansMeet'
<1>1. \A b \in Spans' : b[1] <= lastGen'
  BY DEF SpansMeet, Reaches
<1>2. ASSUME NEW b \in Spans', NEW e \in Spans', b[1] = e[1] PROVE b[2] <= e[3]
  <2>1. PICK a \in Spans : a[1] = b[1] /\ b[2] <= a[2]
    BY DEF Reaches
  <2>2. PICK c \in Spans : c[1] = e[1] /\ c[3] <= e[3]
    BY DEF Reaches
  <2>3. a[2] <= c[3]
    BY <1>2, <2>1, <2>2 DEF SpansMeet
  <2>4. a[2] \in Nat /\ c[3] \in Nat /\ b[2] \in Nat /\ e[3] \in Nat
    BY SpanNumbers
  <2> QED BY ONLY <2>1, <2>2, <2>3, <2>4
<1> QED BY <1>1, <1>2 DEF SpansMeet

\* A span is as good as itself.
LEMMA SpanReaches ==
  ASSUME LogTypes, StoredWindows, NEW b \in Spans
  PROVE  b[2] \in Nat /\ b[3] \in Nat /\ Reaches(b)
BY SpanNumbers DEF Reaches

(* The end of a poll that was the last to open its stream: a generation    *)
(* begins that nobody knows yet.                                           *)
LEMMA SpanAdded ==
  ASSUME LogTypes, StoredWindows, SpansMeet, lastGen' = lastGen + 1, lastTime' \in Nat,
         Spans' \subseteq Spans \cup {<<lastGen', lastTime', lastTime'>>}
  PROVE  SpansMeet'
<1>1. /\ \A a \in Spans : /\ a[1] \in Nat /\ a[2] \in Nat /\ a[3] \in Nat /\ a[2] <= a[3]
                          /\ a[1] < lastGen'
      /\ lastGen' \in Nat
  BY SpanNumbers DEF SpansMeet
<1>2. \A b \in Spans' : b \in Spans \/ (b[1] = lastGen' /\ b[2] = lastTime' /\ b[3] = lastTime')
  OBVIOUS
<1>3. \A b \in Spans' : b[1] <= lastGen'
  BY <1>1, <1>2
<1>4. ASSUME NEW a \in Spans', NEW b \in Spans', a[1] = b[1] PROVE a[2] <= b[3]
  <2>1. CASE a \in Spans /\ b \in Spans
    BY <1>4, <2>1 DEF SpansMeet
  <2>2. CASE ~(a \in Spans /\ b \in Spans)
    BY <1>1, <1>2, <1>4, <2>2
  <2> QED BY <2>1, <2>2
<1> QED BY <1>3, <1>4 DEF SpansMeet

LEMMA MeetHoldsInit == Init => MeetHolds
<1> SUFFICES ASSUME Init PROVE MeetHolds
  OBVIOUS
<1> USE DEF Init
<1>1. Stored = {}
  BY DEF Stored
<1>2. Following = {}
  <2>1. Idle.phase = "idle"
    BY DEF Idle
  <2> QED BY <2>1 DEF Following
<1>3. Spans = {<<0, 1, 1>>}
  BY <1>1, <1>2 DEF Spans
<1> QED BY <1>1, <1>3 DEF MeetHolds, SpansMeet, StoredWindows

LEMMA MeetHoldsStep ==
  ASSUME LogTypes, MeetHolds, [Next]_vars PROVE MeetHolds'
<1>0. LogTypes'
  BY LogTypesStep
<1> SUFFICES ASSUME ~cut' PROVE (SpansMeet /\ StoredWindows /\ ~panicked)'
  BY DEF MeetHolds
<1>1. ASSUME ~cut PROVE SpansMeet /\ StoredWindows /\ ~panicked
  BY <1>1 DEF MeetHolds
<1>2. ASSUME ~cut, FollowingKept, Stored' \subseteq Stored, UNCHANGED <<lastPoll, panicked>>
      PROVE  (SpansMeet /\ StoredWindows /\ ~panicked)'
  <2>1. Spans' \subseteq Spans
    BY <1>2 DEF Spans, FollowingKept, lastPoll
  <2>2. SpansMeet'
    BY <1>1, <1>2, <2>1 DEF SpansMeet, lastPoll
  <2> QED BY <1>1, <1>2, <2>2 DEF StoredWindows
<1>3. CASE Rests
  <2>1. UNCHANGED <<poll, store, lastPoll, panicked, cut>>
    BY <1>3 DEF Rests, genVars
  <2>2. FollowingKept /\ Stored' \subseteq Stored
    BY <2>1 DEF FollowingKept, Following, Stored
  <2> QED BY <1>2, <2>1, <2>2
<1>4. ASSUME NEW r, Flushing(r) PROVE (SpansMeet /\ StoredWindows /\ ~panicked)'
  <2>1. /\ UNCHANGED <<poll, lastTime, lastGen, cut>> /\ panicked' = (panicked \/ r.panic)
        /\ Selected \in SUBSET (DOMAIN store) /\ Selected # {} /\ r = FlushGenerations(Selected)
        /\ r.last \in SlicesOf(collected) /\ r.last.generation \in DOMAIN store
        /\ KeepsFrom(r.last) /\ collected' = collected
    BY <1>4 DEF Flushing, FlushTypes, Selected, lastPoll, history
  <2>2. SpansMeet /\ StoredWindows /\ ~panicked
    BY <1>1, <2>1
  <2>3. r.panic = FALSE /\ Spanned(r.last, r.last.generation)
    BY <2>1, <2>2, FlushesMeeting
  <2>4. Stored' = {y \in Stored : y.generation > r.last.generation} \cup {r.last}
    BY <2>1, StoreKept DEF LogTypes
  <2>5. StoredWindows'
    BY <2>2, <2>3, <2>4 DEF StoredWindows, Spanned
  <2>6. ~panicked'
    BY <2>1, <2>2, <2>3
  <2>7. PICK y \in Stored, z \in Stored :
          /\ y.generation = r.last.generation /\ z.generation = r.last.generation
          /\ First(r.last) = First(y) /\ Final(r.last) = Final(z)
    BY <2>3 DEF Spanned
  <2> DEFINE new == <<r.last.generation, First(r.last), Final(r.last)>>
  <2>8. Spans' \subseteq Spans \cup {new}
    BY <2>1, <2>4 DEF Spans, Following
  <2>9. new[2] \in Nat /\ new[3] \in Nat /\ Reaches(new)
    <3>1. /\ <<y.generation, First(y), Final(y)>> \in Spans
          /\ <<z.generation, First(z), Final(z)>> \in Spans
      BY DEF Spans
    <3>2. First(y) \in Nat /\ Final(z) \in Nat
      BY <2>2, StoredNumbers
    <3>3. Reaches(new)
      BY <2>7, <3>1, <3>2 DEF Reaches
    <3> QED BY <2>7, <3>2, <3>3
  <2> HIDE DEF new
  <2>10. \A b \in Spans' : b[2] \in Nat /\ b[3] \in Nat /\ Reaches(b)
    BY <2>2, <2>8, <2>9, SpanReaches
  <2>11. SpansMeet'
    BY <2>1, <2>2, <2>10, SpansKept
  <2> QED BY <2>5, <2>6, <2>11
<1>5. CASE FlushAll
  <2>1. /\ UNCHANGED <<poll, lastPoll, store, cut>>
        /\ \/ UNCHANGED panicked
           \/ \E r : FlushingAll(r)
    BY <1>5, FlushAllStep DEF history
  <2>2. SpansMeet /\ StoredWindows /\ ~panicked
    BY <1>1, <2>1
  <2>3. panicked' = panicked
    <3>1. ASSUME NEW r, FlushingAll(r) PROVE panicked' = panicked
      <4>1. /\ DOMAIN store # {} /\ r = FlushGenerations(DOMAIN store)
            /\ panicked' = (panicked \/ r.panic)
        BY <3>1 DEF FlushingAll, FlushTypes
      <4>2. r.panic = FALSE
        BY <2>2, <4>1, FlushesMeeting
      <4> QED BY <2>2, <4>1, <4>2 DEF LogTypes
    <3> QED BY <2>1, <3>1
  <2>4. FollowingKept /\ Stored' \subseteq Stored
    BY <2>1 DEF FollowingKept, Following, Stored
  <2> QED BY <1>2, <2>1, <2>3, <2>4
<1>6. ASSUME NEW p \in Polls, Leaves(p) PROVE (SpansMeet /\ StoredWindows /\ ~panicked)'
  <2>1. UNCHANGED <<lastPoll, panicked, cut>>
    BY <1>6 DEF Leaves, genVars
  <2> QED BY <1>2, <1>6, <2>1, LeavesKeeps
<1>7. ASSUME NEW p \in Polls, OpenStream(p) PROVE (SpansMeet /\ StoredWindows /\ ~panicked)'
  <2>1. /\ UNCHANGED <<lastTime, lastGen, store, panicked, cut>>
        /\ poll[p].phase = "requesting"
    BY <1>7 DEF OpenStream, lastPoll, genVars
  <2>2. SpansMeet /\ StoredWindows /\ ~panicked /\ Stored' = Stored
    BY <1>1, <2>1 DEF Stored
  <2> DEFINE new == <<lastGen, poll[p].since, now>>
  <2>3. /\ poll'[p].generation = lastGen /\ poll'[p].since = poll[p].since
        /\ poll'[p].start = now /\ \A q \in Polls \ {p} : poll'[q] = poll[q]
    BY <1>7 DEF OpenStream, LogTypes, PollState
  <2>4. Spans' \subseteq Spans \cup {new}
    <3>1. ASSUME NEW q \in Following'
          PROVE  <<poll'[q].generation, poll'[q].since, poll'[q].start>> \in Spans \cup {new}
      <4>1. CASE q = p
        BY <2>3, <4>1
      <4>2. CASE q # p
        <5>1. q \in Following /\ poll'[q] = poll[q]
          BY <2>3, <3>1, <4>2 DEF Following
        <5> QED BY <5>1 DEF Spans
      <4> QED BY <4>1, <4>2
    <3> HIDE DEF new
    <3> QED BY <2>1, <2>2, <3>1 DEF Spans
  <2>5. new[2] \in Nat /\ new[3] \in Nat /\ Reaches(new)
    <3>1. poll[p].since \in 1..lastTime
      BY <2>1 DEF LogTypes, PollTimes
    <3>2. lastTime \in Nat /\ now \in Nat /\ lastTime <= now
      BY <2>2, SpanNumbers
    <3>3. <<lastGen, lastTime, lastTime>> \in Spans
      BY DEF Spans
    <3> QED BY <3>1, <3>2, <3>3 DEF Reaches
  <2> HIDE DEF new
  <2>6. \A b \in Spans' : b[2] \in Nat /\ b[3] \in Nat /\ Reaches(b)
    BY <2>2, <2>4, <2>5, SpanReaches
  <2>7. SpansMeet'
    BY <2>1, <2>2, <2>6, SpansKept
  <2> QED BY <2>1, <2>2, <2>7 DEF StoredWindows
<1>8. ASSUME NEW p \in Polls, HandsOverAll(p) PROVE (SpansMeet /\ StoredWindows /\ ~panicked)'
  <2>1. HandsOver(p, End(p)) /\ cut' = cut
    BY <1>8 DEF HandsOverAll, End
  <2>2. UNCHANGED <<lastTime, lastGen, panicked>>
    BY <2>1 DEF HandsOver, AddSlice, lastPoll
  <2>3. SpansMeet /\ StoredWindows /\ ~panicked
    BY <1>1, <2>1
  <2>4. FollowingKept /\ p \in Following
    BY <2>1, HandsOverKeeps
  <2>5. PICK slice : /\ Stored' = Stored \cup {slice} /\ Consecutive(slice.lines)
                     /\ slice.generation = poll[p].generation
                     /\ First(slice) = poll[p].since /\ Final(slice) = End(p)
    BY <2>1, HandsOverKeeps
  <2> DEFINE new == <<slice.generation, First(slice), Final(slice)>>
  <2>6. Spans' \subseteq Spans \cup {new}
    BY <2>2, <2>4, <2>5 DEF Spans, FollowingKept
  <2>7. new[2] \in Nat /\ new[3] \in Nat /\ Reaches(new)
    <3> DEFINE old == <<poll[p].generation, poll[p].since, poll[p].start>>
    <3>1. old \in Spans
      BY <2>4 DEF Spans
    <3>2. poll[p].since \in Nat /\ poll[p].start \in Nat
      BY DEF LogTypes, PollState
    <3>3. End(p) \in Nat /\ poll[p].start <= End(p)
      BY <3>2, IntervalAssumption DEF End
    <3> QED BY <2>5, <3>1, <3>2, <3>3 DEF Reaches
  <2> HIDE DEF new
  <2>8. \A b \in Spans' : b[2] \in Nat /\ b[3] \in Nat /\ Reaches(b)
    BY <2>3, <2>6, <2>7, SpanReaches
  <2>9. SpansMeet'
    BY <2>2, <2>3, <2>8, SpansKept
  <2> QED BY <2>2, <2>3, <2>5, <2>9 DEF StoredWindows
<1>9. ASSUME NEW p \in Polls, HandsOverPart(p) PROVE (SpansMeet /\ StoredWindows /\ ~panicked)'
  BY <1>9 DEF HandsOverPart
<1>10. ASSUME NEW p \in Polls, Update(p) PROVE (SpansMeet /\ StoredWindows /\ ~panicked)'
  <2>1. UNCHANGED <<panicked, cut>>
    BY <1>10 DEF Update, genVars, history
  <2>2. FollowingKept /\ Stored' = Stored
    BY <1>10, LeavesKeeps
  <2>3. CASE UNCHANGED lastPoll
    BY <1>2, <2>1, <2>2, <2>3
  <2>4. CASE lastGen' = lastGen + 1
    <3>1. lastTime' \in Nat
      BY <1>0 DEF LogTypes
    <3>2. Spans' \subseteq Spans \cup {<<lastGen', lastTime', lastTime'>>}
      BY <2>2 DEF Spans, FollowingKept
    <3>3. SpansMeet'
      BY <1>1, <2>1, <2>4, <3>1, <3>2, SpanAdded
    <3> QED BY <1>1, <2>1, <2>2, <3>3 DEF StoredWindows
  <2>5. UNCHANGED lastPoll \/ lastGen' = lastGen + 1
    BY <1>10 DEF Update, lastPoll
  <2> QED BY <2>3, <2>4, <2>5
<1> QED BY <1>3, <1>4, <1>5, <1>6, <1>7, <1>8, <1>9, <1>10, Steps

-----------------------------------------------------------------------------
(* The log is written in order, and what is stored comes after it. *)

WrittenBefore == \A l \in ToSet(written), x \in Stored : l < First(x)

WrittenHolds ==
  ~late /\ ~overtaken =>
    /\ Ordered(written) /\ \A x \in Stored : oldest <= x.generation
    /\ ~flushed => WrittenBefore

LEMMA WrittenHoldsInit == Init => WrittenHolds
<1> SUFFICES ASSUME Init PROVE WrittenHolds
  OBVIOUS
<1>1. Stored = {} /\ written = <<>>
  BY DEF Init, Stored
<1> QED BY <1>1 DEF WrittenHolds, WrittenBefore, Ordered

\* What a flush releases, and what it keeps.
LEMMA ReleasedInOrder ==
  ASSUME LogTypes, WindowsHold, ~overtaken, NEW gens, NEW r, WindowsFlushed(r, gens),
         Ordered(written), WrittenBefore
  PROVE  /\ written \o r.result \in Seq(Nat) /\ Ordered(written \o r.result)
         /\ ToSet(written \o r.result) = ToSet(written) \cup ToSet(r.result)
         /\ \A l \in ToSet(written \o r.result) : l < First(r.last)
         /\ r.last \in Stored
<1>1. /\ r.last \in Stored /\ r.result \in Seq(Nat) /\ Ordered(r.result)
  BY DEF WindowsFlushed, KeepsLast
<1>2. PICK low \in Stored : \A l \in ToSet(r.result) : First(low) <= l /\ l < First(r.last)
  BY DEF WindowsFlushed, ReleasesFrom
<1>3. written \in Seq(Nat)
  <2>1. written \in Seq(collected) /\ collected \subseteq Nat
    BY DEF LogTypes, StoreTypes
  <2> QED BY <2>1, SeqMonotonic
<1>4. First(low) \in Nat
  BY <1>2, StoredNumbers DEF WindowsHold
<1>5. ASSUME NEW i \in 1..Len(written), NEW j \in 1..Len(r.result)
      PROVE  written[i] < r.result[j]
  <2>1. written[i] \in ToSet(written) /\ r.result[j] \in ToSet(r.result)
        /\ written[i] \in Nat /\ r.result[j] \in Nat
    BY <1>1, <1>3, Member
  <2>2. written[i] < First(low) /\ First(low) <= r.result[j]
    BY <1>2, <2>1 DEF WrittenBefore
  <2> QED BY <1>4, <2>1, <2>2
<1>6. Ordered(written \o r.result)
  BY <1>1, <1>3, <1>5, OrderedJoined
<1>7. ToSet(written \o r.result) = ToSet(written) \cup ToSet(r.result)
  BY <1>1, <1>3, LinesJoined
<1>8. written \o r.result \in Seq(Nat)
  BY <1>1, <1>3
<1>9. \A l \in ToSet(written \o r.result) : l < First(r.last)
  BY <1>1, <1>2, <1>7 DEF WrittenBefore
<1> QED BY <1>1, <1>6, <1>7, <1>8, <1>9

LEMMA FlushingWritten ==
  ASSUME LogTypes, WindowsHold, WrittenHolds, ~late, ~overtaken, NEW r, Flushing(r)
  PROVE  WrittenHolds' /\ (written' # written => oldest' > oldest)
<1>1. /\ ~flushed /\ written' = written \o r.result /\ oldest' = r.last.generation
      /\ UNCHANGED <<late, overtaken, flushed>>
  BY DEF Flushing
<1>2. /\ WindowsFlushed(r, Selected) /\ r.last \in Stored
      /\ Stored' = {y \in Stored : y.generation > r.last.generation} \cup {r.last}
  BY FlushingKeeps
<1>3. Ordered(written) /\ WrittenBefore /\ \A x \in Stored : oldest <= x.generation
  BY <1>1 DEF WrittenHolds
<1>4. Ordered(written') /\ \A l \in ToSet(written') : l < First(r.last)
  BY <1>1, <1>2, <1>3, ReleasedInOrder
<1>5. written' \in Seq(Nat) /\ ToSet(written') \subseteq Nat
  <2>1. written' \in Seq(Nat)
    BY <1>1, <1>2, <1>3, ReleasedInOrder
  <2> QED BY <2>1, LinesNat
<1>6. \A y \in Stored : y.generation \in Nat /\ First(y) \in Nat
  BY StoredNumbers DEF WindowsHold
<1>7. ASSUME NEW y \in Stored'
      PROVE  y \in Stored /\ oldest' <= y.generation /\ First(r.last) <= First(y)
  <2>1. y \in Stored
    BY <1>2
  <2>2. CASE y = r.last
    BY <1>1, <1>2, <1>6, <2>2
  <2>3. CASE y.generation > r.last.generation
    <3>1. First(r.last) < First(y)
      BY <1>2, <1>6, <2>1, <2>3, StoredInOrder DEF WindowsHold
    <3> QED BY <1>1, <1>2, <1>6, <2>1, <2>3, <3>1
  <2> QED BY <1>2, <2>1, <2>2, <2>3
<1>8. WrittenBefore'
  <2> SUFFICES ASSUME NEW l \in ToSet(written'), NEW y \in Stored' PROVE l < First(y)
    BY DEF WrittenBefore
  <2>1. /\ l < First(r.last) /\ First(r.last) <= First(y) /\ l \in Nat
        /\ First(r.last) \in Nat /\ First(y) \in Nat
    BY <1>2, <1>4, <1>5, <1>6, <1>7
  <2> QED BY ONLY <2>1
<1>9. WrittenHolds'
  BY <1>4, <1>7, <1>8 DEF WrittenHolds
<1>10. ASSUME written' # written PROVE oldest' > oldest
  <2>1. r.result # <<>>
    <3>1. written \in Seq(collected)
      BY DEF LogTypes
    <3>2. written \o <<>> = written
      BY <3>1
    <3> QED BY <1>1, <1>10, <3>2
  <2>2. r.result \in Seq(Nat)
    BY <1>2 DEF WindowsFlushed
  <2>3. r.result[1] \in ToSet(r.result) /\ r.result[1] \in Nat
    <3>1. 1 \in 1..Len(r.result)
      BY <2>1, <2>2, EmptySeq
    <3> QED BY <2>2, <3>1, Member
  <2>4. PICK low \in Stored : \A l \in ToSet(r.result) : First(low) <= l /\ l < First(r.last)
    BY <1>2 DEF WindowsFlushed, ReleasesFrom
  <2>5. First(low) < First(r.last)
    BY <1>2, <1>6, <2>3, <2>4
  <2>6. low.generation < r.last.generation
    BY <1>2, <2>4, <2>5, StoredInOrder DEF WindowsHold
  <2>7. oldest <= low.generation /\ oldest \in Nat
    BY <1>3, <2>4 DEF LogTypes
  <2> QED BY <1>1, <1>2, <1>6, <2>4, <2>6, <2>7
<1> QED BY <1>9, <1>10

LEMMA FlushAllWritten ==
  ASSUME LogTypes, WindowsHold, WrittenHolds, ~late, ~overtaken, FlushAll
  PROVE  WrittenHolds'
<1>1. /\ ~flushed /\ flushed' = TRUE /\ UNCHANGED <<store, oldest>>
      /\ written' = written \/ \E r : FlushingAll(r)
  BY FlushAllStep
<1>2. Ordered(written) /\ WrittenBefore /\ \A x \in Stored : oldest <= x.generation
  BY <1>1 DEF WrittenHolds
<1>3. Stored' = Stored
  BY <1>1 DEF Stored
<1>4. ASSUME NEW r, FlushingAll(r) PROVE Ordered(written')
  <2>1. WindowsFlushed(r, DOMAIN store)
    BY <1>4, FlushingAllKeeps
  <2> DEFINE u == written \o r.result
             v == r.last.lines
  <2>2. /\ u \in Seq(Nat) /\ Ordered(u) /\ r.last \in Stored
        /\ \A l \in ToSet(u) : l < First(r.last)
    BY <1>2, <2>1, ReleasedInOrder
  <2>3. v \in Seq(Nat) /\ Ordered(v) /\ ToSet(v) = First(r.last)..Final(r.last)
        /\ First(r.last) \in Nat
    <3>1. Consecutive(v)
      BY <2>2 DEF WindowsHold, StoredWindows
    <3> QED BY <2>2, <3>1, ConsecutiveLines, StoredNumbers DEF WindowsHold, Consecutive
  <2>4. written' = u \o v
    BY <1>4 DEF FlushingAll
  <2> HIDE DEF u, v
  <2>5. ASSUME NEW i \in 1..Len(u), NEW j \in 1..Len(v) PROVE u[i] < v[j]
    <3>1. u[i] \in ToSet(u) /\ u[i] \in Nat /\ v[j] \in ToSet(v) /\ v[j] \in Nat
      BY <2>2, <2>3, Member
    <3>2. u[i] < First(r.last) /\ First(r.last) <= v[j]
      BY <2>2, <2>3, <3>1
    <3> QED BY <2>3, <3>1, <3>2
  <2> QED BY <2>2, <2>3, <2>4, <2>5, OrderedJoined
<1>5. Ordered(written')
  BY <1>1, <1>2, <1>4
<1> QED BY <1>1, <1>2, <1>3, <1>5 DEF WrittenHolds

LEMMA HandedOverWritten ==
  ASSUME LogTypes, WindowsHold, WrittenHolds, ~late', ~overtaken',
         NEW p \in Polls, NEW last, HandsOver(p, last)
  PROVE  WrittenHolds'
<1>1. PICK slice : /\ Stored' = Stored \cup {slice}
                   /\ slice.generation = poll[p].generation /\ First(slice) = poll[p].since
                   /\ AddSlice(slice) /\ slice \in SlicesOf(Nat)
  BY HandsOverKeeps
<1>2. /\ UNCHANGED <<oldest, written, flushed>> /\ late' = (late \/ slice.generation < oldest)
      /\ overtaken' = overtaken
  BY <1>1 DEF AddSlice, HandsOver
<1>3. ~late /\ ~overtaken /\ ~(slice.generation < oldest)
  BY <1>2
<1>4. slice.generation \in Nat /\ oldest \in Nat
  BY <1>1 DEF SlicesOf, LogTypes
<1>5. oldest <= slice.generation
  BY <1>3, <1>4
<1>6. ASSUME ~flushed, NEW l \in ToSet(written) PROVE l < First(slice)
  <2>1. l \in Nat
    BY LinesNat, SeqMonotonic DEF LogTypes, StoreTypes
  <2>2. oldest \in DOMAIN store
    <3>1. ASSUME NothingYet PROVE FALSE
      BY <1>6, <3>1 DEF NothingYet, ToSet
    <3> QED BY <3>1 DEF LogTypes
  <2>3. PICK x \in Stored : x.generation = oldest
    BY <2>2, StoredSlices DEF LogTypes
  <2>4. l < First(x)
    BY <1>3, <1>6, <2>3 DEF WrittenHolds, WrittenBefore
  <2>5. <<x.generation, First(x)>> \in Readings
        /\ <<slice.generation, First(slice)>> \in Readings
    BY <1>1, <2>3, HandsOverKeeps DEF Readings
  <2>6. ~(First(slice) < First(x))
    BY <1>3, <2>3, <2>5 DEF WindowsHold, ReadingsInOrder
  <2>7. First(slice) \in Nat /\ First(x) \in Nat
    BY <1>3, <2>5, ReadingNumbers DEF WindowsHold
  <2> QED BY <2>1, <2>4, <2>6, <2>7
<1> QED BY <1>1, <1>2, <1>3, <1>5, <1>6 DEF WrittenHolds, WrittenBefore

LEMMA WrittenHoldsStep ==
  ASSUME LogTypes, WindowsHold, WrittenHolds, [Next]_vars PROVE WrittenHolds'
<1> SUFFICES ASSUME ~late', ~overtaken' PROVE WrittenHolds'
  BY DEF WrittenHolds
<1>1. ASSUME UNCHANGED <<store, written, late, oldest, flushed>>, ~overtaken PROVE WrittenHolds'
  <2>1. Stored' = Stored
    BY <1>1 DEF Stored
  <2> QED BY <1>1, <2>1 DEF WrittenHolds, WrittenBefore
<1>2. CASE Rests \/ \E p \in Polls : Leaves(p) \/ OpenStream(p) \/ Update(p)
  <2>1. UNCHANGED <<store, written, late, oldest, flushed>>
    BY <1>2 DEF Rests, Leaves, OpenStream, Update
  <2>2. CASE \E p \in Polls : OpenStream(p)
    BY <1>1, <2>1, <2>2 DEF OpenStream
  <2>3. CASE Rests \/ \E p \in Polls : Leaves(p) \/ Update(p)
    <3>1. overtaken' = overtaken
      BY <2>3 DEF Rests, Leaves, Update
    <3> QED BY <1>1, <2>1, <3>1
  <2> QED BY <1>2, <2>2, <2>3
<1>3. ASSUME NEW r, Flushing(r) PROVE WrittenHolds'
  <2>1. ~late /\ ~overtaken
    BY <1>3 DEF Flushing
  <2> QED BY <1>3, <2>1, FlushingWritten
<1>4. CASE FlushAll
  <2>1. ~late /\ ~overtaken
    BY <1>4, FlushAllStep
  <2> QED BY <1>4, <2>1, FlushAllWritten
<1>5. ASSUME NEW p \in Polls, HandsOverAll(p) \/ HandsOverPart(p) PROVE WrittenHolds'
  <2>1. PICK last : HandsOver(p, last)
    BY <1>5 DEF HandsOverAll, HandsOverPart
  <2> QED BY <2>1, HandedOverWritten
<1> QED BY <1>2, <1>3, <1>4, <1>5, Steps

LEMMA StepAdvances ==
  ASSUME LogTypes, WindowsHold, WrittenHolds, [Next]_vars,
         written' # written, ~flushed', ~late, ~overtaken
  PROVE  oldest' > oldest
<1>1. PICK r : Flushing(r)
  <2>1. ~Rests /\ \A p \in Polls : ~Leaves(p) /\ ~OpenStream(p) /\ ~Update(p)
    BY DEF Rests, Leaves, OpenStream, Update
  <2>2. ~FlushAll
    BY FlushAllStep
  <2>3. ASSUME NEW p \in Polls, HandsOverAll(p) \/ HandsOverPart(p) PROVE FALSE
    <3>1. PICK last : HandsOver(p, last)
      BY <2>3 DEF HandsOverAll, HandsOverPart
    <3>2. written' = written
      BY <3>1 DEF HandsOver, AddSlice
    <3> QED BY <3>2
  <2> QED BY <2>1, <2>2, <2>3, Steps
<1> QED BY <1>1, FlushingWritten

-----------------------------------------------------------------------------
(* Nothing is missing. *)

\* How far the windows reach.
Ends ==
  {<<poll[p].generation, End(p)>> : p \in Following}
  \cup {<<x.generation, Final(x)>> : x \in Stored}

EndsInOrder ==
  /\ \A a \in Ends : a[1] <= lastGen /\ a[2] <= now + PollInterval + 1
  /\ \A a, b \in Ends : a[1] < b[1] => a[2] <= b[2]

\* What a poll that ends has handed over is in the store.
Delivered ==
  \A p \in Polls : poll[p].phase = "updating" =>
    \E x \in Stored : poll[p].generation <= x.generation /\ End(p) <= Final(x)

ReachHolds == ~overtaken /\ ~cut => EndsInOrder /\ Delivered

\* A stored slice of a generation from a[1] on reaches to reading b.
Reached(a, b) ==
  \/ b[2] <= a[2] + 1
  \/ \E x \in Stored : a[1] <= x.generation /\ x.generation < b[1] /\ b[2] <= Final(x) + 1

Covered ==
  \A a \in Ends, b \in Readings : oldest <= a[1] /\ a[1] < b[1] => Reached(a, b)

\* No line is lost: it is written, or in a slice in the store.
Held ==
  \A l \in collected : l \in ToSet(written) \/ \E x \in Stored : l \in ToSet(x.lines)

CoverHolds ==
  ~late /\ ~overtaken /\ ~cut =>
    Covered /\ IF flushed THEN collected \subseteq ToSet(written) ELSE Held

LEMMA EndNumbers ==
  ASSUME LogTypes, StoredWindows
  PROVE  /\ \A a \in Ends : a[1] \in Nat /\ a[2] \in Nat
         /\ \A p \in Following : /\ End(p) \in Nat /\ poll[p].start \in Nat
                                  /\ poll[p].generation \in 0..lastGen
                                  /\ poll[p].start <= now /\ poll[p].start <= End(p)
         /\ now \in Nat /\ PollInterval \in Nat /\ lastGen \in Nat
<1>1. now \in Nat /\ PollInterval \in Nat /\ lastGen \in Nat
  BY IntervalAssumption DEF LogTypes
<1>2. ASSUME NEW p \in Following
      PROVE  /\ End(p) \in Nat /\ poll[p].start \in Nat
             /\ poll[p].generation \in 0..lastGen
             /\ poll[p].start <= now /\ poll[p].start <= End(p)
  <2>1. poll[p].start \in poll[p].since..now /\ poll[p].generation \in 0..lastGen
        /\ poll[p].since \in Nat /\ poll[p].start \in Nat
    BY DEF LogTypes, PollTimes, Following, PollState
  <2> QED BY <1>1, <2>1 DEF End
<1>3. \A x \in Stored : x.generation \in Nat /\ Final(x) \in Nat
  BY StoredNumbers
<1>4. \A a \in Ends : a[1] \in Nat /\ a[2] \in Nat
  BY <1>1, <1>2, <1>3 DEF Ends
<1> QED BY <1>1, <1>2, <1>4

LEMMA ReachInit == Init => ReachHolds /\ CoverHolds
<1> SUFFICES ASSUME Init PROVE ReachHolds /\ CoverHolds
  OBVIOUS
<1> USE DEF Init
<1>1. Stored = {}
  BY DEF Stored
<1>2. Following = {} /\ \A p \in Polls : poll[p].phase # "updating"
  <2>1. Idle.phase = "idle"
    BY DEF Idle
  <2> QED BY <2>1 DEF Following
<1>3. Ends = {}
  BY <1>1, <1>2 DEF Ends
<1> QED BY <1>2, <1>3 DEF ReachHolds, EndsInOrder, Delivered, CoverHolds, Covered, Held

(* Of two stored slices, the one of a later generation reaches as far.     *)
LEMMA StoredReach ==
  ASSUME EndsInOrder, NEW x \in Stored, NEW y \in Stored, x.generation < y.generation
  PROVE  Final(x) <= Final(y)
<1>1. <<x.generation, Final(x)>> \in Ends /\ <<y.generation, Final(y)>> \in Ends
  BY DEF Ends
<1> QED BY <1>1 DEF EndsInOrder

LEMMA EndsKept ==
  ASSUME LogTypes, LogTypes', StoredWindows, EndsInOrder, Ends' \subseteq Ends,
         now <= now', lastGen <= lastGen'
  PROVE  EndsInOrder'
<1>1. \A a \in Ends' : a[1] \in Nat /\ a[2] \in Nat /\ a[1] <= lastGen
                       /\ a[2] <= now + PollInterval + 1
  BY EndNumbers DEF EndsInOrder
<1>2. now' \in Nat /\ lastGen' \in Nat /\ now \in Nat /\ lastGen \in Nat /\ PollInterval \in Nat
  BY IntervalAssumption DEF LogTypes
<1>3. \A a \in Ends' : a[1] <= lastGen' /\ a[2] <= now' + PollInterval + 1
  BY <1>1, <1>2
<1> QED BY <1>3 DEF EndsInOrder

LEMMA FollowingEnds ==
  ASSUME FollowingKept, Stored' \subseteq Stored PROVE Ends' \subseteq Ends
BY DEF FollowingKept, Ends, End

LEMMA FlushingReach ==
  ASSUME LogTypes, LogTypes', WindowsHold, ReachHolds, ~overtaken, ~cut, NEW r, Flushing(r)
  PROVE  ReachHolds'
<1>1. UNCHANGED <<poll, lastGen, now, overtaken, cut>>
  BY DEF Flushing
<1>2. /\ KeepsLast(r, Selected) /\ r.last \in Stored
      /\ Stored' = {y \in Stored : y.generation > r.last.generation} \cup {r.last}
  BY FlushingKeeps DEF WindowsFlushed
<1>3. EndsInOrder /\ Delivered
  BY DEF ReachHolds
<1>4. FollowingKept /\ Stored' \subseteq Stored
  BY <1>1, <1>2 DEF FollowingKept, Following
<1>5. now <= now' /\ lastGen <= lastGen'
  BY <1>1 DEF LogTypes
<1>6. EndsInOrder'
  BY <1>3, <1>4, <1>5, FollowingEnds, EndsKept DEF WindowsHold
<1>7. Delivered'
  <2> SUFFICES ASSUME NEW p \in Polls, poll'[p].phase = "updating"
               PROVE  \E x \in Stored' : poll'[p].generation <= x.generation
                                         /\ End(p)' <= Final(x)
    BY DEF Delivered
  <2>1. poll[p].phase = "updating" /\ poll'[p] = poll[p] /\ End(p)' = End(p)
    BY <1>1 DEF End
  <2>2. PICK x \in Stored : poll[p].generation <= x.generation /\ End(p) <= Final(x)
    BY <1>3, <2>1 DEF Delivered
  <2>3. p \in Following
    BY <2>1 DEF Following
  <2>4. /\ poll[p].generation \in Nat /\ End(p) \in Nat
        /\ x.generation \in Nat /\ Final(x) \in Nat
        /\ r.last.generation \in Nat /\ Final(r.last) \in Nat
    BY <1>2, <2>3, EndNumbers, StoredNumbers DEF WindowsHold
  <2>5. CASE x.generation > r.last.generation
    BY <1>2, <2>1, <2>2, <2>5
  <2>6. CASE ~(x.generation > r.last.generation)
    <3>1. Final(x) <= Final(r.last)
      <4>1. CASE x.generation = r.last.generation
        BY <1>2, <4>1 DEF KeepsLast
      <4>2. CASE x.generation < r.last.generation
        BY <1>2, <1>3, <4>2, StoredReach
      <4> QED BY <2>4, <2>6, <4>1, <4>2
    <3>2. poll[p].generation <= r.last.generation /\ End(p) <= Final(r.last)
      BY ONLY <2>2, <2>4, <2>6, <3>1
    <3>3. r.last \in Stored'
      BY <1>2
    <3> QED BY <2>1, <3>2, <3>3
  <2> QED BY <2>5, <2>6
<1> QED BY <1>6, <1>7 DEF ReachHolds

LEMMA OpenStreamReach ==
  ASSUME LogTypes, LogTypes', WindowsHold, ReachHolds, ~overtaken', ~cut',
         NEW p \in Polls, OpenStream(p)
  PROVE  ReachHolds' /\ Ends' \subseteq Ends \cup {<<lastGen, now + PollInterval + 1>>}
<1>1. /\ ~overtaken /\ Stored' = Stored /\ UNCHANGED lastPoll
      /\ poll'[p].phase = "streaming" /\ poll'[p].generation = lastGen
      /\ poll'[p].start = now
      /\ \A q \in Polls \ {p} : poll'[q] = poll[q]
  BY OpenStreamKeeps
<1>2. UNCHANGED <<now, cut>> /\ ~cut
  BY DEF OpenStream
<1>3. EndsInOrder /\ Delivered /\ StoredWindows
  BY <1>1, <1>2 DEF ReachHolds, WindowsHold
<1> DEFINE new == <<lastGen, now + PollInterval + 1>>
<1>4. Ends' \subseteq Ends \cup {new}
  <2>1. \A q \in Following' : <<poll'[q].generation, End(q)'>> \in Ends \cup {new}
    <3> SUFFICES ASSUME NEW q \in Following'
                 PROVE  <<poll'[q].generation, End(q)'>> \in Ends \cup {new}
      OBVIOUS
    <3>1. CASE q = p
      BY <1>1, <3>1 DEF End
    <3>2. CASE q # p
      BY <1>1, <3>2 DEF End, Ends, Following
    <3> QED BY <3>1, <3>2
  <2> HIDE DEF new
  <2> QED BY <1>1, <2>1 DEF Ends
<1>5. \A a \in Ends : a[1] <= new[1] /\ a[2] <= new[2] /\ a[1] \in Nat /\ a[2] \in Nat
  BY <1>3, EndNumbers DEF EndsInOrder
<1>6. new[1] = lastGen /\ new[2] = now + PollInterval + 1 /\ new[1] \in Nat /\ new[2] \in Nat
  BY <1>3, EndNumbers
<1> HIDE DEF new
<1>7. EndsInOrder'
  <2>1. \A a \in Ends' : a[1] <= lastGen' /\ a[2] <= now' + PollInterval + 1
    BY <1>1, <1>2, <1>4, <1>5, <1>6
  <2>2. ASSUME NEW a \in Ends', NEW b \in Ends', a[1] < b[1] PROVE a[2] <= b[2]
    <3>1. CASE a \in Ends /\ b \in Ends
      BY <1>3, <2>2, <3>1 DEF EndsInOrder
    <3>2. CASE ~(a \in Ends /\ b \in Ends)
      BY <1>4, <1>5, <1>6, <2>2, <3>2
    <3> QED BY <3>1, <3>2
  <2> QED BY <2>1, <2>2 DEF EndsInOrder
<1>8. Delivered'
  BY <1>1, <1>3 DEF Delivered, End
<1> QED BY <1>4, <1>7, <1>8 DEF ReachHolds, new

LEMMA HandsOverReach ==
  ASSUME LogTypes, LogTypes', WindowsHold, ReachHolds, ~overtaken', ~cut',
         NEW p \in Polls, HandsOverAll(p)
  PROVE  ReachHolds' /\ Ends' \subseteq Ends
<1>1. HandsOver(p, End(p)) /\ cut' = cut
  BY DEF HandsOverAll, End
<1>2. /\ FollowingKept /\ p \in Following
      /\ \E slice : /\ Stored' = Stored \cup {slice}
                    /\ slice.generation = poll[p].generation /\ Final(slice) = End(p)
  BY <1>1, HandsOverKeeps
<1>3. PICK slice : /\ Stored' = Stored \cup {slice}
                   /\ slice.generation = poll[p].generation /\ Final(slice) = End(p)
  BY <1>2
<1>4. UNCHANGED <<now, lastPoll, overtaken>> /\ poll' = [poll EXCEPT ![p].phase = "updating"]
  BY <1>1 DEF HandsOver
<1>5. EndsInOrder /\ Delivered /\ StoredWindows
  BY <1>1, <1>4 DEF ReachHolds, WindowsHold
<1>6. Ends' \subseteq Ends
  BY <1>2, <1>3 DEF Ends, End, FollowingKept
<1>7. now <= now' /\ lastGen <= lastGen'
  BY <1>4 DEF LogTypes
<1>8. EndsInOrder'
  BY <1>5, <1>6, <1>7, EndsKept
<1>9. Delivered'
  <2> SUFFICES ASSUME NEW q \in Polls, poll'[q].phase = "updating"
               PROVE  \E x \in Stored' : poll'[q].generation <= x.generation
                                         /\ End(q)' <= Final(x)
    BY DEF Delivered
  <2>1. poll'[q].generation = poll[q].generation /\ End(q)' = End(q)
    <3>1. q \in Following'
      BY DEF Following
    <3> QED BY <1>2, <3>1 DEF FollowingKept, End
  <2>2. CASE q = p
    <3>1. poll[p].generation <= slice.generation /\ End(p) <= Final(slice)
      BY <1>2, <1>3, <1>5, EndNumbers
    <3> QED BY <1>3, <2>1, <2>2, <3>1
  <2>3. CASE q # p
    <3>1. poll[q].phase = "updating"
      BY <1>4, <2>3 DEF LogTypes
    <3>2. PICK x \in Stored : poll[q].generation <= x.generation /\ End(q) <= Final(x)
      BY <1>5, <3>1 DEF Delivered
    <3> QED BY <1>3, <2>1, <3>2
  <2> QED BY <2>2, <2>3
<1> QED BY <1>6, <1>8, <1>9 DEF ReachHolds

LEMMA ReachStep ==
  ASSUME LogTypes, WindowsHold, ReachHolds, [Next]_vars PROVE ReachHolds'
<1>0. LogTypes'
  BY LogTypesStep
<1> SUFFICES ASSUME ~overtaken', ~cut' PROVE ReachHolds'
  BY DEF ReachHolds
<1>1. ASSUME ~overtaken, ~cut, FollowingKept, Stored' = Stored, now <= now', lastGen <= lastGen',
             \A p \in Polls : poll'[p].phase = "updating" => poll[p].phase = "updating"
      PROVE  ReachHolds'
  <2>1. EndsInOrder /\ Delivered /\ StoredWindows
    BY <1>1 DEF ReachHolds, WindowsHold
  <2>2. EndsInOrder'
    BY <1>0, <1>1, <2>1, FollowingEnds, EndsKept
  <2>3. ASSUME NEW p \in Polls, poll'[p].phase = "updating"
        PROVE  \E x \in Stored' : poll'[p].generation <= x.generation /\ End(p)' <= Final(x)
    <3>1. p \in Following' /\ poll[p].phase = "updating"
      BY <1>1, <2>3 DEF Following
    <3>2. poll'[p].generation = poll[p].generation /\ End(p)' = End(p)
      BY <1>1, <3>1 DEF FollowingKept, End
    <3> QED BY <1>1, <2>1, <3>1, <3>2 DEF Delivered
  <2> QED BY <2>2, <2>3 DEF ReachHolds, Delivered
<1>2. now \in Nat /\ lastGen \in Nat
  BY DEF LogTypes
<1>3. CASE Rests \/ FlushAll
  <2>1. UNCHANGED <<poll, store, lastPoll, overtaken, cut>> /\ now <= now'
    <3>1. CASE Rests
      BY <1>2, <3>1 DEF Rests
    <3>2. CASE FlushAll
      BY <1>2, <3>2, FlushAllStep
    <3> QED BY <1>3, <3>1, <3>2
  <2>2. FollowingKept /\ Stored' = Stored
    BY <2>1 DEF FollowingKept, Following, Stored
  <2> QED BY <1>1, <1>2, <2>1, <2>2
<1>4. ASSUME NEW p \in Polls, Leaves(p) \/ Update(p) PROVE ReachHolds'
  <2>1. FollowingKept /\ Stored' = Stored
    BY <1>4, LeavesKeeps
  <2>2. UNCHANGED <<now, overtaken, cut>> /\ lastGen' \in {lastGen, lastGen + 1}
    BY <1>4 DEF Leaves, Update
  <2>3. \A q \in Polls : poll'[q].phase = "updating" => poll[q].phase = "updating"
    <3>1. Idle \in PollState /\ Idle.phase = "idle"
      BY DEF Idle, PollState, Phases
    <3>2. PICK to \in PollState : to.phase \in {"idle", "looking", "requesting"}
                                  /\ poll' = [poll EXCEPT ![p] = to]
      BY <1>4, <3>1 DEF Leaves, Update
    <3> QED BY <3>2 DEF LogTypes
  <2> QED BY <1>1, <1>2, <2>1, <2>2, <2>3
<1>5. ASSUME NEW p \in Polls, OpenStream(p) PROVE ReachHolds'
  BY <1>0, <1>5, OpenStreamReach
<1>6. ASSUME NEW p \in Polls, HandsOverAll(p) PROVE ReachHolds'
  BY <1>0, <1>6, HandsOverReach
<1>7. ASSUME NEW p \in Polls, HandsOverPart(p) PROVE ReachHolds'
  BY <1>7 DEF HandsOverPart
<1>8. ASSUME NEW r, Flushing(r) PROVE ReachHolds'
  <2>1. ~overtaken /\ ~cut
    BY <1>8 DEF Flushing
  <2> QED BY <1>0, <1>8, <2>1, FlushingReach
<1> QED BY <1>3, <1>4, <1>5, <1>6, <1>7, <1>8, Steps

\* gens are all stored generations up to one of them.
Early(gens) ==
  gens \subseteq DOMAIN store /\ \A g \in DOMAIN store, h \in gens : g <= h => g \in gens

LEMMA SelectedEarly ==
  ASSUME LogTypes PROVE Early(Selected) /\ Early(DOMAIN store)
<1>1. oldest \in Nat /\ DOMAIN store \subseteq Nat /\ KeepGenerations \in Nat
  BY PollsAssumption DEF LogTypes
<1> QED BY <1>1 DEF Early, Selected

LEMMA EarlyReachOn ==
  ASSUME LogTypes, WindowsHold, ~overtaken, Covered, NEW gens, Early(gens),
         \A x \in Stored : oldest <= x.generation
  PROVE  ReachOn(gens)
<1> SUFFICES ASSUME NEW g \in gens, NEW h \in gens, g < h
             PROVE  \E x, y \in Stored :
                      /\ x.generation = g /\ y.generation \in gens /\ g < y.generation
                      /\ First(y) <= Final(x) + 1
  BY DEF ReachOn
<1>1. gens \in SUBSET Nat /\ gens \subseteq DOMAIN store
  BY DEF Early, LogTypes, StoreTypes
<1> DEFINE later == {k \in gens : g < k}
<1>2. later \in SUBSET Nat /\ later # {}
  BY <1>1
<1>3. PICK next \in later : \A k \in later : next <= k
  <2> HIDE DEF later
  <2> QED BY <1>2, LeastOf
<1>4. next \in gens /\ g < next /\ \A k \in gens : g < k => next <= k
  BY <1>3
<1> HIDE DEF later
<1>5. PICK x \in Stored : x.generation = g
  BY <1>1, StoredSlices DEF LogTypes
<1>6. PICK y \in Stored : y.generation = next
  BY <1>1, <1>4, StoredSlices DEF LogTypes
<1> DEFINE a == <<x.generation, Final(x)>>
           b == <<y.generation, First(y)>>
<1>7. a \in Ends /\ b \in Readings /\ a[1] = g /\ a[2] = Final(x) /\ b[1] = next /\ b[2] = First(y)
  BY <1>5, <1>6 DEF Ends, Readings
<1> HIDE DEF a, b
<1>8. oldest <= a[1] /\ a[1] < b[1]
  BY <1>4, <1>5, <1>7
<1>9. Reached(a, b)
  BY <1>7, <1>8 DEF Covered
<1>10. CASE b[2] <= a[2] + 1
  BY <1>4, <1>5, <1>6, <1>7, <1>10
<1>11. CASE \E z \in Stored :
              a[1] <= z.generation /\ z.generation < b[1] /\ b[2] <= Final(z) + 1
  <2>1. PICK z \in Stored :
          a[1] <= z.generation /\ z.generation < b[1] /\ b[2] <= Final(z) + 1
    BY <1>11
  <2>2. z.generation \in DOMAIN store /\ z.generation \in Nat /\ next \in Nat /\ g \in Nat
    BY <1>1, <1>4, StoredNumbers DEF WindowsHold
  <2>3. z.generation \in gens
    <3>1. z.generation <= next
      BY <1>7, <2>1, <2>2
    <3> QED BY <1>4, <2>2, <3>1 DEF Early
  <2>4. z.generation = g
    BY <1>4, <1>7, <2>1, <2>2, <2>3
  <2> QED BY <1>4, <1>6, <1>7, <2>1, <2>4
<1> QED BY <1>9, <1>10, <1>11 DEF Reached

(* A flush drops no line: the lines of the slices that it takes are        *)
(* released, or are in the slice that it keeps.                            *)
LEMMA NothingDropped ==
  ASSUME LogTypes, WindowsHold, ~overtaken, EndsInOrder, NEW gens, ReachOn(gens),
         NEW r, WindowsFlushed(r, gens),
         NEW x \in Stored, x.generation \in gens, NEW l \in ToSet(x.lines)
  PROVE  l \in ToSet(r.result) \/ l \in ToSet(r.last.lines)
<1>1. KeepsLast(r, gens)
  BY DEF WindowsFlushed
<1>2. PICK low : ReleasesFrom(r, gens, low)
  BY DEF WindowsFlushed
<1>3. /\ r.last \in Stored /\ x.generation <= r.last.generation
      /\ x.generation = r.last.generation => Final(x) <= Final(r.last)
  BY <1>1 DEF KeepsLast
<1>4. /\ low \in Stored /\ low.generation <= x.generation
      /\ ToSet(r.result) = First(low)..(First(r.last) - 1)
  BY <1>2 DEF ReleasesFrom
<1>5. /\ x.generation \in Nat /\ First(x) \in Nat /\ Final(x) \in Nat
      /\ ToSet(x.lines) = First(x)..Final(x)
      /\ r.last.generation \in Nat /\ First(r.last) \in Nat /\ Final(r.last) \in Nat
      /\ ToSet(r.last.lines) = First(r.last)..Final(r.last)
      /\ low.generation \in Nat /\ First(low) \in Nat
  BY <1>3, <1>4, StoredNumbers DEF WindowsHold
<1>6. Final(x) <= Final(r.last)
  <2>1. CASE x.generation < r.last.generation
    BY <1>3, <2>1, StoredReach
  <2> QED BY <1>3, <1>5, <2>1
<1>7. First(low) <= First(x)
  <2>1. ~(First(x) < First(low))
    <3>1. ~(x.generation < low.generation)
      BY <1>4, <1>5
    <3> QED BY <1>4, <3>1, StoredInOrder DEF WindowsHold
  <2> QED BY <1>5, <2>1
<1>8. l \in First(x)..Final(x)
  BY <1>5
<1> QED BY <1>4, <1>5, <1>6, <1>7, <1>8

LEMMA CoveredKept ==
  ASSUME Covered, Ends' \subseteq Ends, Readings' \subseteq Readings,
         Stored \subseteq Stored', oldest' = oldest
  PROVE  Covered'
<1> SUFFICES ASSUME NEW a \in Ends', NEW b \in Readings', oldest' <= a[1], a[1] < b[1]
             PROVE  Reached(a, b)'
  BY DEF Covered
<1>1. Reached(a, b)
  BY DEF Covered
<1> QED BY <1>1 DEF Reached

LEMMA FollowingReadings ==
  ASSUME FollowingKept, Stored' \subseteq Stored, UNCHANGED lastPoll
  PROVE  Readings' \subseteq Readings
BY DEF FollowingKept, Readings

LEMMA UpdateCovers ==
  ASSUME LogTypes, WindowsHold, ReachHolds, ~overtaken, ~cut, Covered, NEW p \in Polls, Update(p)
  PROVE  Covered'
<1>1. FollowingKept /\ Stored' = Stored
  BY LeavesKeeps
<1>2. oldest' = oldest /\ poll[p].phase = "updating"
  BY DEF Update
<1>3. Ends' \subseteq Ends
  BY <1>1, FollowingEnds
<1>4. CASE UNCHANGED lastPoll
  BY <1>1, <1>2, <1>3, <1>4, CoveredKept, FollowingReadings
<1>5. CASE lastGen' = lastGen + 1 /\ lastTime' = poll[p].start
  <2>1. Readings' \subseteq Readings \cup {<<lastGen + 1, poll[p].start>>}
    BY <1>1, <1>5 DEF Readings, FollowingKept
  <2>2. EndsInOrder /\ Delivered /\ StoredWindows
    BY DEF ReachHolds, WindowsHold
  <2>3. PICK x \in Stored : poll[p].generation <= x.generation /\ End(p) <= Final(x)
    BY <1>2, <2>2 DEF Delivered
  <2>4. <<x.generation, Final(x)>> \in Ends
    BY DEF Ends
  <2>5. /\ poll[p].start \in Nat /\ End(p) \in Nat /\ poll[p].start <= End(p) /\ lastGen \in Nat
        /\ x.generation \in Nat /\ Final(x) \in Nat
    <3>1. p \in Following
      BY <1>2 DEF Following
    <3> QED BY <2>2, <3>1, EndNumbers, StoredNumbers
  <2>6. x.generation <= lastGen
    BY <2>2, <2>4 DEF EndsInOrder
  <2> SUFFICES ASSUME NEW a \in Ends', NEW b \in Readings', oldest' <= a[1], a[1] < b[1]
               PROVE  Reached(a, b)'
    BY DEF Covered
  <2>7. a \in Ends /\ a[1] \in Nat /\ a[2] \in Nat
    BY <1>3, <2>2, EndNumbers
  <2>8. CASE b \in Readings
    <3>1. Reached(a, b)
      BY <1>2, <2>7, <2>8 DEF Covered
    <3> QED BY <1>1, <3>1 DEF Reached
  <2>9. CASE b[1] = lastGen + 1 /\ b[2] = poll[p].start
    <3>1. CASE a[1] <= x.generation
      <4>1. x.generation < b[1] /\ b[2] <= Final(x) + 1
        BY <2>3, <2>5, <2>6, <2>9
      <4> QED BY <1>1, <3>1, <4>1 DEF Reached
    <3>2. CASE ~(a[1] <= x.generation)
      <4>1. x.generation < a[1]
        BY <2>5, <2>7, <3>2
      <4>2. Final(x) <= a[2]
        BY <2>2, <2>4, <2>7, <4>1 DEF EndsInOrder
      <4>3. b[2] <= a[2] + 1
        BY <2>3, <2>5, <2>7, <2>9, <4>2
      <4> QED BY <4>3 DEF Reached
    <3> QED BY <3>1, <3>2
  <2> QED BY <2>1, <2>8, <2>9
<1> QED BY <1>4, <1>5 DEF Update

LEMMA OpenStreamCovers ==
  ASSUME LogTypes, LogTypes', WindowsHold, ReachHolds, ~overtaken', ~cut', Covered,
         NEW p \in Polls, OpenStream(p)
  PROVE  Covered'
<1>1. /\ ~overtaken /\ Readings' \subseteq Readings /\ Stored' = Stored
  BY OpenStreamKeeps
<1>2. Ends' \subseteq Ends \cup {<<lastGen, now + PollInterval + 1>>}
  BY OpenStreamReach
<1>3. oldest' = oldest
  BY DEF OpenStream
<1>4. \A b \in Readings : b[1] <= lastGen /\ b[1] \in Nat /\ lastGen \in Nat
  BY <1>1, ReadingNumbers DEF WindowsHold, ReadingsInOrder
<1> SUFFICES ASSUME NEW a \in Ends', NEW b \in Readings', oldest' <= a[1], a[1] < b[1]
             PROVE  Reached(a, b)'
  BY DEF Covered
<1>5. a \in Ends
  <2>1. ASSUME a = <<lastGen, now + PollInterval + 1>> PROVE FALSE
    <3>1. a[1] = lastGen
      BY <2>1
    <3> QED BY <1>1, <1>4, <3>1
  <2> QED BY <1>2, <2>1
<1>6. Reached(a, b)
  BY <1>1, <1>3, <1>5 DEF Covered
<1> QED BY <1>1, <1>6 DEF Reached

LEMMA FlushingCovers ==
  ASSUME LogTypes, WindowsHold, WrittenHolds, ReachHolds, CoverHolds,
         ~late, ~overtaken, ~cut, NEW r, Flushing(r)
  PROVE  Covered' /\ Held'
<1>1. /\ WindowsFlushed(r, Selected) /\ r.last \in Stored
      /\ Stored' = {y \in Stored : y.generation > r.last.generation} \cup {r.last}
  BY FlushingKeeps
<1>2. /\ KeepsLast(r, Selected) /\ r.result \in Seq(Nat)
  BY <1>1 DEF WindowsFlushed
<1>3. /\ UNCHANGED <<poll, lastPoll, collected>> /\ oldest' = r.last.generation
      /\ written' = written \o r.result /\ ~flushed
  BY DEF Flushing
<1>4. Covered /\ Held /\ \A x \in Stored : oldest <= x.generation
  BY <1>3 DEF CoverHolds, WrittenHolds
<1>5. FollowingKept /\ Stored' \subseteq Stored
  BY <1>1, <1>3 DEF FollowingKept, Following
<1>6. Ends' \subseteq Ends /\ Readings' \subseteq Readings
  BY <1>3, <1>5, FollowingEnds, FollowingReadings
<1>7. \A y \in Stored : y.generation \in Nat /\ First(y) \in Nat /\ Final(y) \in Nat
  BY StoredNumbers DEF WindowsHold
<1>8. oldest \in Nat /\ oldest <= oldest' /\ oldest' \in Nat
  BY <1>1, <1>3, <1>4, <1>7 DEF LogTypes
<1>9. Covered'
  <2> SUFFICES ASSUME NEW a \in Ends', NEW b \in Readings', oldest' <= a[1], a[1] < b[1]
               PROVE  Reached(a, b)'
    BY DEF Covered
  <2>1. a[1] \in Nat /\ a[2] \in Nat /\ b[1] \in Nat /\ b[2] \in Nat /\ a \in Ends /\ b \in Readings
    BY <1>6, EndNumbers, ReadingNumbers DEF WindowsHold
  <2>2. Reached(a, b)
    BY <1>4, <1>8, <2>1 DEF Covered
  <2>3. CASE b[2] <= a[2] + 1
    BY <2>3 DEF Reached
  <2>4. ASSUME NEW x \in Stored, a[1] <= x.generation, x.generation < b[1], b[2] <= Final(x) + 1
        PROVE  Reached(a, b)'
    <3>1. oldest' <= x.generation
      BY <1>7, <1>8, <2>1, <2>4
    <3>2. CASE x.generation = r.last.generation
      <4>1. Final(x) <= Final(r.last)
        BY <1>2, <3>2 DEF KeepsLast
      <4>2. b[2] <= Final(r.last) + 1
        BY <1>1, <1>7, <2>1, <2>4, <4>1
      <4>3. r.last \in Stored'
        BY <1>1
      <4> QED BY <2>4, <3>2, <4>2, <4>3 DEF Reached
    <3>3. CASE x.generation # r.last.generation
      <4>1. x.generation > r.last.generation
        BY <1>1, <1>3, <1>7, <3>1, <3>3
      <4>2. x \in Stored'
        BY <1>1, <4>1
      <4> QED BY <2>4, <4>2 DEF Reached
    <3> QED BY <3>2, <3>3
  <2> QED BY <2>2, <2>3, <2>4 DEF Reached
<1>10. Held'
  <2> SUFFICES ASSUME NEW l \in collected
               PROVE  l \in ToSet(written') \/ \E x \in Stored' : l \in ToSet(x.lines)
    BY <1>3 DEF Held
  <2>1. ToSet(written') = ToSet(written) \cup ToSet(r.result)
    <3>1. written \in Seq(Nat)
      <4>1. written \in Seq(collected) /\ collected \subseteq Nat
        BY DEF LogTypes, StoreTypes
      <4> QED BY <4>1, SeqMonotonic
    <3> QED BY <1>2, <1>3, <3>1, LinesJoined
  <2>2. ReachOn(Selected)
    BY <1>4, SelectedEarly, EarlyReachOn
  <2>3. ASSUME NEW x \in Stored, l \in ToSet(x.lines)
        PROVE  l \in ToSet(r.result) \/ \E y \in Stored' : l \in ToSet(y.lines)
    <3>1. CASE x.generation > r.last.generation
      BY <1>1, <2>3, <3>1
    <3>2. CASE ~(x.generation > r.last.generation)
      <4>1. x.generation <= r.last.generation
        BY <1>1, <1>7, <3>2
      <4>2. x.generation \in Selected
        <5>1. x.generation \in DOMAIN store /\ r.last.generation \in Selected
          BY <1>2, StoredNumbers DEF KeepsLast, WindowsHold
        <5> QED BY <4>1, <5>1, SelectedEarly DEF Early
      <4>3. l \in ToSet(r.result) \/ l \in ToSet(r.last.lines)
        BY <1>1, <2>2, <2>3, <4>2, NothingDropped DEF ReachHolds
      <4> QED BY <1>1, <4>3
    <3> QED BY <3>1, <3>2
  <2> QED BY <1>4, <2>1, <2>3 DEF Held
<1> QED BY <1>9, <1>10

LEMMA FlushAllCovers ==
  ASSUME LogTypes, LogTypes', WindowsHold, WrittenHolds, ReachHolds, CoverHolds,
         ~late, ~overtaken, ~cut, FlushAll
  PROVE  Covered' /\ collected' \subseteq ToSet(written')
<1>1. /\ ~flushed /\ UNCHANGED <<poll, lastPoll, store, oldest, collected>>
      /\ \/ NothingYet /\ written' = written
         \/ oldest \in DOMAIN store /\ \E r : FlushingAll(r)
  BY FlushAllStep
<1>2. Covered /\ Held /\ \A x \in Stored : oldest <= x.generation
  BY <1>1 DEF CoverHolds, WrittenHolds
<1>3. FollowingKept /\ Stored' = Stored
  BY <1>1 DEF FollowingKept, Following, Stored
<1>4. Covered'
  BY <1>1, <1>2, <1>3, FollowingEnds, FollowingReadings, CoveredKept
<1>5. CASE NothingYet
  BY <1>1, <1>4, <1>5 DEF NothingYet
<1>6. ASSUME NEW r, FlushingAll(r) PROVE collected \subseteq ToSet(written')
  <2>1. WindowsFlushed(r, DOMAIN store)
    BY <1>6, FlushingAllKeeps
  <2>2. ReachOn(DOMAIN store)
    BY <1>2, SelectedEarly, EarlyReachOn
  <2>3. ToSet(written') = ToSet(written) \cup ToSet(r.result) \cup ToSet(r.last.lines)
    <3>1. written \in Seq(Nat)
      <4>1. written \in Seq(collected) /\ collected \subseteq Nat
        BY DEF LogTypes, StoreTypes
      <4> QED BY <4>1, SeqMonotonic
    <3>2. r.result \in Seq(Nat) /\ r.last.lines \in Seq(Nat)
      BY <2>1 DEF WindowsFlushed, KeepsLast, WindowsHold, StoredWindows, Consecutive
    <3>3. /\ written \o r.result \in Seq(Nat)
          /\ ToSet(written \o r.result) = ToSet(written) \cup ToSet(r.result)
      BY <3>1, <3>2, LinesJoined
    <3> DEFINE u == written \o r.result
               v == r.last.lines
    <3>4. written' = u \o v
      BY <1>6 DEF FlushingAll
    <3>5. u \in Seq(Nat) /\ v \in Seq(Nat)
      BY <3>2, <3>3
    <3> HIDE DEF u, v
    <3>6. ToSet(written') = ToSet(u) \cup ToSet(v)
      BY <3>4, <3>5, LinesJoined
    <3> QED BY <3>3, <3>6 DEF u, v
  <2>4. ASSUME NEW x \in Stored, NEW l \in ToSet(x.lines)
        PROVE  l \in ToSet(r.result) \/ l \in ToSet(r.last.lines)
    <3>1. x.generation \in DOMAIN store
      BY StoredSlices DEF LogTypes
    <3> QED BY <2>1, <2>2, <2>4, <3>1, NothingDropped DEF ReachHolds
  <2> QED BY <1>2, <2>3, <2>4 DEF Held
<1> QED BY <1>1, <1>4, <1>5, <1>6

LEMMA CoverStep ==
  ASSUME LogTypes, WindowsHold, WrittenHolds, ReachHolds, CoverHolds, [Next]_vars
  PROVE  CoverHolds'
<1>0. LogTypes'
  BY LogTypesStep
<1> SUFFICES ASSUME ~late', ~overtaken', ~cut'
             PROVE  Covered' /\ IF flushed' THEN collected' \subseteq ToSet(written') ELSE Held'
  BY DEF CoverHolds
<1>1. ASSUME UNCHANGED <<collected, written, flushed, late, cut>>, ~overtaken, Stored' = Stored, Covered'
      PROVE  CoverHolds'
  BY <1>1 DEF CoverHolds, Held
<1>2. ASSUME UNCHANGED <<lastPoll, oldest>>, FollowingKept, Stored' = Stored, Covered PROVE Covered'
  BY <1>2, FollowingEnds, FollowingReadings, CoveredKept
<1>3. ASSUME Rests PROVE CoverHolds'
  <2>1. UNCHANGED <<poll, store, lastPoll, oldest, collected, written, flushed, late, overtaken, cut>>
    BY <1>3 DEF Rests
  <2>2. FollowingKept /\ Stored' = Stored
    BY <2>1 DEF FollowingKept, Following, Stored
  <2>3. Covered
    BY <2>1 DEF CoverHolds
  <2> QED BY <1>1, <1>2, <2>1, <2>2, <2>3 DEF CoverHolds
<1>4. ASSUME NEW p \in Polls, Leaves(p) \/ OpenStream(p) \/ Update(p) PROVE CoverHolds'
  <2>1. UNCHANGED <<store, collected, written, flushed, late, cut, oldest>>
    BY <1>4 DEF Leaves, OpenStream, Update
  <2>2. Stored' = Stored
    BY <2>1 DEF Stored
  <2>3. ~overtaken
    <3>1. CASE OpenStream(p)
      BY <3>1, OpenStreamKeeps
    <3>2. CASE Leaves(p) \/ Update(p)
      BY <3>2 DEF Leaves, Update
    <3> QED BY <1>4, <3>1, <3>2
  <2>4. Covered
    BY <2>1, <2>3 DEF CoverHolds
  <2>5. Covered'
    <3>1. CASE Leaves(p)
      <4>1. UNCHANGED lastPoll
        BY <3>1 DEF Leaves
      <4> QED BY <1>2, <2>1, <2>2, <2>4, <3>1, <4>1, LeavesKeeps
    <3>2. CASE OpenStream(p)
      BY <1>0, <2>4, <3>2, OpenStreamCovers
    <3>3. CASE Update(p)
      BY <2>1, <2>3, <2>4, <3>3, UpdateCovers
    <3> QED BY <1>4, <3>1, <3>2, <3>3
  <2> QED BY <1>1, <2>1, <2>2, <2>3, <2>5
<1>5. ASSUME NEW p \in Polls, HandsOverAll(p) PROVE CoverHolds'
  <2> DEFINE last == End(p)
  <2>1. HandsOver(p, last) /\ cut' = cut
    BY <1>5 DEF HandsOverAll, End
  <2>2. UNCHANGED <<lastPoll, overtaken>> /\ poll[p].phase = "streaming"
    BY <2>1 DEF HandsOver
  <2>3. PICK slice : /\ Stored' = Stored \cup {slice}
                     /\ slice.generation = poll[p].generation /\ First(slice) = poll[p].since
                     /\ AddSlice(slice)
    BY <2>1, HandsOverKeeps
  <2>4. /\ UNCHANGED <<oldest, written, flushed>> /\ collected' = collected \cup ToSet(slice.lines)
        /\ ~late
    BY <2>3 DEF AddSlice
  <2>5. Covered /\ (~flushed => Held)
    BY <2>1, <2>2, <2>4 DEF CoverHolds
  <2>6. Ends' \subseteq Ends
    BY <1>0, <1>5, HandsOverReach
  <2>7. Readings' \subseteq Readings
    <3>1. FollowingKept /\ p \in Following
      BY <2>1, HandsOverKeeps
    <3> QED BY <2>2, <2>3, <3>1 DEF Readings, FollowingKept
  <2>8. Covered'
    BY <2>3, <2>4, <2>5, <2>6, <2>7, CoveredKept
  <2>9. ~flushed
    <3>1. Idle.phase = "idle"
      BY DEF Idle
    <3> QED BY <2>2, <3>1 DEF LogTypes
  <2>10. Held'
    BY <2>3, <2>4, <2>5, <2>9 DEF Held
  <2> QED BY <2>4, <2>8, <2>9, <2>10 DEF CoverHolds
<1>6. ASSUME NEW p \in Polls, HandsOverPart(p) PROVE CoverHolds'
  BY <1>6 DEF HandsOverPart
<1>7. ASSUME NEW r, Flushing(r) PROVE CoverHolds'
  <2>1. ~late /\ ~overtaken /\ ~cut /\ ~flushed'
    BY <1>7 DEF Flushing
  <2>2. Covered' /\ Held'
    BY <1>7, <2>1, FlushingCovers
  <2> QED BY <2>1, <2>2 DEF CoverHolds
<1>8. ASSUME FlushAll PROVE CoverHolds'
  <2>1. ~late /\ ~overtaken /\ ~cut /\ flushed' = TRUE
    BY <1>8, FlushAllStep
  <2>2. Covered' /\ collected' \subseteq ToSet(written')
    BY <1>0, <1>8, <2>1, FlushAllCovers
  <2> QED BY <2>1, <2>2 DEF CoverHolds
<1>9. CoverHolds'
  <2>1. ASSUME NEW p \in Polls, Leaves(p) \/ OpenStream(p) \/ HandsOverAll(p)
                                \/ HandsOverPart(p) \/ Update(p)
        PROVE  CoverHolds'
    BY <1>4, <1>5, <1>6, <2>1
  <2> QED BY <1>3, <1>7, <1>8, <2>1, Steps
<1> QED BY <1>9 DEF CoverHolds

-----------------------------------------------------------------------------
(* The log: its types, its order, and that it is complete. *)

LogInv ==
  LogTypes /\ WindowsHold /\ MeetHolds /\ WrittenHolds /\ ReachHolds /\ CoverHolds

(* What the store, the windows and the log are in every reachable state.   *)
THEOREM LogInvariant == Spec => []LogInv
<1>1. Init => LogInv
  BY LogTypesInit, WindowsHoldInit, MeetHoldsInit, WrittenHoldsInit, ReachInit DEF LogInv
<1>2. LogInv /\ [Next]_vars => LogInv'
  BY LogTypesStep, WindowsHoldStep, MeetHoldsStep, WrittenHoldsStep, ReachStep, CoverStep
     DEF LogInv
<1> QED BY <1>1, <1>2, PTL DEF Spec

(* Generations.Add, flush and FlushAll keep their types: Oldest never      *)
(* passes Latest, so that their unsigned difference does not wrap around,  *)
(* no generation in the store is without a slice, and no line is made up.  *)
THEOREM LogTypeOK == Spec => []TypeOK
<1>1. LogInv => TypeOK
  <2> SUFFICES ASSUME LogTypes PROVE TypeOK
    BY DEF LogInv
  <2>1. \A p \in Polls : 
          poll[p].phase \in {"idle", "looking", "requesting", "streaming", "updating"}
    BY DEF LogTypes, PollState, Phases
  <2>2. \A g \in DOMAIN store : g <= latest /\ store[g] # <<>>
    BY DEF LogTypes, StoreTypes, StoredAs
  <2>3. ToSet(written) \subseteq collected
    BY DEF LogTypes, ToSet
  <2> QED BY <2>1, <2>2, <2>3 DEF TypeOK, LogTypes
<1> QED BY <1>1, LogInvariant, PTL

(* De-duplication never indexes out of range on the windows that polls     *)
(* hand over, in whatever order they come and late ones included, unless   *)
(* both a poll was overtaken and a stream was cut.                         *)
THEOREM PanicNeedsBoth == Spec => [](NeverPanics \/ (overtaken /\ cut))
<1>1. LogInv => NeverPanics \/ (overtaken /\ cut)
  BY DEF LogInv, WindowsHold, MeetHolds, NeverPanics
<1> QED BY <1>1, LogInvariant, PTL

(* processSlices and CleanUp: whatever polls fail and streams break, the   *)
(* file has every line at most once and in the order of the log.           *)
THEOREM LinesWrittenOnce == Spec => []WrittenOnce
<1>1. LogInv => WrittenOnce
  <2> SUFFICES ASSUME LogInv, ~late, ~overtaken PROVE Increasing(written)
    BY DEF WrittenOnce
  <2>1. Ordered(written) /\ written \in Seq(collected)
    BY DEF LogInv, WrittenHolds, LogTypes
  <2>2. Len(written) \in Nat
    BY <2>1
  <2>3. \A i \in 1..(Len(written) - 1) : i \in 1..Len(written) /\ i + 1 \in 1..Len(written) /\ i < i + 1
    BY <2>2
  <2> QED BY <2>1, <2>3 DEF Ordered, Increasing
<1> QED BY <1>1, LogInvariant, PTL

(* flush and removeOlderThan: a flush that writes lines leaves a later     *)
(* Oldest, so that no loop of processSlices writes the same lines again.   *)
THEOREM FlushesAdvance == Spec => FlushAdvances
<1>1. LogInv /\ [Next]_vars =>
        [written' # written /\ ~flushed' /\ ~late /\ ~overtaken => oldest' > oldest]_vars
  BY StepAdvances DEF LogInv
<1> QED BY <1>1, LogInvariant, PTL DEF Spec, FlushAdvances

\* The lines up to each of its own are the lines up to its last.
LEMMA WholeInterval ==
  ASSUME NEW n \in Nat, NEW S \in SUBSET (1..n), \A l \in S : 1..l \subseteq S
  PROVE  Cardinality(S) \in Nat /\ S = 1..Cardinality(S)
<1>1. CASE S = {}
  <2>1. Cardinality(S) = 0
    BY <1>1, FS_EmptySet
  <2> QED BY <1>1, <2>1
<1>2. CASE S # {}
  <2> DEFINE m == Max(S)
  <2>1. m \in S /\ \A l \in S : l <= m
    BY <1>2, MaxOf
  <2> HIDE DEF m
  <2>2. m \in Nat /\ S = 1..m
    <3>1. m \in Nat /\ 1..m \subseteq S
      BY <2>1
    <3>2. \A l \in S : l \in 1..m
      BY <2>1, <3>1
    <3> QED BY <3>1, <3>2
  <2>3. Cardinality(1..m) = m
    BY <2>2, FS_Interval
  <2> QED BY <2>2, <2>3
<1> QED BY <1>1, <1>2

(* FlushAll: after CleanUp every line that a poll has seen is in the file, *)
(* from the first on, unless a slice was late, a poll overtaken or a       *)
(* stream cut.                                                             *)
THEOREM NoLineMissing == Spec => []NothingMissing
<1>1. LogInv /\ WindowInv => NothingMissing
  <2> SUFFICES ASSUME LogInv, WindowInv, flushed, ~late, ~overtaken, ~cut
               PROVE  written = [i \in 1..Cardinality(collected) |-> i]
    BY DEF NothingMissing
  <2> DEFINE n == Cardinality(collected)
             whole == [i \in 1..n |-> i]
  <2>1. /\ collected \subseteq 1..LastTick /\ LastTick \in Nat /\ written \in Seq(collected)
        /\ \A l \in collected : 1..l \subseteq collected
    BY IntervalAssumption DEF LogInv, LogTypes, WindowInv, NoHole
  <2>2. n \in Nat /\ collected = 1..n
    BY <2>1, WholeInterval
  <2>3. Ordered(written) /\ collected \subseteq ToSet(written)
    BY DEF LogInv, WrittenHolds, CoverHolds
  <2> HIDE DEF n
  <2>4. ToSet(written) = 1..n /\ written \in Seq(Nat)
    <3>1. ToSet(written) \subseteq collected
      BY <2>1 DEF ToSet
    <3>2. written \in Seq(Nat)
      BY <2>1, <2>2, SeqMonotonic
    <3> QED BY <2>2, <2>3, <3>1, <3>2
  <2>5. whole \in Seq(Nat) /\ Len(whole) = n /\ \A i \in 1..n : whole[i] = i
    BY <2>2
  <2> HIDE DEF whole
  <2>6. Ordered(whole)
    BY <2>2, <2>5 DEF Ordered
  <2>7. ToSet(whole) = 1..n
    <3>1. DOMAIN whole = 1..n
      BY <2>2, <2>5
    <3> QED BY <2>5, <3>1 DEF ToSet
  <2>8. written = whole
    BY <2>3, <2>4, <2>5, <2>6, <2>7, OrderedUnique
  <2> QED BY <2>8 DEF whole, n
<1> QED BY <1>1, LogInvariant, WindowInvariant, PTL

=============================================================================
