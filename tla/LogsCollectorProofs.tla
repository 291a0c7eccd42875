------------------------- MODULE LogsCollectorProofs -------------------------
(***************************************************************************)
(* Proofs about LogsCollector, for any number of slices, any capacity of   *)
(* the channels and any number of generations kept: PipelineInv is         *)
(* inductive, and the pipeline implements LogDelivery.                     *)
(***************************************************************************)
EXTENDS LogsCollector, SequenceTheorems, TLAPS

-----------------------------------------------------------------------------
(* Queues in a row.                                                        *)

(* Moving the head of a queue to the end of the queue in front of it       *)
(* changes nothing in the concatenation of the two.                        *)
LEMMA MoveHead ==
  ASSUME NEW S, NEW s \in Seq(S), NEW t \in Seq(S), t # <<>>
  PROVE  /\ Head(t) \in S /\ Tail(t) \in Seq(S) /\ Append(s, Head(t)) \in Seq(S)
         /\ Append(s, Head(t)) \o Tail(t) = s \o t
<1> DEFINE h == Head(t)
           l == Append(s, h) \o Tail(t)
<1>1. h \in S /\ Tail(t) \in Seq(S) /\ Len(Tail(t)) = Len(t) - 1
      /\ \A i \in 1..Len(Tail(t)) : Tail(t)[i] = t[i + 1]
  BY HeadTailProperties
<1>2. h = t[1] /\ Len(t) \in Nat /\ Len(t) # 0 /\ Len(s) \in Nat
  BY EmptySeq, LenProperties
<1>3. /\ Append(s, h) \in Seq(S) /\ Len(Append(s, h)) = Len(s) + 1
      /\ \A i \in 1..Len(s) : Append(s, h)[i] = s[i]
      /\ Append(s, h)[Len(s) + 1] = h
  BY <1>1, AppendProperties
<1> HIDE DEF h
<1>4. /\ l \in Seq(S) /\ Len(l) = Len(s) + Len(t)
      /\ \A i \in 1..(Len(s) + Len(t)) :
           l[i] = IF i <= Len(s) + 1 THEN Append(s, h)[i]
                                     ELSE Tail(t)[i - (Len(s) + 1)]
  BY <1>1, <1>2, <1>3, ConcatProperties
<1>5. /\ s \o t \in Seq(S) /\ Len(s \o t) = Len(s) + Len(t)
      /\ \A i \in 1..(Len(s) + Len(t)) :
           (s \o t)[i] = IF i <= Len(s) THEN s[i] ELSE t[i - Len(s)]
  BY ConcatProperties
<1> HIDE DEF l
<1>6. ASSUME NEW i \in 1..(Len(s) + Len(t)) PROVE l[i] = (s \o t)[i]
  <2>1. CASE i <= Len(s)
    BY <2>1, <1>2, <1>3, <1>4, <1>5
  <2>2. CASE i = Len(s) + 1
    <3>1. l[i] = h
      BY <2>2, <1>2, <1>3, <1>4
    <3>2. (s \o t)[i] = t[1]
      BY <2>2, <1>2, <1>5
    <3> QED BY <3>1, <3>2, <1>2
  <2>3. CASE i > Len(s) + 1
    <3> DEFINE j == i - (Len(s) + 1)
    <3>1. j \in 1..Len(Tail(t)) /\ j + 1 = i - Len(s)
      BY <2>3, <1>1, <1>2
    <3>2. l[i] = t[j + 1]
      BY <2>3, <3>1, <1>1, <1>2, <1>4
    <3> QED BY <2>3, <3>1, <3>2, <1>2, <1>5
  <2> QED BY <2>1, <2>2, <2>3, <1>2
<1>7. l = s \o t
  BY <1>4, <1>5, <1>6, SeqEqual
<1> QED BY <1>1, <1>3, <1>7 DEF l, h

(* An element that is appended to the last queue is appended to the row.   *)
LEMMA AppendBehind ==
  ASSUME NEW S, NEW r \in Seq(S), NEW s \in Seq(S), NEW e \in S
  PROVE  r \o Append(s, e) = Append(r \o s, e)
<1>1. Append(s, e) = s \o <<e>> /\ <<e>> \in Seq(S) /\ r \o s \in Seq(S)
  BY AppendIsConcat, ConcatProperties
<1>2. Append(r \o s, e) = (r \o s) \o <<e>>
  BY <1>1, AppendIsConcat
<1> QED BY <1>1, <1>2, ConcatAssociative

\* One queue behind the other, as a name that the provers do not look into.
Row(s, t) == s \o t

LEMMA RowAssociative ==
  ASSUME NEW S, NEW r \in Seq(S), NEW s \in Seq(S), NEW t \in Seq(S)
  PROVE  Row(Row(r, s), t) = Row(r, Row(s, t)) /\ Row(r, s) \in Seq(S)
BY ConcatAssociative, ConcatProperties DEF Row

(* The queues at the end of a row can be taken together.                   *)
LEMMA Regroup ==
  ASSUME NEW S, NEW r \in Seq(S), NEW s \in Seq(S), NEW t \in Seq(S), NEW u \in Seq(S)
  PROVE  /\ Row(Row(Row(r, s), t), u) = Row(r, Row(Row(s, t), u))
         /\ Row(Row(s, t), u) \in Seq(S)
<1>1. Row(r, s) \in Seq(S) /\ Row(s, t) \in Seq(S)
  BY RowAssociative
<1> QED BY <1>1, RowAssociative

(* What happens at the end of a row leaves the row as it is, if it leaves  *)
(* the end as it is.                                                       *)
LEMMA SameBehind ==
  ASSUME NEW S, NEW r \in Seq(S), NEW s \in Seq(S), NEW t \in Seq(S),
         NEW u \in Seq(S), NEW v \in Seq(S), Row(u, v) = Row(s, t)
  PROVE  Row(Row(r, u), v) = Row(Row(r, s), t)
<1>1. Row(Row(r, u), v) = Row(r, Row(u, v)) /\ Row(Row(r, s), t) = Row(r, Row(s, t))
  BY RowAssociative
<1> QED BY <1>1

(* The first element of the second queue in a row comes right behind those *)
(* of the first queue.                                                     *)
LEMMA SecondInRow ==
  ASSUME NEW S, NEW r \in Seq(S), NEW s \in Seq(S), NEW t \in Seq(S), s # <<>>
  PROVE  Len(r) < Len(r \o s \o t) /\ (r \o s \o t)[Len(r) + 1] = Head(s)
<1>1. /\ Len(r) \in Nat /\ Len(s) \in Nat /\ Len(t) \in Nat
      /\ Len(s) > 0 /\ Head(s) = s[1]
  BY LenProperties, EmptySeq
<1>2. /\ r \o s \in Seq(S) /\ Len(r \o s) = Len(r) + Len(s)
      /\ (r \o s)[Len(r) + 1] = Head(s)
  BY <1>1, ConcatProperties
<1>3. /\ Len(r \o s \o t) = Len(r) + Len(s) + Len(t)
      /\ (r \o s \o t)[Len(r) + 1] = (r \o s)[Len(r) + 1]
  BY <1>1, <1>2, ConcatProperties
<1> QED BY <1>1, <1>2, <1>3

-----------------------------------------------------------------------------
(* PipelineInv *)

LEMMA PipelineInit == Init => PipelineInv
<1> SUFFICES ASSUME Init PROVE PipelineInv
  OBVIOUS
<1> USE DEF Init
<1>1. <<>> \in Seq(1..Slices) /\ Len(<<>>) = 0 /\ Submitted = <<>>
  BY DEF Submitted
<1>2. <<>> \o <<>> = <<>>
  BY <1>1, ConcatEmptySeq
<1>3. TypeOK
  <2>1. exited \in BOOLEAN
    BY Zenon
  <2> QED BY <2>1, <1>1, CapacityAssumption DEF TypeOK
<1>4. Conserved /\ DumpsConserved
  BY <1>1, <1>2 DEF Conserved, DumpsConserved, InHand
<1>5. Counted /\ Quitting /\ Emptied
  BY DEF Counted, Quitting, Emptied
<1> QED BY <1>3, <1>4, <1>5 DEF PipelineInv

LEMMA InHandIsASeq == PipelineInv => InHand \in Seq(1..Slices)
<1> SUFFICES ASSUME PipelineInv PROVE InHand \in Seq(1..Slices)
  OBVIOUS
<1>1. CASE processor \in {"dumping", "finalDumping"}
  <2>1. store \in Seq(1..Slices) /\ store # <<>>
    BY <1>1 DEF PipelineInv, TypeOK, Emptied
  <2>2. Len(store) \in 1..Len(store)
    BY <2>1, EmptySeq
  <2>3. store[Len(store)] \in 1..Slices
    BY <2>1, <2>2, ElementOfSeq
  <2> QED BY <2>3, <1>1 DEF InHand
<1>2. CASE processor \notin {"dumping", "finalDumping"}
  BY <1>2 DEF InHand
<1> QED BY <1>1, <1>2

(* A poll.                                                                 *)
LEMMA SubmitKeeps == PipelineInv /\ Submit => PipelineInv'
<1> SUFFICES ASSUME PipelineInv, Submit PROVE PipelineInv'
  OBVIOUS
<1> DEFINE next == submitted + 1
<1> USE DEF Submit, dumpVars
<1>1. TypeOK /\ Slices \in Nat /\ SliceChanLength \in Nat
  BY CapacityAssumption DEF PipelineInv
<1>2. next \in 1..Slices /\ slices' = Append(slices, next)
  BY <1>1 DEF TypeOK
<1>3. Submitted' = Append(Submitted, next)
  <2>1. Submitted \in Seq(1..Slices) /\ Len(Submitted) = submitted
    BY <1>1 DEF Submitted, TypeOK
  <2>2. Submitted' \in Seq(1..Slices) /\ Len(Submitted') = next
    BY <1>1, <1>2 DEF Submitted, TypeOK
  <2>3. /\ Append(Submitted, next) \in Seq(1..Slices)
        /\ Len(Append(Submitted, next)) = next
        /\ \A i \in 1..submitted : Append(Submitted, next)[i] = i
        /\ Append(Submitted, next)[next] = next
    BY <2>1, <1>1, <1>2, AppendProperties DEF Submitted, TypeOK
  <2>4. \A i \in 1..next : Submitted'[i] = Append(Submitted, next)[i]
    BY <2>3, <1>1 DEF Submitted, TypeOK
  <2> QED BY <2>2, <2>3, <2>4, SeqEqual
<1>4. TypeOK'
  BY <1>1, <1>2 DEF TypeOK
<1>5. Conserved'
  <2> DEFINE row == written \o lines \o pushing \o store
  <2>1. row \in Seq(1..Slices) /\ slices \in Seq(1..Slices)
    BY <1>1, ConcatProperties DEF TypeOK
  <2>2. row \o slices' = Append(row \o slices, next)
    BY <2>1, <1>2, AppendBehind
  <2> QED BY <2>2, <1>3 DEF PipelineInv, Conserved
<1>6. DumpsConserved'
  <2> DEFINE row == dumped \o toDump \o InHand
  <2>1. InHand \in Seq(1..Slices) /\ InHand' = InHand
    BY InHandIsASeq DEF InHand
  <2>2. row \in Seq(1..Slices) /\ slices \in Seq(1..Slices)
    BY <1>1, <2>1, ConcatProperties DEF TypeOK
  <2>3. row \o slices' = Append(row \o slices, next)
    BY <2>2, <1>2, AppendBehind
  <2> QED BY <2>1, <2>3, <1>3 DEF PipelineInv, DumpsConserved
<1>7. Counted' /\ Quitting' /\ Emptied'
  BY DEF PipelineInv, Counted, Quitting, Emptied
<1> QED BY <1>4, <1>5, <1>6, <1>7 DEF PipelineInv

(* The steps that move no slice: the rows are as before.                   *)
LEMMA ControlKeeps ==
  PipelineInv /\ (CleanUp \/ CleanUpStep \/ ProcessorStarts \/ ProcessorTakesQuit
                   \/ Pushed \/ ProcessorQuitsWriter \/ WriterStarts
                   \/ WriterOpens \/ WriterReturns \/ DumperReturns)
    => PipelineInv'
<1> SUFFICES ASSUME PipelineInv,
                    CleanUp \/ CleanUpStep \/ ProcessorStarts \/ ProcessorTakesQuit
                      \/ Pushed \/ ProcessorQuitsWriter \/ WriterStarts
                      \/ WriterOpens \/ WriterReturns \/ DumperReturns
             PROVE  PipelineInv'
  OBVIOUS
<1> USE DEF PipelineInv, CleanUp, CleanUpStep, CleanUpWaits, CleanUpQuitsDumper,
            CleanUpReturns, ProcessorStarts, ProcessorTakesQuit, Pushed,
            ProcessorQuitsWriter, WriterStarts, WriterOpens, WriterReturns,
            DumperReturns, data, dumpVars
<1>1. UNCHANGED <<data, toDump, dumped>>
  OBVIOUS
<1>2. Conserved'
  BY <1>1 DEF Conserved, Submitted
<1>3. DumpsConserved'
  <2>1. InHand' = InHand
    BY <1>1 DEF InHand
  <2> QED BY <1>1, <2>1 DEF DumpsConserved, Submitted
<1>4. Counted' /\ Quitting'
  BY DEF TypeOK, Counted, Quitting
<1>5. Emptied'
  BY <1>1 DEF TypeOK, Emptied, Quitting
<1>6. TypeOK'
  <2>1. exited' \in BOOLEAN
    BY Zenon DEF TypeOK
  <2>2. wg' \in 0..2
    BY <1>4 DEF Counted
  <2> QED BY <1>1, <2>1, <2>2 DEF TypeOK
<1> QED BY <1>2, <1>3, <1>4, <1>5, <1>6

(* processSlices takes a slice: it is stored, and in hand for the dumper.  *)
LEMMA AddSliceKeeps ==
  ASSUME PipelineInv, NEW from, NEW to, AddSlice(from, to),
         <<from, to>> \in {<<"running", "dumping">>, <<"clearing", "finalDumping">>}
  PROVE  PipelineInv'
<1> DEFINE S == 1..Slices
<1>1. /\ slices \in Seq(S) /\ store \in Seq(S) /\ slices # <<>>
      /\ written \in Seq(S) /\ lines \in Seq(S) /\ pushing \in Seq(S)
      /\ dumped \in Seq(S) /\ toDump \in Seq(S)
  BY DEF PipelineInv, TypeOK, AddSlice
<1> HIDE DEF S
<1>2. /\ slices' = Tail(slices) /\ store' = Append(store, Head(slices))
      /\ processor = from /\ processor' = to
      /\ UNCHANGED <<submitted, pushing, lines, written, toDump, dumped, writer,
                      dumper, cleanup, wg, exited>>
  BY DEF AddSlice, dumpVars
<1>3. /\ Head(slices) \in S /\ slices' \in Seq(S) /\ store' \in Seq(S)
      /\ Row(store', slices') = Row(store, slices)
  <2>1. /\ Head(slices) \in S /\ Tail(slices) \in Seq(S)
        /\ Append(store, Head(slices)) \in Seq(S)
        /\ Row(Append(store, Head(slices)), Tail(slices)) = Row(store, slices)
    BY <1>1, MoveHead, Zenon DEF Row
  <2> QED BY <2>1, <1>2, Zenon
<1>4. Conserved'
  <2> DEFINE row == written \o lines \o pushing
  <2>1. row \in Seq(S) /\ row' = row /\ Submitted' = Submitted
    BY <1>1, <1>2, ConcatProperties DEF Submitted
  <2> HIDE DEF row
  <2>2. Row(Row(row, store'), slices') = Row(Row(row, store), slices)
    BY <1>1, <1>3, <2>1, SameBehind
  <2>3. row \o store' \o slices' = row \o store \o slices
    BY <2>2 DEF Row
  <2> QED BY <2>1, <2>3 DEF row, PipelineInv, Conserved
<1>5. /\ InHand = <<>> /\ InHand' = Append(<<>>, Head(slices)) /\ store' # <<>>
  <2>1. /\ store' # <<>> /\ Len(store') = Len(store) + 1
        /\ store'[Len(store) + 1] = Head(slices)
    BY <1>1, <1>2, <1>3, AppendProperties
  <2>2. /\ Append(<<>>, Head(slices)) = <<Head(slices)>>
    OBVIOUS
  <2>3. InHand = <<>> /\ InHand' = <<Head(slices)>>
    BY <1>2, <2>1 DEF InHand
  <2> QED BY <2>1, <2>2, <2>3
<1>6. DumpsConserved'
  <2> DEFINE row == dumped \o toDump
  <2>1. row \in Seq(S) /\ row' = row /\ Submitted' = Submitted
    BY <1>1, <1>2, ConcatProperties DEF Submitted
  <2> HIDE DEF row
  <2>2. InHand \in Seq(S) /\ InHand' \in Seq(S)
    BY <1>3, <1>5, EmptySeq, AppendProperties
  <2>3. Row(InHand', slices') = Row(InHand, slices)
    <3>1. <<>> \in Seq(S)
      OBVIOUS
    <3>2. Row(Append(<<>>, Head(slices)), Tail(slices)) = Row(<<>>, slices)
      BY <3>1, <1>1, MoveHead, Zenon DEF Row
    <3> QED BY <3>2, <1>2, <1>5, Zenon
  <2>4. Row(Row(row, InHand'), slices') = Row(Row(row, InHand), slices)
    <3> DEFINE held == InHand
               holds == InHand'
               queue == slices'
    <3>1. /\ row \in Seq(S) /\ held \in Seq(S) /\ holds \in Seq(S)
          /\ slices \in Seq(S) /\ queue \in Seq(S) /\ Row(holds, queue) = Row(held, slices)
      BY <1>1, <1>3, <2>1, <2>2, <2>3
    <3> HIDE DEF held, holds, queue
    <3>2. Row(Row(row, holds), queue) = Row(Row(row, held), slices)
      BY <3>1, SameBehind
    <3> QED BY <3>2 DEF held, holds, queue
  <2>5. row \o InHand' \o slices' = row \o InHand \o slices
    BY <2>4 DEF Row
  <2> QED BY <2>1, <2>5 DEF row, PipelineInv, DumpsConserved
<1>7. TypeOK'
  <2>1. Len(slices') = Len(slices) - 1 /\ Len(slices) \in Nat
    BY <1>1, <1>2, HeadTailProperties, LenProperties
  <2>2. processor' \in {"dumping", "finalDumping"}
    BY <1>2
  <2>3. Len(slices') <= SliceChanLength
    BY <2>1, CapacityAssumption DEF PipelineInv, TypeOK
  <2> QED BY <1>2, <1>3, <2>2, <2>3 DEF S, PipelineInv, TypeOK
<1>8. Counted' /\ Quitting'
  BY <1>2 DEF PipelineInv, Counted, Quitting
<1>9. Emptied'
  BY <1>2, <1>5 DEF PipelineInv, Emptied, Quitting
<1> QED BY <1>4, <1>6, <1>7, <1>8, <1>9 DEF PipelineInv

(* The slice in hand goes to the dumper.                                   *)
LEMMA DumpSliceKeeps ==
  ASSUME PipelineInv, NEW from, NEW to, DumpSlice(from, to),
         <<from, to>> \in {<<"dumping", "running">>, <<"finalDumping", "clearing">>}
  PROVE  PipelineInv'
<1> DEFINE S == 1..Slices
           last == store[Len(store)]
<1> USE DEF DumpSlice, data
<1>1. /\ dumped \in Seq(S) /\ toDump \in Seq(S) /\ slices \in Seq(S)
      /\ InHand = <<last>> /\ InHand \in Seq(S) /\ InHand' = <<>>
  BY InHandIsASeq DEF PipelineInv, TypeOK, InHand
<1>2. last \in S
  BY <1>1
<1> HIDE DEF last
<1>3. /\ toDump' = Append(toDump, last) /\ toDump' \in Seq(S)
      /\ Len(toDump') = Len(toDump) + 1
  BY <1>1, <1>2, AppendProperties DEF last
<1>4. DumpsConserved'
  <2>1. toDump' \o <<>> = toDump' /\ toDump' = toDump \o <<last>>
    BY <1>1, <1>2, <1>3, ConcatEmptySeq, AppendIsConcat
  <2>2. dumped \o toDump' \o <<>> = dumped \o toDump'
    BY <1>1, <1>3, ConcatProperties, ConcatEmptySeq
  <2>3. dumped \o toDump' = dumped \o toDump \o <<last>>
    BY <1>1, <2>1, ConcatAssociative
  <2> QED BY <1>1, <2>2, <2>3 DEF PipelineInv, DumpsConserved, Submitted
<1>5. TypeOK'
  BY <1>1, <1>3, CapacityAssumption DEF PipelineInv, TypeOK
<1>6. Conserved' /\ Counted' /\ Quitting'
  BY DEF PipelineInv, Conserved, Submitted, Counted, Quitting
<1>7. Emptied'
  BY DEF PipelineInv, Emptied, Quitting
<1> QED BY <1>4, <1>5, <1>6, <1>7 DEF PipelineInv

(* A flush takes generations out of the store, to be pushed.               *)
LEMMA FlushKeeps == PipelineInv /\ (Flush \/ FlushAll) => PipelineInv'
<1> SUFFICES ASSUME PipelineInv, Flush \/ FlushAll PROVE PipelineInv'
  OBVIOUS
<1> DEFINE S == 1..Slices
<1> USE DEF Flush, FlushAll, dumpVars
<1>1. /\ written \in Seq(S) /\ lines \in Seq(S) /\ store \in Seq(S)
      /\ pushing = <<>> /\ slices = <<>> /\ <<>> \in Seq(S)
  BY DEF PipelineInv, TypeOK, Emptied
<1> HIDE DEF S
<1>2. pushing' \in Seq(S) /\ store' \in Seq(S) /\ pushing' \o store' = store
  <2>1. CASE Flush
    <3> DEFINE k == KeepGenerations
    <3>1. k \in Nat /\ Len(store) \in Nat /\ k < Len(store)
      BY <2>1, <1>1, CapacityAssumption DEF ShouldFlush
    <3> HIDE DEF k
    <3>2. /\ \A i \in 1..k : store[i] \in S
          /\ \A i \in (k + 1)..Len(store) : store[i] \in S
      <4>1. \A i \in 1..Len(store) : store[i] \in S
        BY <1>1, ElementOfSeq
      <4> QED BY <3>1, <4>1
    <3>3. SubSeq(store, 1, k) \in Seq(S) /\ SubSeq(store, k + 1, Len(store)) \in Seq(S)
      BY <3>1, <3>2, SubSeqProperties
    <3>4. SubSeq(store, 1, k) \o SubSeq(store, k + 1, Len(store))
            = SubSeq(store, 1, Len(store))
      <4>1. /\ 1 \in 1..(Len(store) + 1) /\ k \in (1 - 1)..Len(store)
            /\ Len(store) \in k..Len(store)
        BY <3>1
      <4> QED BY <4>1, <1>1, ConcatAdjacentSubSeq
    <3>5. SubSeq(store, 1, Len(store)) = store
      BY <1>1, SubSeqFull
    <3> QED BY <2>1, <3>3, <3>4, <3>5 DEF k
  <2>2. CASE FlushAll
    BY <2>2, <1>1, ConcatEmptySeq
  <2> QED BY <2>1, <2>2
<1>3. Conserved'
  <2> DEFINE row == written \o lines
  <2>1. row \in Seq(S)
    BY <1>1, ConcatProperties
  <2> HIDE DEF row
  <2>2. row \o <<>> \o store = row \o store
    BY <2>1, ConcatEmptySeq
  <2>3. row \o pushing' \o store' = row \o (pushing' \o store')
    <3> DEFINE pushed == pushing'
               kept == store'
    <3>1. row \in Seq(S) /\ pushed \in Seq(S) /\ kept \in Seq(S)
      BY <2>1, <1>2
    <3> HIDE DEF pushed, kept
    <3>2. row \o pushed \o kept = row \o (pushed \o kept)
      BY <3>1, ConcatAssociative
    <3> QED BY <3>2 DEF pushed, kept
  <2> QED BY <1>1, <1>2, <2>2, <2>3 DEF row, PipelineInv, Conserved, Submitted
<1>4. DumpsConserved'
  BY DEF PipelineInv, DumpsConserved, InHand, Submitted
<1>5. TypeOK'
  BY <1>2 DEF S, PipelineInv, TypeOK
<1>6. Counted' /\ Quitting' /\ Emptied'
  BY DEF PipelineInv, Counted, Quitting, Emptied
<1> QED BY <1>3, <1>4, <1>5, <1>6 DEF PipelineInv

(* A line goes from the flush to the channel, or from the channel to the   *)
(* file.                                                                   *)
LEMMA LinesKeep == PipelineInv /\ (PushLine \/ WriteLine) => PipelineInv'
<1> SUFFICES ASSUME PipelineInv, PushLine \/ WriteLine PROVE PipelineInv'
  OBVIOUS
<1> DEFINE S == 1..Slices
<1>1. /\ written \in Seq(S) /\ lines \in Seq(S) /\ pushing \in Seq(S)
      /\ LineChanLength \in Nat
  BY CapacityAssumption DEF PipelineInv, TypeOK
<1> HIDE DEF S
<1>2. /\ written' \in Seq(S) /\ lines' \in Seq(S) /\ pushing' \in Seq(S)
      /\ Len(lines') <= LineChanLength
      /\ written' \o lines' \o pushing' = written \o lines \o pushing
      /\ lines = <<>> => written' = written
      /\ pushing = <<>> => pushing' = pushing
  <2>1. CASE PushLine
    <3>1. /\ lines' = Append(lines, Head(pushing)) /\ pushing' = Tail(pushing)
          /\ written' = written /\ pushing # <<>> /\ Len(lines) < LineChanLength
      BY <2>1 DEF PushLine
    <3>2. lines' \in Seq(S) /\ pushing' \in Seq(S) /\ Head(pushing) \in S
      BY <3>1, <1>1, MoveHead
    <3>3. written \o lines' \o pushing' = written \o lines \o pushing
      <4>1. Row(lines', pushing') = Row(lines, pushing)
        BY <3>1, <1>1, MoveHead DEF Row
      <4>2. Row(Row(written, lines'), pushing') = Row(Row(written, lines), pushing)
        BY <4>1, <3>2, <1>1, SameBehind
      <4> QED BY <4>2 DEF Row
    <3>4. Len(lines') <= LineChanLength
      <4>1. Len(lines') = Len(lines) + 1 /\ Len(lines) \in Nat
        BY <3>1, <3>2, <1>1, AppendProperties, LenProperties
      <4> QED BY <4>1, <3>1, <1>1
    <3>5. written' \in Seq(S)
      BY <3>1, <1>1
    <3> QED BY <3>1, <3>2, <3>3, <3>4, <3>5, Zenon
  <2>2. CASE WriteLine
    <3>1. /\ written' = Append(written, Head(lines)) /\ lines' = Tail(lines)
          /\ pushing' = pushing /\ lines # <<>>
      BY <2>2 DEF WriteLine
    <3>2. /\ written' \in Seq(S) /\ lines' \in Seq(S)
          /\ written' \o lines' = written \o lines
      BY <3>1, <1>1, MoveHead
    <3>3. Len(lines') = Len(lines) - 1 /\ Len(lines) \in Nat
          /\ Len(lines) <= LineChanLength
      BY <3>1, <1>1, HeadTailProperties, LenProperties DEF PipelineInv, TypeOK
    <3> QED BY <3>1, <3>2, <3>3, <1>1
  <2> QED BY <2>1, <2>2
<1>3. /\ UNCHANGED <<submitted, slices, store, toDump, dumped, processor, writer,
                      dumper, cleanup, wg, exited>>
      /\ PushLine => pushing # <<>>
      /\ WriteLine => writer # "done" /\ pushing' = pushing
      /\ PushLine => processor \in {"pushing", "finalPushing"}
  BY DEF PushLine, WriteLine, dumpVars
<1>4. Conserved'
  BY <1>2, <1>3 DEF PipelineInv, Conserved, Submitted
<1>5. DumpsConserved' /\ Counted' /\ Quitting'
  BY <1>3 DEF PipelineInv, DumpsConserved, InHand, Submitted, Counted, Quitting
<1>6. Emptied'
  BY <1>2, <1>3 DEF PipelineInv, Emptied, Quitting
<1>7. TypeOK'
  BY <1>2, <1>3 DEF S, PipelineInv, TypeOK
<1> QED BY <1>4, <1>5, <1>6, <1>7 DEF PipelineInv

LEMMA DumpToFileKeeps == PipelineInv /\ DumpToFile => PipelineInv'
<1> SUFFICES ASSUME PipelineInv, DumpToFile PROVE PipelineInv'
  OBVIOUS
<1> DEFINE S == 1..Slices
<1>1. /\ dumped \in Seq(S) /\ toDump \in Seq(S) /\ toDump # <<>>
      /\ dumped' = Append(dumped, Head(toDump)) /\ toDump' = Tail(toDump)
      /\ dumper # "done"
      /\ UNCHANGED <<data, dumper, processor, writer, cleanup, wg, exited>>
  BY DEF PipelineInv, TypeOK, DumpToFile
<1> HIDE DEF S
<1>2. /\ dumped' \in Seq(S) /\ toDump' \in Seq(S)
      /\ dumped' \o toDump' = dumped \o toDump
  BY <1>1, MoveHead
<1>3. Len(toDump') = Len(toDump) - 1 /\ Len(toDump) \in Nat
      /\ Len(toDump) <= DumpChanSize /\ DumpChanSize \in Nat
  BY <1>1, HeadTailProperties, LenProperties, CapacityAssumption
     DEF PipelineInv, TypeOK
<1>4. DumpsConserved'
  BY <1>1, <1>2 DEF PipelineInv, DumpsConserved, InHand, Submitted, data
<1>5. Conserved' /\ Counted' /\ Quitting' /\ Emptied'
  BY <1>1 DEF PipelineInv, Conserved, Submitted, Counted, Quitting, Emptied, data
<1>6. TypeOK'
  BY <1>1, <1>2, <1>3 DEF S, PipelineInv, TypeOK, data
<1> QED BY <1>4, <1>5, <1>6 DEF PipelineInv

LEMMA PipelineStep == PipelineInv /\ [Next]_vars => PipelineInv'
<1> SUFFICES ASSUME PipelineInv, [Next]_vars PROVE PipelineInv'
  OBVIOUS
<1>1. CASE UNCHANGED vars
  BY <1>1 DEF vars, PipelineInv, TypeOK, Conserved, DumpsConserved, InHand,
              Submitted, Counted, Quitting, Emptied
<1>2. CASE AddSlice("running", "dumping") \/ AddSlice("clearing", "finalDumping")
  BY <1>2, AddSliceKeeps
<1>3. CASE DumpSlice("dumping", "running") \/ DumpSlice("finalDumping", "clearing")
  BY <1>3, DumpSliceKeeps
<1> QED
  BY <1>1, <1>2, <1>3, SubmitKeeps, ControlKeeps, FlushKeeps, LinesKeep,
     DumpToFileKeeps DEF Next, CleanUpStep, Processor, Writer, Dumper

THEOREM PipelineInvariant == Spec => []PipelineInv
BY PipelineInit, PipelineStep, PTL DEF Spec

(* The channels of the logs collector never exceed their capacities, and   *)
(* its wait group is never below zero.                                     *)
THEOREM PipelineTypeCorrect == Spec => []TypeOK
<1>1. PipelineInv => TypeOK
  BY DEF PipelineInv
<1> QED BY <1>1, PipelineInvariant, PTL

(* No line is lost, doubled or overtaken between a poll and the output     *)
(* file, for any capacity of the channels and any number of generations.   *)
THEOREM NothingLost == Spec => []Conserved
<1>1. PipelineInv => Conserved
  BY DEF PipelineInv
<1> QED BY <1>1, PipelineInvariant, PTL

(* A row of queues of which only the first has something left is that one. *)
LEMMA RestEmpty ==
  ASSUME NEW S, NEW r \in Seq(S)
  PROVE  r \o <<>> = r
BY ConcatEmptySeq

(* What is in the two ends when CleanUp returns, and before.               *)
LEMMA CleanUpLeavesNothing == PipelineInv => CleanUpComplete
<1> SUFFICES ASSUME PipelineInv, cleanup = "done" PROVE CleanUpComplete
  BY DEF CleanUpComplete
<1> DEFINE S == 1..Slices
<1>1. written \in Seq(S) /\ dumped \in Seq(S)
  BY DEF PipelineInv, TypeOK
<1> HIDE DEF S
<1>2. processor = "done" /\ writer = "done" /\ dumper = "done"
  BY DEF PipelineInv, Quitting
<1>3. /\ lines = <<>> /\ pushing = <<>> /\ store = <<>> /\ slices = <<>>
      /\ toDump = <<>> /\ InHand = <<>>
  BY <1>2 DEF PipelineInv, Emptied, InHand
<1>4. written \o <<>> = written /\ dumped \o <<>> = dumped
  BY <1>1, RestEmpty
<1>5. written = Submitted /\ dumped = Submitted
  BY <1>3, <1>4 DEF PipelineInv, Conserved, DumpsConserved
<1> QED BY <1>2, <1>5 DEF CleanUpComplete

(* Whenever CleanUp returns, the file and the dumps are complete and no    *)
(* goroutine of the collector is left to touch them.                       *)
THEOREM CleanUpCompletes == Spec => []CleanUpComplete
BY CleanUpLeavesNothing, PipelineInvariant, PTL

-----------------------------------------------------------------------------
(* The refinement of LogDelivery. *)

(* The next element of a row is the number of those in front of it plus 1. *)
LEMMA NextOfSubmitted ==
  ASSUME TypeOK, NEW s \in Seq(1..Slices), NEW t \in Seq(1..Slices),
         NEW u \in Seq(1..Slices), t # <<>>, s \o t \o u = Submitted
  PROVE  Len(s) < submitted /\ Head(t) = Len(s) + 1
<1> DEFINE S == 1..Slices
<1>1. Submitted \in Seq(S) /\ Len(Submitted) = submitted
      /\ \A i \in 1..submitted : Submitted[i] = i
  BY CapacityAssumption DEF TypeOK, Submitted
<1> HIDE DEF S
<1>2. s \in Seq(S) /\ t \in Seq(S) /\ u \in Seq(S) /\ t # <<>>
  BY DEF S
<1>3. Len(s) < submitted /\ Submitted[Len(s) + 1] = Head(t)
  BY <1>1, <1>2, SecondInRow
<1>4. Len(s) + 1 \in 1..submitted
  BY <1>2, <1>3, LenProperties DEF TypeOK
<1> QED BY <1>1, <1>3, <1>4

(* A line that is written is the one that follows those in the file.       *)
LEMMA WriteIsWrite == PipelineInv /\ WriteLine => Delivery!Write
<1> SUFFICES ASSUME PipelineInv, WriteLine PROVE Delivery!Write
  OBVIOUS
<1> DEFINE S == 1..Slices
           front == written \o lines
           rest == pushing \o store \o slices
<1>1. /\ written \in Seq(S) /\ lines \in Seq(S) /\ pushing \in Seq(S)
      /\ store \in Seq(S) /\ slices \in Seq(S) /\ lines # <<>>
  BY DEF PipelineInv, TypeOK, WriteLine
<1>2. front \in Seq(S) /\ pushing \in Seq(S) /\ store \in Seq(S) /\ slices \in Seq(S)
  BY <1>1, ConcatProperties
<1> HIDE DEF S, front
<1>3. front \o pushing \o store \o slices = front \o rest /\ rest \in Seq(S)
  <2>1. /\ Row(Row(Row(front, pushing), store), slices)
             = Row(front, Row(Row(pushing, store), slices))
        /\ Row(Row(pushing, store), slices) \in Seq(S)
    BY <1>2, Regroup
  <2> QED BY <2>1 DEF Row
<1> HIDE DEF rest
<1>4. written \o lines \o rest = Submitted
  BY <1>3 DEF front, PipelineInv, Conserved
<1>5. Len(written) < submitted /\ Head(lines) = Len(written) + 1
  BY <1>1, <1>3, <1>4, NextOfSubmitted DEF S, PipelineInv
<1>6. cleanup # "done"
  BY <1>1, CleanUpLeavesNothing DEF PipelineInv, Emptied, CleanUpComplete
<1> QED BY <1>5, <1>6 DEF WriteLine, dumpVars, Delivery!Write, Delivery!NextOut

(* A slice that is dumped is the one that follows those dumped before.     *)
LEMMA DumpIsDump == PipelineInv /\ DumpToFile => Delivery!Dump
<1> SUFFICES ASSUME PipelineInv, DumpToFile PROVE Delivery!Dump
  OBVIOUS
<1> DEFINE S == 1..Slices
           rest == InHand \o slices
<1>1. /\ dumped \in Seq(S) /\ toDump \in Seq(S) /\ slices \in Seq(S)
      /\ InHand \in Seq(S) /\ toDump # <<>>
  BY InHandIsASeq DEF PipelineInv, TypeOK, DumpToFile
<1>2. rest \in Seq(S) /\ dumped \o toDump \in Seq(S)
  BY <1>1, ConcatProperties
<1>3. dumped \o toDump \o InHand \o slices = dumped \o toDump \o rest
  BY <1>1, <1>2, ConcatAssociative
<1> HIDE DEF rest
<1>4. Len(dumped) < submitted /\ Head(toDump) = Len(dumped) + 1
  BY <1>1, <1>2, <1>3, NextOfSubmitted DEF PipelineInv, DumpsConserved
<1>5. cleanup # "done"
  BY <1>1, CleanUpLeavesNothing DEF PipelineInv, Emptied, CleanUpComplete
<1> QED BY <1>4, <1>5 DEF DumpToFile, data, Delivery!Dump, Delivery!NextOut

(* When CleanUp returns, both ends have everything.                        *)
LEMMA ReturnIsClose == PipelineInv /\ CleanUpReturns => Delivery!Close
<1> SUFFICES ASSUME PipelineInv, CleanUpReturns PROVE Delivery!Close
  OBVIOUS
<1>1. CleanUpComplete'
  BY ControlKeeps, CleanUpLeavesNothing, PTL DEF CleanUpStep
<1>2. /\ cleanup = "waitingDumper" /\ cleanup' = "done"
      /\ UNCHANGED <<submitted, written, dumped>>
  BY DEF CleanUpReturns, data, dumpVars
<1>3. written = Submitted /\ dumped = Submitted
  BY <1>1, <1>2 DEF CleanUpComplete, Submitted
<1>4. Len(Submitted) = submitted
  BY CapacityAssumption DEF PipelineInv, TypeOK, Submitted
<1> QED BY <1>2, <1>3, <1>4 DEF Delivery!Close

LEMMA DeliveryStep == PipelineInv /\ [Next]_vars => [Delivery!Next]_Delivery!vars
<1> SUFFICES ASSUME PipelineInv, [Next]_vars
             PROVE  Delivery!Next \/ UNCHANGED Delivery!vars
  OBVIOUS
<1> USE DEF Delivery!Next, Delivery!vars
<1>1. CASE Submit
  BY <1>1 DEF Submit, dumpVars, Delivery!Submit
<1>2. CASE CleanUp \/ CleanUpWaits \/ CleanUpQuitsDumper
  BY <1>2 DEF CleanUp, CleanUpWaits, CleanUpQuitsDumper, data, dumpVars
<1>3. CASE CleanUpReturns
  BY <1>3, ReturnIsClose
<1>4. CASE Processor
  BY <1>4 DEF Processor, ProcessorStarts, ProcessorTakesQuit, Flush, PushLine,
     Pushed, AddSlice, DumpSlice, FlushAll, ProcessorQuitsWriter, data, dumpVars
<1>5. CASE Writer
  BY <1>5, WriteIsWrite DEF Writer, WriterStarts, WriterOpens, WriterReturns,
     data, dumpVars
<1>6. CASE Dumper
  BY <1>6, DumpIsDump DEF Dumper, DumperReturns, data
<1>7. CASE UNCHANGED vars
  BY <1>7 DEF vars
<1> QED BY <1>1, <1>2, <1>3, <1>4, <1>5, <1>6, <1>7 DEF Next, CleanUpStep

(* The goroutines and channels of the logs collector implement a file and  *)
(* a row of dumps that only grow by what comes next, and that are complete *)
(* when the collector is closed.                                           *)
THEOREM PipelineDelivers == Spec => DeliverySpec
<1>1. Init => Delivery!Init
  BY DEF Init, Delivery!Init
<1> QED BY <1>1, DeliveryStep, PipelineInvariant, PTL DEF Spec, DeliverySpec, Delivery!Spec

=============================================================================
