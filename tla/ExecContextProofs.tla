--------------------------- MODULE ExecContextProofs ---------------------------
(***************************************************************************)
(* Proofs about ExecContext, for any number of polls that share a context  *)
(* and any set of pod names: the bound on the failures after the cluster   *)
(* has settled.                                                            *)
(***************************************************************************)
EXTENDS ExecContext, FiniteSetTheorems, TLAPS

Inv == TypeOK /\ SettledInv

USE DEF Goto, cluster, history, ClusterLocal

\* The name found is that of a daemon's pod on the node.
LEMMA FoundNameListed ==
  TypeOK => \/ FindPodNameFromPrefix = NoName
            \/ FindPodNameFromPrefix \in pods \cap Pods
BY DEF TypeOK, FindPodNameFromPrefix

\* Once the cluster has settled, it is the name of the one pod there is.
LEMMA FoundNameCurrent ==
  ASSUME TypeOK, NEW n \in Pods, pods \ DebugPods = {n}
  PROVE  FindPodNameFromPrefix = n /\ n # NoName /\ pods \cap Pods = {n}
<1>1. n # NoName /\ pods \cap Pods = {n}
  BY PodNamesAssumption
<1> QED BY <1>1 DEF FindPodNameFromPrefix

LEMMA InitInv == Init => Inv
<1> SUFFICES ASSUME Init PROVE Inv
  OBVIOUS
<1>1. PICK n \in Pods : podName = n /\ used = {n}
  BY DEF Init
<1>2. PICK D \in SUBSET DebugPods : pods = used \cup D /\ ready = pods
  BY DEF Init
<1>3. TypeOK
  BY <1>1, <1>2 DEF Init, TypeOK
<1> QED BY <1>3 DEF Init, Inv, SettledInv

\* Types: the steps of the polls.
LEMMA PollStepType ==
  ASSUME TypeOK, NEW p \in Polls, PollStep(p) PROVE TypeOK'
<1> USE DEF TypeOK
<1>1. CASE Begin(p)
  BY <1>1 DEF Begin
<1>2. CASE CommandSucceeds(p)
  BY <1>2 DEF CommandSucceeds
<1>3. CASE CommandFails(p)
  BY <1>3 DEF CommandFails
<1>4. CASE CommandNotFound(p)
  BY <1>4 DEF CommandNotFound
<1>5. CASE ListAnswers(p)
  <2>1. FindPodNameFromPrefix \in Pods \cup {NoName}
    BY FoundNameListed
  <2> QED BY <1>5, <2>1 DEF ListAnswers
<1>6. CASE Refresh(p)
  <2>1. podName' \in Pods /\ reverted' \subseteq Polls
    BY <1>6 DEF Refresh
  <2>2. failures' \in [Polls -> Nat]
    BY <1>6 DEF Refresh, CountFailure
  <2>3. state' \in [Polls -> {"idle", "running", "refreshing", "assigning"}]
    BY <1>6 DEF Refresh
  <2> QED BY <1>6, <2>1, <2>2, <2>3 DEF Refresh
<1> QED BY <1>1, <1>2, <1>3, <1>4, <1>5, <1>6 DEF PollStep

LEMMA ClusterStepType == TypeOK /\ ClusterStep => TypeOK'
<1> SUFFICES ASSUME TypeOK, ClusterStep PROVE TypeOK'
  OBVIOUS
<1> USE DEF TypeOK
<1>1. ASSUME NEW n \in Pods, PodCreated(n) PROVE TypeOK'
  BY <1>1 DEF PodCreated
<1>2. ASSUME NEW n \in DebugPods, DebugPodCreated(n) PROVE TypeOK'
  BY <1>2 DEF DebugPodCreated
<1>3. ASSUME NEW n \in Pods \cup DebugPods, PodReady(n) PROVE TypeOK'
  BY <1>3 DEF PodReady
<1>4. ASSUME NEW n \in Pods \cup DebugPods, PodDeleted(n) PROVE TypeOK'
  BY <1>4 DEF PodDeleted
<1>5. CASE Settle
  BY <1>5 DEF Settle
<1> QED BY <1>1, <1>2, <1>3, <1>4, <1>5 DEF ClusterStep

-----------------------------------------------------------------------------
\* What a poll can still do wrong is counted in Left.
LEMMA LeftBounds ==
  ASSUME TypeOK, NEW p \in Polls PROVE Left(p) \in 0..2
BY DEF TypeOK, Left

\* A step of p that stores no name of a gone pod leaves the others no worse.
LEMMA PollStepSettled ==
  ASSUME Inv, settled, NEW p \in Polls, PollStep(p), ~HoldsStale(p)
  PROVE  SettledInv'
<1> USE DEF Inv
<1>1. PICK n \in Pods : pods \ DebugPods = {n} /\ n \in ready
  BY DEF SettledInv
<1>2. /\ FindPodNameFromPrefix = n /\ n # NoName /\ pods \cap Pods = {n}
  BY <1>1, FoundNameCurrent
<1>3. UNCHANGED cluster /\ reverted' = reverted
  BY DEF PollStep, Begin, CommandSucceeds, CommandFails, CommandNotFound,
         ListAnswers, Refresh, HoldsStale, Stale
<1>4. podName' \in pods \/ podName' = podName
  BY DEF PollStep, Begin, CommandSucceeds, CommandFails, CommandNotFound,
         ListAnswers, Refresh, HoldsStale, Stale
<1>5. ASSUME NEW q \in Polls \ {p}
      PROVE  /\ HoldsStale(q)' <=> HoldsStale(q)
             /\ failures'[q] = failures[q] /\ Left(q)' <= Left(q)
  <2>1. /\ state'[q] = state[q] /\ answer'[q] = answer[q]
        /\ target'[q] = target[q] /\ failures'[q] = failures[q]
    BY <1>5 DEF PollStep, Begin, CommandSucceeds, CommandFails, CommandNotFound,
           ListAnswers, Refresh, CountFailure, TypeOK
  <2>2. HoldsStale(q)' <=> HoldsStale(q)
    BY <1>3, <2>1 DEF HoldsStale, Stale
  <2>3. Left(q)' <= Left(q)
    <3>1. state[q] \in {"idle", "running", "refreshing", "assigning"}
      BY DEF TypeOK
    <3> QED BY <1>3, <1>4, <2>1, <3>1 DEF Left
  <2> QED BY <2>1, <2>2, <2>3
<1>6. ~HoldsStale(p)' /\ failures'[p] + Left(p)' <= failures[p] + Left(p)
  <2>1. failures[p] \in Nat /\ podName \in Pods /\ target[p] \in Pods
    BY DEF TypeOK
  <2>2. CASE Begin(p)
    <3>1. state'[p] = "running" /\ state[p] = "idle" /\ target'[p] = podName
      BY <2>2 DEF Begin, TypeOK
    <3>2. podName' = podName /\ failures' = failures /\ pods' = pods
      BY <2>2 DEF Begin
    <3> QED BY <2>1, <3>1, <3>2 DEF Left, HoldsStale
  <2>3. CASE CommandSucceeds(p)
    <3>1. state'[p] = "idle" /\ state[p] = "running" /\ target[p] \in pods
      BY <2>3 DEF CommandSucceeds, TypeOK
    <3>2. podName' = podName /\ failures' = failures /\ pods' = pods
      BY <2>3 DEF CommandSucceeds
    <3> QED BY <2>1, <3>1, <3>2 DEF Left, HoldsStale
  <2>4. CASE CommandNotFound(p)
    <3>1. state'[p] = "refreshing" /\ state[p] = "running" /\ target[p] \notin pods
      BY <2>4 DEF CommandNotFound, TypeOK
    <3>2. podName' = podName /\ failures' = failures /\ pods' = pods
      BY <2>4 DEF CommandNotFound
    <3> QED BY <2>1, <3>1, <3>2 DEF Left, HoldsStale
  <2>5. CASE ListAnswers(p)
    <3>1. /\ state'[p] = "assigning" /\ state[p] = "refreshing"
          /\ answer'[p] = n
      BY <2>5, <1>2 DEF ListAnswers, TypeOK
    <3>2. podName' = podName /\ failures' = failures /\ pods' = pods
      BY <2>5 DEF ListAnswers
    <3> QED BY <1>1, <1>2, <2>1, <3>1, <3>2 DEF Left, HoldsStale, Stale
  <2>6. CASE Refresh(p)
    <3>1. state'[p] = "idle" /\ state[p] = "assigning" /\ pods' = pods
      BY <2>6 DEF Refresh, TypeOK
    <3>2. failures'[p] <= failures[p] + 1 /\ failures'[p] \in Nat
      BY <2>6, <2>1 DEF Refresh, CountFailure, TypeOK
    <3>3. CASE answer[p] = NoName
      <4>1. podName' = podName
        BY <2>6, <3>3 DEF Refresh
      <4> QED BY <2>1, <3>1, <3>2, <3>3, <4>1 DEF Left, HoldsStale
    <3>4. CASE answer[p] # NoName
      <4>1. podName' \in pods'
        BY <2>6, <3>1, <3>4 DEF Refresh, HoldsStale, Stale
      <4> QED BY <2>1, <3>1, <3>2, <3>4, <4>1 DEF Left, HoldsStale
    <3> QED BY <3>3, <3>4
  <2>7. ~CommandFails(p)
    BY DEF CommandFails
  <2> QED BY <2>2, <2>3, <2>4, <2>5, <2>6, <2>7 DEF PollStep
<1>7. TypeOK'
  BY PollStepType
<1>8. ASSUME NEW q \in Polls
      PROVE  /\ HoldsStale(q)' => q \notin reverted'
             /\ failures'[q] + Left(q)' <= 2 + Cardinality(reverted')
  <2>1. Left(q) \in 0..2 /\ Left(q)' \in 0..2
    BY <1>7 DEF TypeOK, Left
  <2>2. failures[q] \in Nat /\ failures'[q] \in Nat
    BY <1>7 DEF TypeOK
  <2>3. failures[q] + Left(q) <= 2 + Cardinality(reverted)
    BY DEF SettledInv
  <2>4. Cardinality(reverted) \in Nat
    BY PollsAssumption, FS_Subset, FS_CardinalityType DEF TypeOK
  <2>5. HoldsStale(q) => q \notin reverted
    BY DEF SettledInv
  <2>6. CASE q = p
    BY <1>3, <1>6, <2>1, <2>2, <2>3, <2>4, <2>6
  <2>7. CASE q # p
    <3>1. q \in Polls \ {p}
      BY <2>7
    <3> QED BY <1>3, <1>5, <2>1, <2>2, <2>3, <2>4, <2>5, <3>1
  <2> QED BY <2>6, <2>7
<1>9. n \in Pods /\ pods' \ DebugPods = {n} /\ n \in ready'
  BY <1>1, <1>3
<1> QED BY <1>8, <1>9 DEF SettledInv

\* A poll that brings back the name of a gone pod does so for the first time.
LEMMA RevertSettled ==
  ASSUME Inv, settled, NEW p \in Polls, PollStep(p), HoldsStale(p)
  PROVE  SettledInv'
<1> USE DEF Inv
<1>1. state[p] = "assigning" /\ answer[p] # NoName /\ answer[p] \notin pods
  BY DEF HoldsStale, Stale
<1>2. Refresh(p)
  BY <1>1 DEF PollStep, Begin, CommandSucceeds, CommandFails, CommandNotFound,
              ListAnswers
<1>3. UNCHANGED cluster /\ reverted' = reverted \cup {p} /\ podName' = answer[p]
  BY <1>1, <1>2 DEF Refresh
<1>4. p \notin reverted
  BY DEF SettledInv
<1>5. IsFiniteSet(reverted)
  BY PollsAssumption, FS_Subset DEF TypeOK
<1>6. Cardinality(reverted') = Cardinality(reverted) + 1 /\ Cardinality(reverted) \in Nat
  BY <1>3, <1>4, <1>5, FS_AddElement, FS_CardinalityType
<1>7. ASSUME NEW q \in Polls
      PROVE  /\ HoldsStale(q)' => q \notin reverted'
             /\ failures'[q] + Left(q)' <= 2 + Cardinality(reverted')
  <2>1. failures[q] \in Nat /\ failures[q] + Left(q) <= 2 + Cardinality(reverted)
        /\ (HoldsStale(q) => q \notin reverted)
    BY DEF SettledInv, TypeOK
  <2>2. CASE q = p
    <3>1. state'[p] = "idle"
      BY <1>2 DEF Refresh, TypeOK
    <3>2. failures'[p] <= failures[p] + 1 /\ failures'[p] \in Nat
      BY <1>2 DEF Refresh, CountFailure, TypeOK
    <3>3. Left(p) = 1 /\ Left(p)' = 1
      BY <1>1, <1>3, <3>1 DEF Left
    <3> QED BY <1>6, <2>1, <2>2, <3>1, <3>2, <3>3 DEF HoldsStale
  <2>3. CASE q # p
    <3>1. /\ state'[q] = state[q] /\ answer'[q] = answer[q]
          /\ target'[q] = target[q] /\ failures'[q] = failures[q]
      BY <1>2, <2>3 DEF Refresh, CountFailure, TypeOK
    <3>2. state[q] \in {"idle", "running", "refreshing", "assigning"}
      BY DEF TypeOK
    <3>3. Left(q) \in 0..2 /\ Left(q)' <= Left(q) + 1 /\ Left(q)' \in 0..2
      BY <1>3, <3>1, <3>2 DEF Left
    <3>4. HoldsStale(q)' <=> HoldsStale(q)
      BY <1>3, <3>1 DEF HoldsStale, Stale
    <3> QED BY <1>3, <1>6, <2>1, <2>3, <3>1, <3>3, <3>4
  <2> QED BY <2>2, <2>3
<1> QED BY <1>3, <1>7 DEF SettledInv

\* The cluster settles, or does nothing any more that matters.
LEMMA ClusterStepSettled == Inv /\ ClusterStep /\ settled => SettledInv'
<1> SUFFICES ASSUME Inv, ClusterStep, settled PROVE SettledInv'
  OBVIOUS
<1>1. PICK n \in Pods \cup DebugPods : PodReady(n)
  BY DEF ClusterStep, PodCreated, DebugPodCreated, PodDeleted, Settle
<1>2. UNCHANGED <<pods, settled, podName, state, target, answer, history>>
      /\ ready \subseteq ready'
  BY <1>1 DEF PodReady
<1> QED BY <1>2 DEF Inv, SettledInv, HoldsStale, Stale, Left

\* The history is empty before the cluster settles.
Unsettled == ~settled => reverted = {} /\ failures = [p \in Polls |-> 0]

LEMMA SettleInv == Inv /\ Unsettled /\ Settle => SettledInv'
<1> SUFFICES ASSUME Inv, Unsettled, Settle PROVE SettledInv'
  OBVIOUS
<1>1. UNCHANGED <<podName, state, target, answer, pods, ready, failures, reverted>>
  BY DEF Settle
<1>2. reverted = {} /\ \A p \in Polls : failures[p] = 0
  BY DEF Unsettled, Settle
<1>3. \E n \in Pods : pods \ DebugPods = {n} /\ n \in ready
  BY DEF Settle
<1>4. \A p \in Polls : Left(p)' = Left(p) /\ Left(p) \in 0..2
  BY <1>1, LeftBounds DEF Left, Inv
<1>5. Cardinality(reverted') \in Nat
  BY <1>1, <1>2, FS_EmptySet
<1> QED BY <1>1, <1>2, <1>3, <1>4, <1>5 DEF SettledInv

LEMMA UnsettledStep == Unsettled /\ [Next]_vars => Unsettled'
<1> SUFFICES ASSUME Unsettled, [Next]_vars PROVE Unsettled'
  OBVIOUS
<1> USE DEF Unsettled
<1>1. ASSUME NEW p \in Polls, PollStep(p) PROVE Unsettled'
  BY <1>1 DEF PollStep, Begin, CommandSucceeds, CommandFails, CommandNotFound,
              ListAnswers, Refresh, CountFailure
<1>2. CASE ClusterStep
  BY <1>2 DEF ClusterStep, PodCreated, DebugPodCreated, PodReady, PodDeleted,
              Settle
<1>3. CASE UNCHANGED vars
  BY <1>3 DEF vars
<1> QED BY <1>1, <1>2, <1>3 DEF Next

LEMMA InvStep == Inv /\ Unsettled /\ [Next]_vars => Inv'
<1> SUFFICES ASSUME Inv, Unsettled, [Next]_vars PROVE Inv'
  OBVIOUS
<1>1. ASSUME NEW p \in Polls, PollStep(p) PROVE Inv'
  <2>1. settled' = settled
    BY <1>1 DEF PollStep, Begin, CommandSucceeds, CommandFails, CommandNotFound,
                ListAnswers, Refresh
  <2>2. CASE ~settled
    BY <1>1, <2>1, <2>2, PollStepType DEF Inv, SettledInv
  <2>3. CASE settled
    BY <1>1, <2>3, PollStepType, PollStepSettled, RevertSettled DEF Inv
  <2> QED BY <2>2, <2>3
<1>2. CASE ClusterStep
  <2>1. CASE settled
    BY <1>2, <2>1, ClusterStepType, ClusterStepSettled DEF Inv
  <2>2. CASE ~settled /\ ~settled'
    BY <1>2, <2>2, ClusterStepType DEF Inv, SettledInv
  <2>3. CASE ~settled /\ settled'
    <3>1. Settle
      BY <1>2, <2>3 DEF ClusterStep, PodCreated, DebugPodCreated, PodReady,
                        PodDeleted
    <3> QED BY <1>2, <3>1, ClusterStepType, SettleInv DEF Inv
  <2> QED BY <2>1, <2>2, <2>3
<1>3. CASE UNCHANGED vars
  BY <1>3 DEF vars, Inv, TypeOK, SettledInv, HoldsStale, Stale, Left
<1> QED BY <1>1, <1>2, <1>3 DEF Next

THEOREM Inductive == Spec => [](Inv /\ Unsettled)
<1>1. Init => Unsettled
  BY DEF Init, Unsettled
<1> QED BY <1>1, InitInv, InvStep, UnsettledStep, PTL DEF Spec

(* The name the context holds is always that of a daemon's pod, never of a *)
(* debug pod and never empty, whatever the refreshes find.                 *)
THEOREM TypeCorrect == Spec => []TypeOK
<1>1. Inv => TypeOK
  BY DEF Inv
<1> QED BY <1>1, Inductive, PTL

(* For any number of polls that share the context without a lock: after    *)
(* the cluster has settled each of them fails at most twice, and once more *)
(* for every poll that stores an answer from before.                       *)
THEOREM QuickRecovery == Spec => []FailuresBounded
<1>1. Inv /\ Unsettled => FailuresBounded
  <2> SUFFICES ASSUME Inv, Unsettled, NEW p \in Polls PROVE failures[p] <= Limit
    BY DEF FailuresBounded
  <2>1. Cardinality(Polls) \in Nat /\ Cardinality(reverted) \in Nat
        /\ Cardinality(reverted) <= Cardinality(Polls)
    BY PollsAssumption, FS_Subset, FS_CardinalityType DEF Inv, TypeOK
  <2>2. failures[p] \in Nat /\ Left(p) \in 0..2
    BY LeftBounds DEF Inv, TypeOK
  <2>3. CASE settled
    BY <2>1, <2>2, <2>3 DEF Inv, SettledInv, Limit
  <2>4. CASE ~settled
    BY <2>1, <2>4 DEF Unsettled, Limit
  <2> QED BY <2>3, <2>4
<1> QED BY <1>1, Inductive, PTL

=============================================================================
