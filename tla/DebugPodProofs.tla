--------------------------- MODULE DebugPodProofs ---------------------------
(***************************************************************************)
(* Proofs about DebugPod, for any number of commands of every kind:        *)
(* IndInv is inductive, and the safety properties follow from it.          *)
(***************************************************************************)
EXTENDS DebugPod, SequenceTheorems, TLAPS

(* The end of a sequence from some element on.                             *)
LEMMA Suffix ==
  ASSUME NEW S, NEW s \in Seq(S), NEW v \in 1..Len(s)
  PROVE  LET t == SubSeq(s, v, Len(s)) IN
         /\ t \in Seq(S) /\ t # <<>> /\ t[1] = s[v] /\ t[Len(t)] = s[Len(s)]
         /\ \A i \in DOMAIN t : \E j \in DOMAIN s : t[i] = s[j]
<1> DEFINE n == Len(s)
           t == SubSeq(s, v, n)
<1>1. n \in Nat /\ v \in Int /\ v <= n /\ 1 <= v
  OBVIOUS
<1>2. \A i \in v..n : s[i] \in S
  BY <1>1
<1>3. /\ t \in Seq(S) /\ Len(t) = n - v + 1
      /\ \A i \in 1..(n - v + 1) : t[i] = s[v + i - 1]
  BY <1>1, <1>2, SubSeqProperties
<1> HIDE DEF n, t
<1>4. 1 \in 1..(n - v + 1) /\ n - v + 1 \in 1..(n - v + 1)
  BY <1>1
<1>5. t[1] = s[v] /\ t[Len(t)] = s[n]
  <2>1. v + 1 - 1 = v /\ v + (n - v + 1) - 1 = n
    BY <1>1
  <2> QED
    BY <2>1, <1>3, <1>4
<1>6. \A i \in DOMAIN t : \E j \in DOMAIN s : t[i] = s[j]
  <2> TAKE i \in DOMAIN t
  <2>1. i \in 1..(n - v + 1)
    BY <1>3
  <2>2. v + i - 1 \in DOMAIN s
    BY <2>1, <1>1 DEF n
  <2> QED
    BY <2>1, <2>2, <1>3
<1>7. t # <<>>
  BY <1>3, <1>4, EmptySeq
<1> QED
  BY <1>3, <1>5, <1>6, <1>7 DEF n, t

Remembers(s, p) ==
  /\ s[1] # NoPod /\ s[Len(s)] = p
  /\ \A v \in DOMAIN s : s[v] # NoPod => s[v].ours

(* What a command remembers of the pod stays right when the pod changes,   *)
(* as long as the change does not turn it into one with another image.     *)
LEMMA NoticedRemembers ==
  ASSUME TypeOK, SinceUpToNow, NEW p \in PodState,
         p # NoPod => p.ours \/ (pod # NoPod /\ p.ours = pod.ours),
         NEW c \in Commands
  PROVE  /\ Noticed(p)[c] \in Seq(PodState)
         /\ Noticed(p)[c] = <<>> <=> since[c] = <<>>
         /\ since[c] # <<>> => /\ Noticed(p)[c][1] = since[c][1]
                               /\ Remembers(Noticed(p)[c], p)
<1>1. since[c] \in Seq(PodState)
  BY DEF TypeOK
<1>2. CASE since[c] = <<>>
  BY <1>1, <1>2 DEF Noticed
<1>3. CASE since[c] # <<>> /\ p = pod
  BY <1>1, <1>3 DEF Noticed, Remembers, SinceUpToNow
<1>4. CASE since[c] # <<>> /\ p # pod
  <2> DEFINE s == Append(since[c], p)
  <2>1. Noticed(p)[c] = s
    BY <1>4 DEF Noticed
  <2>2. /\ s \in Seq(PodState) /\ Len(s) = Len(since[c]) + 1
        /\ \A v \in 1..Len(since[c]) : s[v] = since[c][v]
        /\ s[Len(s)] = p /\ Len(since[c]) > 0
    BY <1>1, <1>4
  <2>3. /\ since[c][1] # NoPod /\ since[c][Len(since[c])] = pod
        /\ \A v \in DOMAIN since[c] : since[c][v] # NoPod => since[c][v].ours
    BY <1>4 DEF SinceUpToNow
  <2>4. p # NoPod => p.ours
    BY <1>1, <2>2, <2>3
  <2>5. \A v \in DOMAIN s : s[v] # NoPod => s[v].ours
    BY <1>1, <2>2, <2>3, <2>4
  <2> QED
    BY <2>1, <2>2, <2>3, <2>5 DEF Remembers
<1> QED
  BY <1>2, <1>3, <1>4

LEMMA InitInd == Init => IndInv
<1> SUFFICES ASSUME Init PROVE IndInv
  OBVIOUS
<1>1. NoPod \in PodState /\ LeftOvers \subseteq PodState /\ pod.born <= 1
  BY DEF Init, NoPod, LeftOvers, PodState
<1>2. pod.by = None
  BY DEF Init, NoPod, LeftOvers
<1>3. TypeOK
  <2>1. <<>> \in Seq(PodState) /\ 0 \in 0..births /\ pod \in PodState
    BY <1>1 DEF Init
  <2>2. \A c \in Commands : (IF c \in Stops THEN "delete" ELSE "create") \in Places
    BY DEF Places
  <2> QED
    BY <1>1, <2>1, <2>2 DEF Init, TypeOK
<1>4. SinceUpToNow /\ PlacesReached /\ ReadyPodRan /\ DeletedIsGone
  BY KindsAssumption DEF Init, SinceUpToNow, PlacesReached, ReadyPodRan,
                         DeletedIsGone, Commands
<1>5. UnmanagedHandsOff
  BY <1>2, NoneAssumption DEF Init, UnmanagedHandsOff, Commands
<1> QED
  BY <1>3, <1>4, <1>5 DEF IndInv

-----------------------------------------------------------------------------
(* Steps of a command that leave the cluster alone. *)

(* A command goes from one place to another and may look at the pod.       *)
LEMMA LocalStep ==
  ASSUME IndInv, NEW c \in Commands, NEW to \in Places,
         NEW states \in Seq(PodState),
         pc' = [pc EXCEPT ![c] = to], since' = [since EXCEPT ![c] = states],
         UNCHANGED <<cluster, deleted>>,
         states # <<>> => Remembers(states, pod),
         to \in {"createLook", "waitStart", "ready", "deleteLook", "deletePod"}
           => states # <<>>,
         to = "ready" => states[1].ours /\ states[1].phase = "Running",
         deleted[c] # 0 => to \in {"waitGone"} \cup Ended,
         deleted[c] # 0 /\ to = "succeeded" => pod.born # deleted[c],
         c \in Unmanaged =>
           to \notin {"createPod", "delete", "deleteLook", "deletePod", "waitGone"}
  PROVE  IndInv'
<1>1. TypeOK'
  BY DEF IndInv, TypeOK, cluster
<1>2. /\ pc'[c] = to /\ since'[c] = states
      /\ \A d \in Commands \ {c} : pc'[d] = pc[d] /\ since'[d] = since[d]
  BY DEF IndInv, TypeOK
<1>3. SinceUpToNow'
  BY <1>2 DEF IndInv, SinceUpToNow, Remembers, cluster
<1>4. PlacesReached'
  BY <1>2 DEF IndInv, PlacesReached
<1>5. ReadyPodRan'
  BY <1>2 DEF IndInv, ReadyPodRan
<1>6. DeletedIsGone' /\ UnmanagedHandsOff'
  BY <1>2 DEF IndInv, DeletedIsGone, UnmanagedHandsOff, cluster
<1> QED
  BY <1>1, <1>3, <1>4, <1>5, <1>6 DEF IndInv

(* A command ends: nothing is asked of it but that it ends well only if    *)
(* what it has deleted is gone.                                            *)
LEMMA EndStep ==
  ASSUME IndInv, NEW c \in Commands, NEW from, NEW how \in Ended,
         End(c, from, how),
         deleted[c] # 0 /\ how = "succeeded" => pod.born # deleted[c]
  PROVE  IndInv'
<1>1. how \in Places /\ Kept(how, <<>>) = <<>> /\ <<>> \in Seq(PodState)
  BY DEF Ended, Places, Kept
<1> QED
  BY <1>1, LocalStep DEF End, Goto, Holds, Ended

(* checkForLeftOverPod: what c.pod holds afterwards is the pod as it is,   *)
(* or what it held before.                                                 *)
LEMMA LeftOverStep ==
  ASSUME IndInv, NEW c \in Commands, NEW from, deleted[c] = 0,
         NEW found \in {"createLook", "deleteLook"},
         NEW none \in {"createPod", "succeeded", "failed"},
         checkForLeftOverPod(c, from, found, none),
         c \in Unmanaged => found # "deleteLook" /\ none # "createPod"
  PROVE  IndInv'
<1> DEFINE states == IF pod.ours THEN <<pod>> ELSE since[c]
           to == IF states = <<>> THEN none ELSE found
           kept == Kept(to, states)
<1>1. /\ pc' = [pc EXCEPT ![c] = to] /\ since' = [since EXCEPT ![c] = kept]
      /\ UNCHANGED <<cluster, deleted>>
  BY DEF checkForLeftOverPod, Goto, Holds
<1>2. states \in Seq(PodState) /\ (states # <<>> => Remembers(states, pod))
  <2>1. CASE pod.ours
    <3>1. <<pod>> \in Seq(PodState) /\ Len(<<pod>>) = 1 /\ <<pod>>[1] = pod
          /\ DOMAIN <<pod>> = {1}
      BY DEF IndInv, TypeOK
    <3>2. pod # NoPod
      BY <2>1 DEF NoPod
    <3> QED
      BY <2>1, <3>1, <3>2 DEF Remembers
  <2>2. CASE ~pod.ours
    BY <2>2 DEF IndInv, TypeOK, SinceUpToNow, Remembers
  <2> QED
    BY <2>1, <2>2
<1>3. to \in Places /\ (to \notin Ended /\ to # "createPod" => states # <<>>)
  BY DEF Places, Ended
<1>4. kept \in Seq(PodState) /\ (kept # <<>> => Remembers(kept, pod))
      /\ (to \notin Ended => kept = states)
  BY <1>2 DEF Kept
<1>5. /\ to # "ready" /\ to \notin {"delete", "deletePod", "waitGone"}
      /\ c \in Unmanaged => to \notin {"createPod", "deleteLook"}
  OBVIOUS
<1>6. to \in {"createLook", "waitStart", "ready", "deleteLook", "deletePod"}
        => kept # <<>>
  BY <1>3, <1>4 DEF Ended
<1> HIDE DEF states, to, kept
<1> QED
  BY <1>1, <1>3, <1>4, <1>5, <1>6, LocalStep

(* isPodRunning: c.pod moves on to a later state of the pod, which has     *)
(* the same image or is none at all.                                       *)
LEMMA RunningStep ==
  ASSUME IndInv, NEW c \in Commands, NEW from, deleted[c] = 0,
         NEW running \in {"waitStart", "ready", "deletePod", "succeeded"},
         NEW notRunning \in {"createPod", "waitStart", "succeeded", "failed"},
         isPodRunning(c, from, running, notRunning),
         c \in Unmanaged => running # "deletePod" /\ notRunning # "createPod"
  PROVE  IndInv'
<1>1. PICK v \in DOMAIN since[c] :
        LET answer == since[c][v]
            to == CASE answer = NoPod -> "failed"
                    [] answer.phase = "Running" -> running
                    [] OTHER -> notRunning
        IN  /\ Goto(c, from, to)
            /\ Holds(c, to, SubSeq(since[c], v, Len(since[c])))
            /\ UNCHANGED <<cluster, deleted>>
  BY DEF isPodRunning
<1> DEFINE answer == since[c][v]
           to == CASE answer = NoPod -> "failed"
                   [] answer.phase = "Running" -> running
                   [] OTHER -> notRunning
           later == SubSeq(since[c], v, Len(since[c]))
           kept == Kept(to, later)
<1>2. /\ pc' = [pc EXCEPT ![c] = to] /\ since' = [since EXCEPT ![c] = kept]
      /\ UNCHANGED <<cluster, deleted>>
  BY <1>1 DEF Goto, Holds
<1>3. /\ since[c] \in Seq(PodState) /\ v \in 1..Len(since[c]) /\ since[c] # <<>>
  BY DEF IndInv, TypeOK
<1>4. /\ later \in Seq(PodState) /\ later # <<>> /\ later[1] = answer
      /\ later[Len(later)] = since[c][Len(since[c])]
      /\ \A i \in DOMAIN later : \E j \in DOMAIN since[c] : later[i] = since[c][j]
  <2>1. later \in Seq(PodState) /\ later # <<>> /\ later[1] = since[c][v]
    BY <1>3, Suffix
  <2>2. later[Len(later)] = since[c][Len(since[c])]
    BY <1>3, Suffix
  <2>3. \A i \in DOMAIN later : \E j \in DOMAIN since[c] : later[i] = since[c][j]
    BY <1>3, Suffix
  <2> QED
    BY <2>1, <2>2, <2>3
<1> HIDE DEF later
<1>5. /\ since[c][Len(since[c])] = pod
      /\ \A i \in DOMAIN since[c] : since[c][i] # NoPod => since[c][i].ours
  BY <1>3 DEF IndInv, SinceUpToNow
<1>6. answer # NoPod => Remembers(later, pod) /\ answer.ours
  <2>1. \A i \in DOMAIN later : later[i] # NoPod => later[i].ours
    BY <1>4, <1>5
  <2> QED
    BY <2>1, <1>3, <1>4, <1>5 DEF Remembers
<1>7. CASE answer = NoPod
  <2>0. to = "failed"
    BY <1>7 DEF NoPod
  <2>1. to = "failed" /\ kept = <<>> /\ <<>> \in Seq(PodState) /\ to \in Places
    BY <2>0 DEF Kept, Ended, Places
  <2> HIDE DEF to, kept
  <2> QED
    BY <2>1, <1>2, LocalStep DEF Ended
<1>8. CASE answer # NoPod
  <2>1. to = IF answer.phase = "Running" THEN running ELSE notRunning
    BY <1>8
  <2>2. /\ to \in Places /\ (c \in Unmanaged => to \notin {"createPod", "deletePod"})
        /\ to \notin {"delete", "deleteLook", "waitGone"}
        /\ to = "ready" => answer.phase = "Running"
    BY <2>1 DEF Places
  <2>3. kept \in Seq(PodState) /\ (kept # <<>> => Remembers(kept, pod))
        /\ (to \notin Ended => kept = later)
    <3> HIDE DEF to, later
    <3>1. <<>> \in Seq(PodState) /\ later \in Seq(PodState) /\ Remembers(later, pod)
      BY <1>4, <1>6, <1>8
    <3> QED
      BY <3>1 DEF Kept
  <2>4. to = "ready" => kept[1].ours /\ kept[1].phase = "Running"
    BY <2>2, <2>3, <1>4, <1>6, <1>8 DEF Ended
  <2>5. to \in {"createLook", "waitStart", "ready", "deleteLook", "deletePod"}
          => kept # <<>>
    BY <2>3, <1>4 DEF Ended
  <2> HIDE DEF to, kept, answer
  <2> QED
    BY <2>2, <2>3, <2>4, <2>5, <1>2, LocalStep
<1> QED
  BY <1>7, <1>8

-----------------------------------------------------------------------------
(* Steps that change the cluster. *)

(* The pod changes by itself or because one command deletes it: it keeps   *)
(* its birth and its image, or there is none any more.                     *)
LEMMA PodStep ==
  ASSUME IndInv, NEW p \in PodState, pod # NoPod,
         p = NoPod \/ (p.born = pod.born /\ p.by = pod.by /\ p.ours = pod.ours),
         pod' = p, births' = births, failed' \in BOOLEAN,
         since' \in [Commands -> Seq(PodState)],
         \A c \in Commands : since'[c] \in {Noticed(p)[c], <<>>},
         \A c \in Commands : pc'[c] \in {"createLook", "waitStart", "ready",
           "deleteLook", "deletePod"} => pc'[c] = pc[c] /\ since'[c] = Noticed(p)[c],
         pc' \in [Commands -> Places], deleted' \in [Commands -> 0..births],
         \A c \in Commands :
           \/ pc'[c] = pc[c] /\ deleted'[c] = deleted[c]
           \/ pc[c] = "deletePod" /\ pc'[c] \in {"waitGone", "failed"}
  PROVE  IndInv'
<1>1. TypeOK'
  BY DEF IndInv, TypeOK, NoPod
<1>2. p # NoPod => p.ours \/ (pod # NoPod /\ p.ours = pod.ours)
  OBVIOUS
<1>3. \A c \in Commands :
        /\ Noticed(p)[c] = <<>> <=> since[c] = <<>>
        /\ since[c] # <<>> => /\ Noticed(p)[c][1] = since[c][1]
                              /\ Remembers(Noticed(p)[c], p)
  BY <1>2, NoticedRemembers DEF IndInv
<1>4. SinceUpToNow'
  BY <1>3 DEF SinceUpToNow, Remembers
<1>5. PlacesReached'
  <2> SUFFICES ASSUME NEW c \in Commands
               PROVE  /\ deleted'[c] # 0 => pc'[c] \in {"waitGone"} \cup Ended
                      /\ pc'[c] \in {"createLook", "waitStart", "ready", "deleteLook",
                                    "deletePod"} => since'[c] # <<>>
                      /\ c \in Unmanaged => pc'[c] \notin {"createPod", "delete",
                           "deleteLook", "deletePod", "waitGone"}
    BY DEF PlacesReached
  <2>1. CASE pc'[c] = pc[c] /\ deleted'[c] = deleted[c]
    BY <2>1, <1>3 DEF IndInv, PlacesReached
  <2>2. CASE pc[c] = "deletePod" /\ pc'[c] \in {"waitGone", "failed"}
    BY <2>2 DEF IndInv, PlacesReached, Ended
  <2> QED
    BY <2>1, <2>2
<1>6. ReadyPodRan'
  BY <1>3 DEF IndInv, ReadyPodRan, PlacesReached
<1>7. DeletedIsGone'
  <2> SUFFICES ASSUME NEW c \in Commands, pc'[c] = "succeeded", deleted'[c] # 0
               PROVE  p.born # deleted'[c]
    BY DEF DeletedIsGone
  <2>1. pc[c] = "succeeded" /\ deleted'[c] = deleted[c]
    OBVIOUS
  <2> QED
    BY <2>1 DEF IndInv, DeletedIsGone, NoPod
<1>8. UnmanagedHandsOff'
  <2>1. p.by \notin Unmanaged
    BY NoneAssumption DEF IndInv, UnmanagedHandsOff, NoPod
  <2>2. \A c \in Unmanaged : c \in Commands /\ pc[c] # "deletePod"
    BY DEF IndInv, PlacesReached, Commands
  <2> QED
    BY <2>1, <2>2 DEF IndInv, UnmanagedHandsOff
<1> QED
  BY <1>1, <1>4, <1>5, <1>6, <1>7, <1>8 DEF IndInv

LEMMA ClusterStep ==
  ASSUME IndInv, PodStarts \/ PodEnds \/ PodVanishes
  PROVE  IndInv'
<1>1. PICK p \in PodState :
        /\ PodBecomes(p) /\ pod # NoPod /\ failed' \in BOOLEAN
        /\ p = NoPod \/ (p.born = pod.born /\ p.by = pod.by /\ p.ours = pod.ours)
  <2>1. \A phase \in {"Running", "Ended"} :
          LET p == [pod EXCEPT !.phase = phase] IN
          p \in PodState /\ p.born = pod.born /\ p.by = pod.by /\ p.ours = pod.ours
    BY DEF IndInv, TypeOK, PodState
  <2>2. NoPod \in PodState /\ NoPod.phase = "none" /\ ~NoPod.terminating
    BY DEF NoPod, PodState
  <2>3. failed \in BOOLEAN /\ pod.terminating \in BOOLEAN
    BY DEF IndInv, TypeOK, PodState
  <2>4. CASE PodStarts
    BY <2>1, <2>2, <2>3, <2>4 DEF PodStarts
  <2>5. CASE PodEnds
    <3>1. pod # NoPod /\ PodBecomes([pod EXCEPT !.phase = "Ended"])
      BY <2>2, <2>5 DEF PodEnds
    <3>2. failed' \in BOOLEAN
      BY <2>3, <2>5 DEF PodEnds
    <3> QED
      BY <2>1, <3>1, <3>2
  <2>6. CASE PodVanishes
    BY <2>2, <2>3, <2>6 DEF PodVanishes
  <2> QED
    BY <2>4, <2>5, <2>6
<1>2. p # NoPod => p.ours \/ (pod # NoPod /\ p.ours = pod.ours)
  BY <1>1
<1>3. since' \in [Commands -> Seq(PodState)]
  <2>1. \A c \in Commands : Noticed(p)[c] \in Seq(PodState)
    BY <1>2, NoticedRemembers DEF IndInv
  <2> QED
    BY <2>1, <1>1 DEF PodBecomes, Noticed
<1>4. /\ pc' \in [Commands -> Places] /\ deleted' \in [Commands -> 0..births]
      /\ pod' = p /\ births' = births /\ failed' \in BOOLEAN
      /\ \A c \in Commands : /\ pc'[c] = pc[c] /\ deleted'[c] = deleted[c]
                             /\ since'[c] = Noticed(p)[c]
  BY <1>1 DEF PodBecomes, IndInv, TypeOK
<1>5. \A c \in Commands : since'[c] \in {Noticed(p)[c], <<>>}
  BY <1>4
<1>6. \A c \in Commands : pc'[c] \in {"createLook", "waitStart", "ready",
        "deleteLook", "deletePod"} => pc'[c] = pc[c] /\ since'[c] = Noticed(p)[c]
  BY <1>4
<1>7. \A c \in Commands :
        \/ pc'[c] = pc[c] /\ deleted'[c] = deleted[c]
        \/ pc[c] = "deletePod" /\ pc'[c] \in {"waitGone", "failed"}
  BY <1>4
<1> QED
  BY <1>1, <1>3, <1>4, <1>5, <1>6, <1>7, PodStep

LEMMA DeleteStep ==
  ASSUME IndInv, NEW c \in Commands, deletePod(c)
  PROVE  IndInv'
<1>1. CASE pod = NoPod /\ End(c, "deletePod", "failed")
  BY <1>1, EndStep DEF Ended
<1>2. CASE pod # NoPod /\ ~(pod = NoPod /\ End(c, "deletePod", "failed"))
  <2> DEFINE p == [pod EXCEPT !.terminating = TRUE]
  <2>1. PICK to \in {"waitGone", "failed"} :
          /\ pod' = p /\ Goto(c, "deletePod", to)
          /\ deleted' = [deleted EXCEPT ![c] = pod.born]
          /\ since' = [Noticed(p) EXCEPT ![c] = <<>>]
          /\ UNCHANGED <<births, failed>>
    BY <1>2 DEF deletePod
  <2>2. /\ p \in PodState /\ p.born = pod.born /\ p.by = pod.by /\ p.ours = pod.ours
        /\ pod.born \in 0..births
    <3>1. pod \in PodState /\ births \in Nat /\ pod.born <= births
      BY DEF IndInv, TypeOK
    <3>2. pod.born \in Nat
      BY <3>1 DEF PodState
    <3>3. pod.born \in 0..births
      BY <3>1, <3>2
    <3>4. p \in PodState /\ p.born = pod.born /\ p.by = pod.by /\ p.ours = pod.ours
      BY <3>1 DEF PodState
    <3> QED
      BY <3>3, <3>4
  <2>3. \A d \in Commands : Noticed(p)[d] \in Seq(PodState)
    BY <2>2, <1>2, NoticedRemembers DEF IndInv
  <2>4. since' \in [Commands -> Seq(PodState)]
        /\ \A d \in Commands : since'[d] = IF d = c THEN <<>> ELSE Noticed(p)[d]
    <3> HIDE DEF p
    <3>1. <<>> \in Seq(PodState) /\ DOMAIN Noticed(p) = Commands
      BY DEF Noticed
    <3> QED
      BY <2>1, <2>3, <3>1
  <2>5. pc' \in [Commands -> Places] /\ deleted' \in [Commands -> 0..births]
        /\ pc[c] = "deletePod" /\ pc'[c] = to
        /\ \A d \in Commands \ {c} : pc'[d] = pc[d] /\ deleted'[d] = deleted[d]
    BY <2>1, <2>2 DEF Goto, IndInv, TypeOK, Places
  <2>6. failed' \in BOOLEAN /\ births' = births /\ pod' = p
    BY <2>1 DEF IndInv, TypeOK
  <2> HIDE DEF p
  <2>7. \A d \in Commands : since'[d] \in {Noticed(p)[d], <<>>}
    BY <2>4
  <2>8. \A d \in Commands : pc'[d] \in {"createLook", "waitStart", "ready",
          "deleteLook", "deletePod"} => pc'[d] = pc[d] /\ since'[d] = Noticed(p)[d]
    BY <2>4, <2>5
  <2>9. \A d \in Commands :
          \/ pc'[d] = pc[d] /\ deleted'[d] = deleted[d]
          \/ pc[d] = "deletePod" /\ pc'[d] \in {"waitGone", "failed"}
    BY <2>5
  <2> QED
    BY <1>2, <2>2, <2>4, <2>5, <2>6, <2>7, <2>8, <2>9, PodStep
<1> QED
  BY <1>1, <1>2 DEF deletePod

LEMMA CreateStep ==
  ASSUME IndInv, NEW c \in Commands, createPod(c)
  PROVE  IndInv'
<1>1. CASE pod # NoPod /\ End(c, "createPod", "failed")
  BY <1>1, EndStep DEF Ended
<1>2. CASE ~(pod # NoPod /\ End(c, "createPod", "failed"))
  <2> DEFINE p == [born |-> births + 1, by |-> c, ours |-> TRUE,
                   phase |-> "Pending", terminating |-> FALSE]
  <2>1. PICK to \in {"waitStart", "failed"} :
          /\ pod = NoPod /\ pod' = p /\ births' = births + 1
          /\ Goto(c, "createPod", to) /\ UNCHANGED <<deleted, failed>>
          /\ since' = [Noticed(p) EXCEPT ![c] = Kept(to, <<p>>)]
    BY <1>2 DEF createPod
  <2>2. births \in Nat /\ p \in PodState /\ p.ours /\ p.by = c
        /\ p.born = births + 1 /\ p # NoPod
    BY DEF IndInv, TypeOK, PodState, NoPod
  <2> HIDE DEF p
  <2>3. \A d \in Commands :
          /\ Noticed(p)[d] \in Seq(PodState)
          /\ Noticed(p)[d] = <<>> <=> since[d] = <<>>
          /\ since[d] # <<>> => /\ Noticed(p)[d][1] = since[d][1]
                                /\ Remembers(Noticed(p)[d], p)
    BY <2>2, NoticedRemembers DEF IndInv
  <2>4. /\ Kept(to, <<p>>) \in Seq(PodState)
        /\ to = "waitStart" => Kept(to, <<p>>) # <<>>
        /\ Kept(to, <<p>>) # <<>> => Remembers(Kept(to, <<p>>), p)
    <3>1. <<p>> \in Seq(PodState) /\ <<>> \in Seq(PodState) /\ <<p>> # <<>>
      BY <2>2
    <3>2. Remembers(<<p>>, p)
      BY <2>2 DEF Remembers
    <3> QED
      BY <3>1, <3>2 DEF Kept, Ended
  <2>5. /\ since' \in [Commands -> Seq(PodState)]
        /\ since'[c] = Kept(to, <<p>>)
        /\ \A d \in Commands \ {c} : since'[d] = Noticed(p)[d]
    <3>1. DOMAIN Noticed(p) = Commands
      BY DEF Noticed
    <3> QED
      BY <2>1, <2>3, <2>4, <3>1
  <2>6. /\ pc[c] = "createPod" /\ pc'[c] = to
        /\ \A d \in Commands \ {c} : pc'[d] = pc[d]
    BY <2>1 DEF Goto, IndInv, TypeOK
  <2>7. TypeOK'
    BY <2>1, <2>2, <2>5, <2>6 DEF Goto, IndInv, TypeOK, Places
  <2>8. SinceUpToNow'
    BY <2>1, <2>3, <2>4, <2>5 DEF SinceUpToNow, Remembers
  <2>9. PlacesReached'
    BY <2>1, <2>3, <2>4, <2>5, <2>6 DEF IndInv, PlacesReached, Ended
  <2>10. ReadyPodRan'
    BY <2>3, <2>5, <2>6 DEF IndInv, ReadyPodRan, PlacesReached
  <2>11. DeletedIsGone'
    BY <2>1, <2>2, <2>6 DEF IndInv, TypeOK, DeletedIsGone
  <2>12. UnmanagedHandsOff'
    BY <2>1, <2>2, <2>6 DEF IndInv, UnmanagedHandsOff, PlacesReached
  <2> QED
    BY <2>7, <2>8, <2>9, <2>10, <2>11, <2>12 DEF IndInv
<1> QED
  BY <1>1, <1>2 DEF createPod

(* The steps of one command. *)
LEMMA CommandStep ==
  ASSUME IndInv, NEW c \in Commands,
         Step(c) \/ TimesOut(c) \/ RequestFails(c) \/ Exits(c)
  PROVE  IndInv'
<1>1. pc[c] \notin {"waitGone"} \cup Ended => deleted[c] = 0
  BY DEF IndInv, PlacesReached
<1>2. c \in Unmanaged =>
        pc[c] \notin {"createPod", "delete", "deleteLook", "deletePod", "waitGone"}
  BY DEF IndInv, PlacesReached
<1>3. CASE LookForPod(c)
  <2>1. pc[c] = "create"
    BY <1>3 DEF LookForPod, checkForLeftOverPod, Goto
  <2> QED
    BY <1>1, <1>3, <2>1, LeftOverStep DEF LookForPod, NotRunning, Ended
<1>4. CASE LookIfRunning(c)
  <2>1. pc[c] = "createLook"
    BY <1>4 DEF LookIfRunning, isPodRunning, Goto
  <2> QED
    BY <1>1, <1>4, <2>1, RunningStep DEF LookIfRunning, NotRunning, Ended
<1>5. CASE createPod(c)
  BY <1>5, CreateStep
<1>6. CASE waitForPodToStart(c)
  <2>1. pc[c] = "waitStart"
    BY <1>6 DEF waitForPodToStart, isPodRunning, Goto
  <2> QED
    BY <1>1, <1>6, <2>1, RunningStep DEF waitForPodToStart, Ended
<1>7. CASE CleanUp(c)
  <2>1. pc[c] = "ready" /\ deleted[c] = 0
    BY <1>1, <1>7 DEF CleanUp, Goto, Ended
  <2>2. CASE c \in Unmanaged
    BY <2>1, <2>2, <1>7, EndStep DEF CleanUp, End, Holds, Kept, Ended
  <2>3. CASE c \notin Unmanaged
    <3>1. since[c] \in Seq(PodState) /\ (since[c] # <<>> => Remembers(since[c], pod))
      BY DEF IndInv, TypeOK, SinceUpToNow, Remembers
    <3>2. /\ pc' = [pc EXCEPT ![c] = "delete"]
          /\ since' = [since EXCEPT ![c] = since[c]]
          /\ UNCHANGED <<cluster, deleted>> /\ "delete" \in Places
      BY <2>3, <1>7 DEF CleanUp, Goto, Holds, Kept, Ended, Places
    <3> QED
      BY <2>1, <2>3, <3>1, <3>2, LocalStep
  <2> QED
    BY <2>2, <2>3
<1>8. CASE LookBeforeDelete(c)
  <2>1. pc[c] = "delete"
    BY <1>8 DEF LookBeforeDelete, checkForLeftOverPod, Goto
  <2> QED
    BY <1>1, <1>2, <1>8, <2>1, LeftOverStep DEF LookBeforeDelete, Ended
<1>9. CASE DeleteIfRunning(c)
  <2>1. pc[c] = "deleteLook"
    BY <1>9 DEF DeleteIfRunning, isPodRunning, Goto
  <2> QED
    BY <1>1, <1>2, <1>9, <2>1, RunningStep DEF DeleteIfRunning, Ended
<1>10. CASE deletePod(c)
  BY <1>10, DeleteStep
<1>11. CASE waitForPodToDelete(c)
  <2>1. End(c, "waitGone", "succeeded") /\ pod.born = 0
    BY <1>11 DEF waitForPodToDelete, NoPod
  <2> QED
    BY <2>1, EndStep DEF Ended
<1>12. CASE TimesOut(c)
  BY <1>12, EndStep DEF TimesOut, Ended
<1>13. CASE RequestFails(c)
  BY <1>13, EndStep DEF RequestFails, Ended
<1>14. CASE Exits(c)
  BY <1>14, EndStep DEF Exits, Ended
<1> QED
  BY <1>3, <1>4, <1>5, <1>6, <1>7, <1>8, <1>9, <1>10, <1>11, <1>12, <1>13, <1>14
     DEF Step

-----------------------------------------------------------------------------
(* Collections clean up after themselves.                                  *)

(* What is seen from some element on is seen in the same order.            *)
LEMMA SuffixWatched ==
  ASSUME NEW s \in Seq(PodState), NEW v \in 1..Len(s), KeepsRunning(s)
  PROVE  LET t == SubSeq(s, v, Len(s)) IN
         /\ KeepsRunning(t)
         /\ s[v].phase = "Running" \/ SeenRunning(s) => SeenRunning(t)
<1> DEFINE n == Len(s)
           t == SubSeq(s, v, n)
<1>1. n \in Nat /\ v \in Int /\ v <= n /\ 1 <= v
  OBVIOUS
<1>2. \A i \in v..n : s[i] \in PodState
  BY <1>1
<1>3. Len(t) = n - v + 1 /\ \A i \in 1..(n - v + 1) : t[i] = s[v + i - 1]
  BY <1>1, <1>2, SubSeqProperties
<1>4. \A i \in DOMAIN t : i \in Nat /\ v + i - 1 \in DOMAIN s /\ v <= v + i - 1
                          /\ t[i] = s[v + i - 1]
  <2>1. t \in Seq(PodState)
    BY <1>1, <1>2, SubSeqProperties
  <2> HIDE DEF t
  <2> QED BY <1>1, <1>3, <2>1
<1> HIDE DEF t, n
<1>5. KeepsRunning(t)
  BY <1>4 DEF KeepsRunning
<1>6. s[v].phase = "Running" => SeenRunning(t)
  BY <1>1, <1>4 DEF KeepsRunning, SeenRunning, n
<1>7. SeenRunning(s) => SeenRunning(t)
  BY <1>4 DEF SeenRunning
<1> QED BY <1>5, <1>6, <1>7 DEF t, n

(* A command goes from one place to another and may look at the pod; if it *)
(* owes the pod's deletion it still does.                                  *)
LEMMA LocalOwed ==
  ASSUME IndInv, OwedInv, NEW c \in Commands, NEW to, NEW states,
         pc' = [pc EXCEPT ![c] = to], since' = [since EXCEPT ![c] = states],
         UNCHANGED cluster,
         c \in Stops => to \notin {"create", "createLook", "createPod",
                                  "waitStart", "ready"},
         c \in Collects /\ to = "delete" => states # <<>>,
         c \in Collects /\ Owes(c) =>
           /\ to \notin {"waitGone", "succeeded"} /\ KeepsRunning(states)
           /\ to \in {"ready", "delete", "deleteLook", "deletePod"} =>
                SeenRunning(states)
  PROVE  OwedInv'
<1>1. /\ pc'[c] = to /\ since'[c] = states
      /\ \A d \in Commands \ {c} : pc'[d] = pc[d] /\ since'[d] = since[d]
  BY DEF IndInv, TypeOK
<1>2. UNCHANGED <<pod, failed>> /\ \A d \in Commands : Owes(d)' <=> Owes(d)
  BY DEF cluster, Owes
<1>3. StopsOnlyDelete'
  BY <1>1, <1>2 DEF OwedInv, StopsOnlyDelete, Commands
<1>4. CollectsKnowPod'
  BY <1>1 DEF OwedInv, CollectsKnowPod, Commands
<1>5. LivePodIsOwed'
  <2> SUFFICES ASSUME NEW d \in Collects, Owes(d)
               PROVE  /\ pc'[d] \notin {"waitGone", "succeeded"}
                      /\ KeepsRunning(since'[d])
                      /\ pc'[d] \in {"ready", "delete", "deleteLook", "deletePod"} =>
                           SeenRunning(since'[d])
    BY <1>2 DEF LivePodIsOwed, KeepsRunning, SeenRunning, Commands
  <2>1. CASE d = c
    BY <1>1, <2>1
  <2>2. CASE d # c
    BY <1>1, <2>2 DEF OwedInv, LivePodIsOwed, Commands
  <2> QED BY <2>1, <2>2
<1> QED BY <1>3, <1>4, <1>5 DEF OwedInv

(* A command ends.                                                         *)
LEMMA EndOwed ==
  ASSUME IndInv, OwedInv, NEW c \in Commands, NEW from, NEW how \in Ended,
         End(c, from, how), c \in Collects /\ Owes(c) => how # "succeeded"
  PROVE  OwedInv'
<1>1. Kept(how, <<>>) = <<>> /\ KeepsRunning(<<>>)
      /\ how \notin {"create", "createLook", "createPod", "waitStart", "ready",
                     "delete", "deleteLook", "deletePod", "waitGone"}
  BY DEF Ended, Kept, KeepsRunning
<1> QED BY <1>1, LocalOwed DEF End, Goto, Holds

(* checkForLeftOverPod: before the delete, a collection that owes the pod  *)
(* has seen it running, and it still does.                                 *)
LEMMA LeftOverOwed ==
  ASSUME IndInv, OwedInv, NEW c \in Commands,
         LookForPod(c) \/ LookBeforeDelete(c)
  PROVE  OwedInv'
<1> DEFINE states == IF pod.ours THEN <<pod>> ELSE since[c]
           found == IF pc[c] = "create" THEN "createLook" ELSE "deleteLook"
           none == IF pc[c] = "create" THEN NotRunning(c) ELSE "succeeded"
           to == IF states = <<>> THEN none ELSE found
           kept == Kept(to, states)
<1>1. /\ pc[c] \in {"create", "delete"} /\ UNCHANGED cluster
      /\ pc' = [pc EXCEPT ![c] = to] /\ since' = [since EXCEPT ![c] = kept]
  BY DEF LookForPod, LookBeforeDelete, checkForLeftOverPod, Goto, Holds
<1>2. since[c] \in Seq(PodState) /\ pod \in PodState
      /\ (since[c] # <<>> => since[c][Len(since[c])] = pod)
  BY DEF IndInv, TypeOK, SinceUpToNow
<1>3. to \in {"createLook", "deleteLook", "createPod", "succeeded", "failed"}
      /\ (pc[c] = "create" => to \in {"createLook", "createPod", "failed"})
      /\ (pc[c] = "delete" => to \in {"deleteLook", "succeeded"})
  BY <1>1 DEF NotRunning
<1>4. c \in Stops => pc[c] = "delete"
  BY <1>1 DEF OwedInv, StopsOnlyDelete
<1>5. c \in Collects /\ pc[c] = "delete" => to = "deleteLook"
  BY <1>1 DEF OwedInv, CollectsKnowPod
<1>6. ASSUME c \in Collects, Owes(c)
      PROVE  /\ KeepsRunning(kept) /\ to # "succeeded"
             /\ to = "deleteLook" => SeenRunning(kept)
  <2>1. KeepsRunning(since[c]) /\ (pc[c] = "delete" => SeenRunning(since[c]))
    BY <1>6 DEF OwedInv, LivePodIsOwed
  <2>2. pc[c] = "delete" => since[c] # <<>> /\ pod.phase = "Running"
    BY <1>2, <1>6, <2>1 DEF OwedInv, CollectsKnowPod, SeenRunning
  <2>3. KeepsRunning(<<>>) /\ KeepsRunning(<<pod>>)
        /\ (pod.phase = "Running" => SeenRunning(<<pod>>))
    BY <1>6 DEF KeepsRunning, SeenRunning, Owes
  <2>4. KeepsRunning(states) /\ (pc[c] = "delete" => SeenRunning(states))
    BY <2>1, <2>2, <2>3
  <2> HIDE DEF states, to
  <2>5. to = "deleteLook" => pc[c] = "delete" /\ kept = states
    BY <1>1, <1>3 DEF Kept, Ended
  <2>6. to # "succeeded"
    BY <1>1, <1>3, <1>5, <1>6
  <2>7. KeepsRunning(kept)
    BY <2>3, <2>4 DEF Kept
  <2> QED BY <2>4, <2>5, <2>6, <2>7
<1> HIDE DEF states, found, none, to, kept
<1> QED BY <1>1, <1>3, <1>4, <1>6, LocalOwed

(* isPodRunning: what it sees of a pod that the collection owes is never   *)
(* the end of it, and before the delete it is the running pod.             *)
LEMMA RunningOwed ==
  ASSUME IndInv, OwedInv, NEW c \in Commands,
         LookIfRunning(c) \/ waitForPodToStart(c) \/ DeleteIfRunning(c)
  PROVE  OwedInv'
<1> DEFINE running == CASE pc[c] = "createLook" -> "waitStart"
                        [] pc[c] = "waitStart" ->
                             IF c \in Starts THEN "succeeded" ELSE "ready"
                        [] pc[c] = "deleteLook" -> "deletePod"
           notRunning == CASE pc[c] = "createLook" -> NotRunning(c)
                           [] pc[c] = "waitStart" -> "waitStart"
                           [] pc[c] = "deleteLook" -> "succeeded"
<1>1. pc[c] \in {"createLook", "waitStart", "deleteLook"}
      /\ \E from \in {pc[c]} : isPodRunning(c, from, running, notRunning)
  BY DEF LookIfRunning, waitForPodToStart, DeleteIfRunning, isPodRunning, Goto
<1>2. PICK v \in DOMAIN since[c] :
        LET answer == since[c][v]
            to == CASE answer = NoPod -> "failed"
                    [] answer.phase = "Running" -> running
                    [] OTHER -> notRunning
        IN  /\ Goto(c, pc[c], to)
            /\ Holds(c, to, SubSeq(since[c], v, Len(since[c])))
            /\ UNCHANGED <<cluster, deleted>>
  BY <1>1 DEF isPodRunning
<1> DEFINE answer == since[c][v]
           to == CASE answer = NoPod -> "failed"
                   [] answer.phase = "Running" -> running
                   [] OTHER -> notRunning
           later == SubSeq(since[c], v, Len(since[c]))
           kept == Kept(to, later)
<1>3. /\ pc' = [pc EXCEPT ![c] = to] /\ since' = [since EXCEPT ![c] = kept]
      /\ UNCHANGED cluster
  BY <1>2 DEF Goto, Holds
<1>4. since[c] \in Seq(PodState) /\ v \in 1..Len(since[c])
  BY DEF IndInv, TypeOK
<1>5. /\ pc[c] = "createLook" => /\ running = "waitStart"
                                 /\ notRunning \in {"createPod", "failed"}
      /\ pc[c] = "waitStart" => /\ running \in {"succeeded", "ready"}
                                /\ notRunning = "waitStart"
                                /\ c \in Collects => running = "ready"
      /\ pc[c] = "deleteLook" => running = "deletePod" /\ notRunning = "succeeded"
  BY KindsAssumption DEF NotRunning
<1> HIDE DEF running, notRunning, later
<1>6. \/ to = "failed" /\ answer = NoPod
      \/ to = running /\ answer.phase = "Running"
      \/ to = notRunning /\ answer # NoPod /\ answer.phase # "Running"
  <2>1. CASE answer = NoPod
    BY <2>1 DEF NoPod
  <2>2. CASE answer # NoPod
    BY <2>2
  <2> QED BY <2>1, <2>2
<1>7. c \in Stops => pc[c] = "deleteLook"
  BY <1>1 DEF OwedInv, StopsOnlyDelete
<1>8. to \notin {"create", "delete", "deleteLook", "waitGone"}
      /\ (c \in Stops => to \in {"failed", "deletePod", "succeeded"})
  BY <1>1, <1>5, <1>6, <1>7
<1>9. ASSUME c \in Collects, Owes(c)
      PROVE  /\ KeepsRunning(kept) /\ to # "succeeded"
             /\ to \in {"ready", "deletePod"} => SeenRunning(kept)
  <2>1. KeepsRunning(since[c]) /\ (pc[c] = "deleteLook" => SeenRunning(since[c]))
    BY <1>9 DEF OwedInv, LivePodIsOwed
  <2>2. /\ KeepsRunning(later)
        /\ answer.phase = "Running" \/ SeenRunning(since[c]) => SeenRunning(later)
    BY <1>4, <2>1, SuffixWatched DEF later
  <2>3. answer # NoPod /\ (pc[c] = "deleteLook" => answer.phase = "Running")
    BY <1>4, <2>1 DEF KeepsRunning, SeenRunning
  <2>4. to # "succeeded"
    BY <1>1, <1>5, <1>6, <1>9, <2>3
  <2>5. to \in {"ready", "deletePod"} => answer.phase = "Running"
    BY <1>1, <1>5, <1>6
  <2>6. KeepsRunning(<<>>)
    BY DEF KeepsRunning
  <2> HIDE DEF to, answer
  <2> QED BY <2>2, <2>4, <2>5, <2>6 DEF Kept, Ended
<1> HIDE DEF to, kept
<1> QED BY <1>3, <1>8, <1>9, LocalOwed

(* The pod is created, deleted or changes by itself.                       *)
LEMMA PodOwed ==
  ASSUME IndInv, OwedInv, NEW p \in PodState, pod # NoPod, pod' = p,
         p = NoPod \/ (p.by = pod.by /\ (p.terminating <=> pod.terminating)),
         failed => failed', ~failed' => pod.terminating \/ p.phase = "Running",
         pc' = pc, since' = Noticed(p)
  PROVE  OwedInv'
<1>1. StopsOnlyDelete'
  BY NoneAssumption DEF OwedInv, StopsOnlyDelete, NoPod
<1>2. \A c \in Commands : since[c] \in Seq(PodState)
  BY DEF IndInv, TypeOK
<1>3. CollectsKnowPod'
  BY <1>2 DEF OwedInv, CollectsKnowPod, Noticed, Commands
<1>4. LivePodIsOwed'
  <2> SUFFICES ASSUME NEW c \in Collects, Owes(c)'
               PROVE  /\ pc[c] \notin {"waitGone", "succeeded"}
                      /\ KeepsRunning(since'[c])
                      /\ pc[c] \in {"ready", "delete", "deleteLook", "deletePod"} =>
                           SeenRunning(since'[c])
    BY DEF LivePodIsOwed, KeepsRunning, SeenRunning
  <2>1. p # NoPod /\ Owes(c) /\ p.phase = "Running"
    BY DEF Owes
  <2>2. /\ pc[c] \notin {"waitGone", "succeeded"} /\ KeepsRunning(since[c])
        /\ pc[c] \in {"ready", "delete", "deleteLook", "deletePod"} =>
             SeenRunning(since[c])
    BY <2>1 DEF OwedInv, LivePodIsOwed
  <2>3. c \in Commands
    BY DEF Commands
  <2>4. CASE since'[c] = since[c]
    BY <2>2, <2>4
  <2>5. CASE since'[c] = Append(since[c], p)
    <3>1. \A i \in DOMAIN since'[c] :
            \/ i \in DOMAIN since[c] /\ since'[c][i] = since[c][i]
            \/ i = Len(since[c]) + 1 /\ since'[c][i] = p
      BY <1>2, <2>3, <2>5
    <3>2. DOMAIN since[c] = 1..Len(since[c]) /\ Len(since[c]) \in Nat
      BY <1>2, <2>3
    <3>3. KeepsRunning(since'[c])
      BY <2>1, <2>2, <3>1, <3>2 DEF KeepsRunning
    <3>4. SeenRunning(since[c]) => SeenRunning(since'[c])
      BY <2>1, <3>1 DEF SeenRunning
    <3> QED BY <2>2, <3>3, <3>4
  <2> QED BY <2>3, <2>4, <2>5 DEF Noticed
<1> QED BY <1>1, <1>3, <1>4 DEF OwedInv

LEMMA ClusterOwed ==
  ASSUME IndInv, OwedInv, PodStarts \/ PodEnds \/ PodVanishes
  PROVE  OwedInv'
<1>1. pod \in PodState /\ NoPod \in PodState /\ failed \in BOOLEAN
      /\ NoPod.phase = "none" /\ ~NoPod.terminating
  BY DEF IndInv, TypeOK, NoPod, PodState
<1>2. \A phase \in {"Running", "Ended"} :
        LET p == [pod EXCEPT !.phase = phase] IN
        /\ p \in PodState /\ p.by = pod.by /\ p.phase = phase
        /\ p.terminating <=> pod.terminating
  BY <1>1 DEF PodState
<1>3. CASE PodStarts
  BY <1>1, <1>2, <1>3, PodOwed DEF PodStarts, PodBecomes
<1>4. CASE PodEnds
  <2> DEFINE p == [pod EXCEPT !.phase = "Ended"]
  <2>1. /\ pod # NoPod /\ pod' = p /\ pc' = pc /\ since' = Noticed(p)
        /\ failed => failed'
        /\ ~failed' => pod.terminating \/ p.phase = "Running"
    BY <1>1, <1>4 DEF PodEnds, PodBecomes
  <2>2. p \in PodState /\ p.by = pod.by /\ (p.terminating <=> pod.terminating)
    BY <1>2
  <2> HIDE DEF p
  <2> QED BY <2>1, <2>2, PodOwed
<1>5. CASE PodVanishes
  BY <1>1, <1>5, PodOwed DEF PodVanishes, PodBecomes
<1> QED BY <1>3, <1>4, <1>5

(* A deletion that took effect leaves nothing to owe.                      *)
LEMMA DeleteOwed ==
  ASSUME IndInv, OwedInv, NEW c \in Commands, deletePod(c)
  PROVE  OwedInv'
<1>1. CASE End(c, "deletePod", "failed")
  BY <1>1, EndOwed DEF Ended
<1>2. CASE ~End(c, "deletePod", "failed")
  <2>1. /\ pod' = [pod EXCEPT !.terminating = TRUE]
        /\ pc' \in {[pc EXCEPT ![c] = "waitGone"], [pc EXCEPT ![c] = "failed"]}
        /\ \A d \in Commands \ {c} : since'[d] = Noticed(pod')[d]
    BY <1>2 DEF deletePod, Goto, Noticed
  <2>2. pod'.terminating /\ pod'.by = pod.by
    BY <2>1 DEF IndInv, TypeOK, PodState
  <2>3. pc'[c] \in {"waitGone", "failed"} /\ \A d \in Commands \ {c} : pc'[d] = pc[d]
    BY <2>1 DEF IndInv, TypeOK
  <2>4. StopsOnlyDelete'
    BY <2>2, <2>3 DEF OwedInv, StopsOnlyDelete, Commands
  <2>5. LivePodIsOwed'
    BY <2>2 DEF LivePodIsOwed, Owes
  <2>6. CollectsKnowPod'
    <3> SUFFICES ASSUME NEW d \in Collects, pc'[d] = "delete" PROVE since'[d] # <<>>
      BY DEF CollectsKnowPod
    <3>1. d # c /\ d \in Commands /\ pc[d] = "delete"
      BY <2>3 DEF Commands
    <3>2. since[d] # <<>> /\ since[d] \in Seq(PodState)
      BY <3>1 DEF OwedInv, CollectsKnowPod, IndInv, TypeOK
    <3>3. Append(since[d], pod') # <<>>
      <4>1. pod' \in PodState
        BY DeleteStep DEF IndInv, TypeOK
      <4> QED BY <3>2, <4>1
    <3>4. since'[d] \in {since[d], Append(since[d], pod')}
      BY <2>1, <3>1 DEF Noticed
    <3> QED BY <3>2, <3>3, <3>4
  <2> QED BY <2>4, <2>5, <2>6 DEF OwedInv
<1> QED BY <1>1, <1>2

(* A collection owes the pod that it creates, and no other one owes it.    *)
LEMMA CreateOwed ==
  ASSUME IndInv, OwedInv, NEW c \in Commands, createPod(c)
  PROVE  OwedInv'
<1>1. CASE End(c, "createPod", "failed")
  BY <1>1, EndOwed DEF Ended
<1>2. CASE ~End(c, "createPod", "failed")
  <2>1. PICK to \in {"waitStart", "failed"} :
          /\ pod'.by = c /\ pod' # NoPod /\ pod'.phase = "Pending"
          /\ Goto(c, "createPod", to)
          /\ since' = [Noticed(pod') EXCEPT ![c] = Kept(to, <<pod'>>)]
    BY <1>2 DEF createPod, NoPod
  <2>2. /\ pc[c] = "createPod" /\ pc'[c] = to
        /\ \A d \in Commands \ {c} : pc'[d] = pc[d] /\ since'[d] = Noticed(pod')[d]
        /\ since'[c] = Kept(to, <<pod'>>)
    BY <2>1 DEF Goto, IndInv, TypeOK, Noticed
  <2>3. c \notin Stops
    BY <2>2 DEF OwedInv, StopsOnlyDelete
  <2>4. StopsOnlyDelete'
    BY <2>1, <2>2, <2>3 DEF OwedInv, StopsOnlyDelete, Commands
  <2>5. KeepsRunning(since'[c])
    BY <2>1, <2>2 DEF Kept, KeepsRunning
  <2>6. LivePodIsOwed'
    <3> SUFFICES ASSUME NEW d \in Collects, Owes(d)' PROVE d = c
      BY <2>2, <2>5 DEF LivePodIsOwed, KeepsRunning
    <3> QED BY <2>1, NoneAssumption DEF Owes, Commands
  <2>7. CollectsKnowPod'
    <3> SUFFICES ASSUME NEW d \in Collects, pc'[d] = "delete" PROVE since'[d] # <<>>
      BY DEF CollectsKnowPod
    <3>1. d # c /\ d \in Commands /\ pc[d] = "delete"
      BY <2>2 DEF Commands
    <3>2. since[d] # <<>> /\ since[d] \in Seq(PodState)
      BY <3>1 DEF OwedInv, CollectsKnowPod, IndInv, TypeOK
    <3>3. Append(since[d], pod') # <<>>
      <4>1. pod' \in PodState
        BY CreateStep DEF IndInv, TypeOK
      <4> QED BY <3>2, <4>1
    <3>4. since'[d] \in {since[d], Append(since[d], pod')}
      BY <2>2, <3>1 DEF Noticed
    <3> QED BY <3>2, <3>3, <3>4
  <2> QED BY <2>4, <2>6, <2>7 DEF OwedInv
<1> QED BY <1>1, <1>2

LEMMA CommandOwed ==
  ASSUME IndInv, OwedInv, NEW c \in Commands,
         Step(c) \/ TimesOut(c) \/ RequestFails(c) \/ Exits(c)
  PROVE  OwedInv'
<1>1. CASE LookForPod(c) \/ LookBeforeDelete(c)
  BY <1>1, LeftOverOwed
<1>2. CASE LookIfRunning(c) \/ waitForPodToStart(c) \/ DeleteIfRunning(c)
  BY <1>2, RunningOwed
<1>3. CASE createPod(c) \/ deletePod(c)
  BY <1>3, CreateOwed, DeleteOwed
<1>4. CASE CleanUp(c)
  <2> DEFINE to == IF c \in Unmanaged THEN "succeeded" ELSE "delete"
  <2>1. /\ pc[c] = "ready" /\ UNCHANGED cluster
        /\ pc' = [pc EXCEPT ![c] = to]
        /\ since' = [since EXCEPT ![c] = Kept(to, since[c])]
    BY <1>4 DEF CleanUp, Goto, Holds
  <2>2. c \in Collects => to = "delete" /\ Kept(to, since[c]) = since[c]
    BY KindsAssumption DEF Kept, Ended
  <2>3. since[c] # <<>>
    BY <2>1 DEF IndInv, PlacesReached
  <2>4. c \in Collects /\ Owes(c) => KeepsRunning(since[c]) /\ SeenRunning(since[c])
    BY <2>1 DEF OwedInv, LivePodIsOwed
  <2>5. to \notin {"create", "createLook", "createPod", "waitStart", "ready", "waitGone"}
    OBVIOUS
  <2> HIDE DEF to
  <2> QED BY <2>1, <2>2, <2>3, <2>4, <2>5, LocalOwed
<1>5. CASE waitForPodToDelete(c)
  BY <1>5, EndOwed DEF waitForPodToDelete, Ended, Owes
<1>6. CASE TimesOut(c) \/ RequestFails(c) \/ Exits(c)
  BY <1>6, EndOwed DEF TimesOut, RequestFails, Exits, Ended
<1> QED BY <1>1, <1>2, <1>3, <1>4, <1>5, <1>6 DEF Step

-----------------------------------------------------------------------------
(* The theorems. *)

(* The invariant behind the safety of the debug pod holds of any number of *)
(* commands of every kind that meet in one cluster.                        *)
THEOREM PodInductive == Spec => []IndInv
<1>1. IndInv /\ UNCHANGED vars => IndInv'
  BY DEF IndInv, TypeOK, SinceUpToNow, PlacesReached, ReadyPodRan, DeletedIsGone,
         UnmanagedHandsOff, vars
<1>2. IndInv /\ Next => IndInv'
  BY CommandStep, ClusterStep DEF Next
<1> QED
  BY InitInd, <1>1, <1>2, PTL DEF Spec

(* isPodRunning, which CreatePodAndWait ends with: commands are executed   *)
(* in a pod that was seen running with this build's image.                 *)
THEOREM ReadySafe == Spec => []ReadyPodRan
BY PodInductive, PTL DEF IndInv

(* waitForPodToDelete: nothing is left of a pod whose deletion a command   *)
(* has reported as done.                                                   *)
THEOREM DeleteSafe == Spec => []DeletedIsGone
BY PodInductive, PTL DEF IndInv

(* unmanagedDebugPod: such a collection never creates or deletes the pod.  *)
THEOREM UnmanagedSafe == Spec => []UnmanagedHandsOff
BY PodInductive, PTL DEF IndInv

(* CleanUp of the netlink collector, with any number of collections that   *)
(* share one pod and whatever was left over: when all of them have         *)
(* succeeded no pod stays behind.  A collection may succeed without a      *)
(* delete -- the list request is answered with an older state of the pod,  *)
(* or it finds the pod of another -- but never the one that owes it.       *)
THEOREM CollectsSafe == Spec => []CollectsLeaveNoPod
<1>1. Init => OwedInv
  <2> SUFFICES ASSUME Init PROVE OwedInv
    OBVIOUS
  <2>1. pod.by = None
    BY DEF Init, NoPod, LeftOvers
  <2>2. \A c \in Commands : since[c] = <<>> /\ KeepsRunning(since[c])
                            /\ pc[c] = IF c \in Stops THEN "delete" ELSE "create"
    BY DEF Init, KeepsRunning
  <2>3. Collects \subseteq Commands /\ Stops \subseteq Commands
        /\ Collects \cap Stops = {} /\ None \notin Stops
    BY KindsAssumption, NoneAssumption DEF Commands
  <2> QED BY <2>1, <2>2, <2>3 DEF OwedInv, StopsOnlyDelete, CollectsKnowPod,
             LivePodIsOwed
<1>2. IndInv /\ OwedInv /\ [Next]_vars => OwedInv'
  <2>1. IndInv /\ OwedInv /\ Next => OwedInv'
    BY CommandOwed, ClusterOwed DEF Next
  <2>2. OwedInv /\ UNCHANGED vars => OwedInv'
    BY DEF OwedInv, StopsOnlyDelete, CollectsKnowPod, LivePodIsOwed, KeepsRunning,
           SeenRunning, Owes, vars
  <2> QED BY <2>1, <2>2
<1>3. IndInv /\ OwedInv => CollectsLeaveNoPod
  <2> SUFFICES ASSUME IndInv, OwedInv, Collects # {}, Starts = {}, ~failed,
                      \A c \in Collects : pc[c] = "succeeded",
                      pod # NoPod, ~pod.terminating
               PROVE  FALSE
    BY DEF CollectsLeaveNoPod
  <2>1. \A c \in Collects : pod.by \notin {None, c}
    BY DEF OwedInv, LivePodIsOwed, Owes
  <2>2. pod.by \in Commands \cup {None}
    BY DEF IndInv, TypeOK, PodState
  <2> QED BY <2>1, <2>2 DEF Commands, IndInv, UnmanagedHandsOff, OwedInv,
             StopsOnlyDelete
<1> QED BY <1>1, <1>2, <1>3, PodInductive, PTL DEF Spec

=============================================================================
