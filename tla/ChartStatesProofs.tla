-------------------------- MODULE ChartStatesProofs --------------------------
(***************************************************************************)
(* The states of a chart on any number of nodes, with any kernels, states, *)
(* image streams and mishaps: labels, waiting, finalization and toolkits.  *)
(***************************************************************************)
EXTENDS ChartStates, TLAPS

\* The time given to a prover covers what the proof manager does meanwhile.
USE SMTT(20), ZenonT(30)

Passing == {"run", "wait", "label"}

\* The nodes that did not change since they were listed are as they were listed.
SteadyIsSteady ==
    /\ steady \subseteq GetNodesByLabels
    /\ pc = "finalize" => steady \cap dirty = {}

\* Where the worker is in the loops over states and nodes.
Labelling ==
    /\ pc \in Passing => cur \in States
    /\ pc = "label" => \A n \in steady : n \in listed \/ cur \in labels[n]

\* What has been waited for.
Waiting ==
    /\ ready \subseteq was
    /\ pc = "wait" => \E k \in Kernel : replica = Key(cur, k)
    /\ pc \in Passing /\ cur > 1 /\ cur - 1 \in Affine => \E k \in Kernel : <<cur - 1, k>> \in was
    /\ pc = "label" /\ cur \in Affine => \E k \in Kernel : <<cur, k>> \in was

Finalizing == pc = "finalize" => \A n \in steady : n \in listed \/ labels[n] = {}

\* TypeOK in two parts, for the provers: deleting is a Boolean variable.
Others ==
    /\ nodes \in [Node -> NodeState]
    /\ labels \in [Node -> SUBSET States]
    /\ objs \subseteq Objects /\ ready \subseteq objs /\ was \subseteq objs
    /\ pc \in {"idle", "run", "wait", "label", "nostate", "done", "finalize", "gone"}
    /\ stream \in Streams
    /\ KernelVersions \subseteq Kernel /\ todo \subseteq KernelVersions
    /\ cur \in 1..(NumStates + 1) /\ replica \in (1..(NumStates + 1)) \X (Kernel \cup {AnyKernel})
    /\ listed \subseteq Node /\ dirty \subseteq Node /\ steady \subseteq Node
    /\ mishaps \in 0..MaxMishaps

Labels == Labelling /\ SteadyNodesLabelled
Waits  == Waiting /\ LaterStatesWait
Clean  == Finalizing /\ SteadyNodesClean

IInv ==
    /\ deleting \in BOOLEAN /\ Others
    /\ SteadyIsSteady
    /\ Labels /\ Waits /\ Clean
    /\ OwnToolkit

-----------------------------------------------------------------------------
(* Toolkits *)

\* No kernel has a toolkit yet, and os gives the operating systems.
Bare(f, os) == \A k \in DOMAIN f : f[k] = [os |-> os[k], toolkit |-> None]

\* A kernel has its own toolkit or none.
Own(g, os) ==
    \A k \in DOMAIN g : g[k].toolkit # None =>
        k \in {g[k].toolkit.kernel, g[k].toolkit.rtKernel} /\ g[k].toolkit.os = os[k]

\* nodeVersionInfo has the kernels of the nodes, with their operating system and
\* no toolkit.
LEMMA VersionInfo ==
    ASSUME NEW os, NEW S, \A n \in S : n.os = os[n.kernel], NEW f, f \in nodeVersionInfo(S)
    PROVE  DOMAIN f = {n.kernel : n \in S} /\ Bare(f, os)
<1>1. f = [k \in {n.kernel : n \in S} |-> [os |-> (CHOOSE n \in S : n.kernel = k).os, toolkit |-> None]]
  BY DEF nodeVersionInfo
<1>2. ASSUME NEW k \in {n.kernel : n \in S} PROVE (CHOOSE n \in S : n.kernel = k).os = os[k]
  <2>1. PICK n \in S : n.kernel = k
    BY <1>2
  <2>2. (CHOOSE m \in S : m.kernel = k) \in S /\ (CHOOSE m \in S : m.kernel = k).kernel = k
    BY <2>1
  <2> QED  BY <2>2
<1> QED  BY <1>1, <1>2 DEF Bare

\* Completing the architecture leaves the operating system.
LEMMA CompleteKeepsOS == ASSUME NEW dtk PROVE Complete(dtk).os = dtk.os
  BY DEF Complete

\* A kernel without a toolkit does not have another one's.
LEMMA BareIsOwn == ASSUME NEW os, NEW f, Bare(f, os) PROVE Own(f, os)
<1> SUFFICES ASSUME NEW k \in DOMAIN f PROVE f[k].toolkit = None
  BY Zenon DEF Own
<1> QED  BY DEF Bare

\* updateInfo gives a kernel only the toolkit made for it.
LEMMA UpdateInfo ==
    ASSUME NEW os, NEW f, Bare(f, os), NEW dtk, NEW g, g \in updateInfo(f, dtk)
    PROVE  DOMAIN g = DOMAIN f /\ Own(g, os)
<1> DEFINE t == Complete(dtk)
           match == {t.kernel, t.rtKernel} \cap DOMAIN f
<1>1. /\ \A k \in match : f[k].os = dtk.os
      /\ g = [k \in DOMAIN f |-> IF k \in match THEN [f[k] EXCEPT !.toolkit = t] ELSE f[k]]
  BY DEF updateInfo
<1>2. t.os = dtk.os
  BY CompleteKeepsOS
<1> HIDE DEF t
<1>3. \A k \in match : g[k].toolkit = t /\ os[k] = t.os
  BY <1>1, <1>2 DEF Bare
<1>4. \A k \in DOMAIN f \ match : g[k].toolkit = None
  BY <1>1 DEF Bare
<1> QED  BY <1>1, <1>3, <1>4 DEF Own

\* So does GetClusterInfo, if it returns.
LEMMA ClusterInfo ==
    ASSUME NEW os, NEW registry, NEW c, NEW items, NEW S, \A n \in S : n.os = os[n.kernel],
           NEW g, g \in GetClusterInfo(registry, c, items, S) \ {Panic}
    PROVE  DOMAIN g = {n.kernel : n \in S} /\ Own(g, os)
<1>1. PICK f \in nodeVersionInfo(S) : g \in driverToolkitVersion(registry, c, GetDTKImages(items), f)
  BY DEF GetClusterInfo
<1>2. DOMAIN f = {n.kernel : n \in S} /\ Bare(f, os)
  BY VersionInfo
<1>3. CASE g = f
  BY <1>2, <1>3, BareIsOwn
<1>4. ASSUME NEW dtk, g \in updateInfo(f, dtk) PROVE DOMAIN g = DOMAIN f /\ Own(g, os)
  BY <1>2, <1>4, UpdateInfo
<1>5. g = f \/ \E dtk \in GetDTKData(registry, c, GetDTKImages(items)[1]) : g \in updateInfo(f, dtk)
  BY <1>1 DEF driverToolkitVersion
<1> QED  BY <1>2, <1>3, <1>4, <1>5

-----------------------------------------------------------------------------
(* The invariant *)

\* The parts of the type invariant.
LEMMA TypeParts == TypeOK <=> deleting \in BOOLEAN /\ Others
  BY Zenon DEF TypeOK, Others

\* The invariant holds initially: before the first pass.
THEOREM Initially == Init => IInv
<1> SUFFICES ASSUME Init PROVE IInv
  OBVIOUS
<1>1. deleting \in BOOLEAN
  BY Zenon DEF Init
<1>2. KernelVersions = {}
  BY DEF Init, KernelVersions
<1>3. nodes \in [Node -> NodeState]
  BY DEF Init, NodeState
<1>6. Others
  BY <1>2, <1>3, ChartAssumption DEF Init, Others, Objects, States
<1>4. SteadyIsSteady /\ Labels /\ Waits /\ Clean
  BY DEF Init, SteadyIsSteady, Labels, Labelling, SteadyNodesLabelled, Waits, Waiting, LaterStatesWait,
         Clean, Finalizing, SteadyNodesClean, Passing
<1>5. OwnToolkit
  BY <1>2 DEF OwnToolkit
<1> QED  BY <1>1, <1>4, <1>5, <1>6 DEF IInv

\* Steps that leave info alone keep the toolkits.
LEMMA ToolkitsStay == OwnToolkit /\ UNCHANGED info => OwnToolkit'
  BY DEF OwnToolkit, KernelVersions

\* A node changes.
LEMMA NodeChangesKeeps == ASSUME IInv, NEW n \in Node, NodeChanges(n) PROVE IInv'
<1> USE DEF IInv
<1>1. (deleting \in BOOLEAN)'
  BY Zenon DEF NodeChanges
<1>2. OwnToolkit'
  BY ToolkitsStay DEF NodeChanges, loops
<1>3. PICK s \in NodeState :
         /\ nodes' = [nodes EXCEPT ![n] = s]
         /\ labels' = IF s.up /\ nodes[n].up THEN labels ELSE [labels EXCEPT ![n] = {}]
  BY DEF NodeChanges
<1>4. /\ dirty' = dirty \cup {n} /\ steady' = steady \ {n}
      /\ UNCHANGED <<stream, objs, ready, was, pc, info, cur, todo, replica, listed>>
      /\ mishaps' \in 0..MaxMishaps
  BY ChartAssumption DEF NodeChanges, loops, Mishap, Others
<1>5. labels' \in [Node -> SUBSET States] /\ \A m \in steady' : labels'[m] = labels[m] /\ nodes'[m] = nodes[m]
  BY <1>3, <1>4 DEF Others
<1>6. Others'
  BY <1>3, <1>4, <1>5 DEF Others, KernelVersions
<1>7. SteadyIsSteady'
  BY <1>4, <1>5 DEF SteadyIsSteady, GetNodesByLabels
<1>8. Labels'
  BY <1>4, <1>5 DEF Labels, Labelling, SteadyNodesLabelled
<1>9. Waits'
  BY <1>4 DEF Waits, Waiting, LaterStatesWait
<1>10. Clean'
  BY <1>4, <1>5 DEF Clean, Finalizing, SteadyNodesClean
<1> QED  BY <1>1, <1>2, <1>6, <1>7, <1>8, <1>9, <1>10

\* The stream changes, an object comes or goes, the SpecialResource is deleted.
LEMMA ClusterKeeps ==
    ASSUME IInv, StreamChanges \/ (\E o \in Objects : AvailabilityChanges(o)) \/ Delete \/ UNCHANGED vars
    PROVE  IInv'
<1> USE DEF IInv
<1>1. (deleting \in BOOLEAN)'
  BY Zenon DEF StreamChanges, AvailabilityChanges, Delete, vars
<1>2. /\ UNCHANGED <<nodes, labels, objs, pc, info, cur, todo, replica, listed, dirty, steady>>
      /\ stream' \in Streams /\ mishaps' \in 0..MaxMishaps
      /\ ready' \subseteq objs /\ was \subseteq was' /\ was' \subseteq objs
      /\ ready' \subseteq was'
  BY ChartAssumption DEF StreamChanges, AvailabilityChanges, Delete, vars, cluster, loops, Mishap, Others,
                         Waits, Waiting
<1>3. OwnToolkit'
  BY <1>2, ToolkitsStay
<1>4. Others' /\ SteadyIsSteady' /\ Labels' /\ Clean'
  BY <1>2 DEF Others, KernelVersions, SteadyIsSteady, GetNodesByLabels, Labels, Labelling,
              SteadyNodesLabelled, Clean, Finalizing, SteadyNodesClean
<1>5. Waits'
  BY <1>2 DEF Waits, Waiting, LaterStatesWait
<1> QED  BY <1>1, <1>3, <1>4, <1>5

\* A pass begins: the toolkits are those of the listed nodes.
LEMMA StartPassKeeps == ASSUME IInv, StartPass PROVE IInv'
<1> USE DEF IInv
<1>1. (deleting \in BOOLEAN)'
  BY Zenon DEF StartPass
<1> DEFINE S == {NodeInfo(n) : n \in GetNodesByLabels}
<1>2. \A n \in S : n.os = OSOf[n.kernel]
  BY DEF NodeInfo
<1>3. info' \in GetClusterInfo(DOMAIN Contents, <<>>, stream, S) \ {Panic}
  BY DEF StartPass
<1>4. {n.kernel : n \in S} \subseteq Kernel
  BY DEF NodeInfo, GetNodesByLabels, Others, NodeState
<1> HIDE DEF S
<1>5. DOMAIN info' = {n.kernel : n \in S} /\ Own(info', OSOf)
  BY <1>2, <1>3, ClusterInfo
<1>6. OwnToolkit'
  BY <1>5 DEF Own, OwnToolkit, KernelVersions
<1>7. /\ UNCHANGED <<nodes, stream, objs, ready, was, labels, replica, listed, dirty, mishaps>>
      /\ cur' = 1 /\ todo' = DOMAIN info' /\ steady' = GetNodesByLabels
      /\ pc' = IF NumStates = 0 THEN "nostate" ELSE "run"
  BY DEF StartPass, cluster
<1>8. Others'
  BY <1>4, <1>5, <1>7, ChartAssumption DEF Others, KernelVersions, GetNodesByLabels
<1>9. SteadyIsSteady' /\ Clean'
  BY <1>7 DEF SteadyIsSteady, GetNodesByLabels, Clean, Finalizing, SteadyNodesClean
<1>10. Labels'
  <2>1. Labelling'
    BY <1>7, ChartAssumption DEF Labelling, States, Passing
  <2>2. 1..(cur' - 1) = {}
    BY <1>7
  <2>3. CASE NumStates = 0
    <3>1. States = {}
      BY <2>3 DEF States
    <3>2. \A n \in steady' : labels'[n] = States
      BY <1>7, <3>1 DEF Others, GetNodesByLabels
    <3> QED  BY <1>7, <2>1, <2>2, <2>3, <3>2 DEF Labels, SteadyNodesLabelled
  <2>4. CASE NumStates # 0
    BY <1>7, <2>1, <2>2, <2>4 DEF Labels, SteadyNodesLabelled
  <2> QED  BY <2>3, <2>4
<1>11. Waits'
  <2>1. pc' \notin {"wait", "label"} /\ ~(cur' > 1)
    BY <1>7
  <2>2. Waiting'
    BY <1>7, <2>1 DEF Waits, Waiting
  <2>3. LaterStatesWait'
    BY <1>7 DEF Waits, LaterStatesWait
  <2> QED  BY <2>2, <2>3 DEF Waits
<1> QED  BY <1>1, <1>6, <1>8, <1>9, <1>10, <1>11

\* What the steps of a pass and of a finalization leave alone.
LEMMA Quiet ==
    ASSUME IInv, UNCHANGED <<nodes, stream, info, deleting>>
    PROVE  (deleting \in BOOLEAN)' /\ OwnToolkit' /\ GetNodesByLabels' = GetNodesByLabels
<1>1. (deleting \in BOOLEAN)'
  BY Zenon DEF IInv
<1>2. OwnToolkit'
  BY ToolkitsStay DEF IInv
<1>3. GetNodesByLabels' = GetNodesByLabels
  BY DEF GetNodesByLabels
<1> QED  BY <1>1, <1>2, <1>3

\* After a replica comes the next one, or the labels; the latter only with a
\* replica that was available, if the state is kernel-affine.
LEMMA AfterReplica ==
    ASSUME IInv, pc \in Passing, UNCHANGED <<nodes, stream, info, deleting, ready, was, labels, cur, steady>>,
           objs' = objs \/ (pc = "run" /\ \E k \in todo : objs' = objs \cup {Key(cur, k)}),
           todo' \subseteq todo, replica' = replica \/ \E k \in todo : replica' = Key(cur, k),
           mishaps' \in 0..MaxMishaps,
           \/ pc' = "idle" /\ UNCHANGED <<listed, dirty>>
           \/ pc' = "run" /\ UNCHANGED <<listed, dirty>>
           \/ pc' = "wait" /\ UNCHANGED <<listed, dirty>> /\ \E k \in todo : replica' = Key(cur, k)
           \/ /\ pc' = "label" /\ listed' = GetNodesByLabels /\ dirty' = {}
              /\ cur \in Affine => \E k \in Kernel : <<cur, k>> \in was
    PROVE  IInv'
<1> USE DEF IInv
<1>1. (deleting \in BOOLEAN)' /\ OwnToolkit' /\ GetNodesByLabels' = GetNodesByLabels
  BY Quiet
<1>2. cur \in States /\ cur \in Nat
  BY DEF Labels, Labelling, States
<1>3. \A k \in todo : k \in Kernel /\ Key(cur, k) \in Objects
  BY <1>2 DEF Key, Objects, Others
<1>4. Others'
  <2>1. objs' \subseteq Objects /\ objs \subseteq objs'
    BY <1>3 DEF Others
  <2>2. replica' \in (1..(NumStates + 1)) \X (Kernel \cup {AnyKernel})
    BY <1>3, ChartAssumption DEF Others, Objects, States
  <2>3. listed' \subseteq Node /\ dirty' \subseteq Node
    BY DEF Others, GetNodesByLabels
  <2>4. pc' \in {"idle", "run", "wait", "label"}
    OBVIOUS
  <2> QED  BY <2>1, <2>2, <2>3, <2>4 DEF Others, KernelVersions
<1>5. SteadyIsSteady'
  BY <1>1 DEF SteadyIsSteady
<1>6. Labels'
  <2>1. \A n \in steady : 1..(cur - 1) \subseteq labels[n]
    BY DEF Labels, SteadyNodesLabelled, Passing
  <2>2. steady \subseteq GetNodesByLabels
    BY DEF SteadyIsSteady
  <2>3. Labelling'
    BY <1>2, <2>2 DEF Labelling, Passing
  <2>4. SteadyNodesLabelled'
    BY <2>1 DEF SteadyNodesLabelled
  <2> QED  BY <2>3, <2>4 DEF Labels
<1>7. Waits'
  <2>1. cur > 1 /\ cur - 1 \in Affine => \E k \in Kernel : <<cur - 1, k>> \in was
    BY DEF Waits, Waiting
  <2>2. Waiting'
    <3>1. (pc = "wait" => \E k \in Kernel : replica = Key(cur, k))'
      BY <1>3 DEF Key
    <3> QED  BY <2>1, <3>1 DEF Waits, Waiting
  <2>3. \A k \in todo : Key(cur, k)[1] = cur
    BY DEF Key
  <2>4. LaterStatesWait'
    BY <2>1, <2>3 DEF Waits, LaterStatesWait
  <2> QED  BY <2>2, <2>4 DEF Waits
<1>8. Clean'
  BY DEF Clean, Finalizing, SteadyNodesClean
<1> QED  BY <1>1, <1>4, <1>5, <1>6, <1>7, <1>8

\* A replica is created, or it fails.
LEMMA CreateReplicaKeeps == ASSUME IInv, CreateReplica PROVE IInv'
<1>1. pc = "run" /\ pc \in Passing
  BY DEF CreateReplica, Passing
<1>2. UNCHANGED <<nodes, stream, info, deleting, ready, was, labels, cur, steady>>
  BY DEF CreateReplica, Fail, loops
<1>3. mishaps' \in 0..MaxMishaps
  BY ChartAssumption DEF CreateReplica, Mishap, IInv, Others
<1>4. CASE \E k \in todo :
            /\ todo' = todo \ {k}
            /\ replica' = Key(cur, k)
            /\ \/ objs' = objs \cup {Key(cur, k)} /\ pc' = "wait" /\ UNCHANGED <<listed, dirty, mishaps>>
               \/ Mishap /\ ReplicaFails(todo') /\ UNCHANGED objs
  <2>1. PICK k \in todo :
            /\ todo' = todo \ {k}
            /\ replica' = Key(cur, k)
            /\ \/ objs' = objs \cup {Key(cur, k)} /\ pc' = "wait" /\ UNCHANGED <<listed, dirty, mishaps>>
               \/ Mishap /\ ReplicaFails(todo') /\ UNCHANGED objs
    BY <1>4
  <2>2. CASE objs' = objs \cup {Key(cur, k)} /\ pc' = "wait" /\ UNCHANGED <<listed, dirty, mishaps>>
    BY <1>1, <1>2, <1>3, <2>1, <2>2, AfterReplica
  <2>3. CASE ReplicaFails(todo') /\ UNCHANGED objs
    <3>1. \/ pc' \in {"idle", "run"} /\ UNCHANGED <<listed, dirty>>
          \/ pc' = "label" /\ listed' = GetNodesByLabels /\ dirty' = {} /\ cur \notin Affine
      BY <2>3 DEF ReplicaFails, NextReplica
    <3> QED  BY <1>1, <1>2, <1>3, <2>1, <2>3, <3>1, AfterReplica
  <2> QED  BY <2>1, <2>2, <2>3
<1>5. CASE Mishap /\ Fail /\ UNCHANGED objs
  BY <1>1, <1>2, <1>3, <1>5, AfterReplica DEF Fail, loops
<1> QED  BY <1>4, <1>5 DEF CreateReplica

\* A replica is available, or it fails.
LEMMA WaitForReplicaKeeps == ASSUME IInv, WaitForReplica PROVE IInv'
<1>1. pc = "wait" /\ pc \in Passing
  BY DEF WaitForReplica, Passing
<1>2. UNCHANGED <<nodes, stream, info, deleting, objs, ready, was, labels, cur, todo, replica, steady>>
  BY DEF WaitForReplica, cluster, loops
<1>3. mishaps' \in 0..MaxMishaps
  BY ChartAssumption DEF WaitForReplica, Mishap, IInv, Others
<1>4. CASE replica \in ready /\ NextReplica(todo)
  <2>1. PICK k \in Kernel : replica = Key(cur, k) /\ replica \in was
    BY <1>1, <1>4 DEF IInv, Waits, Waiting
  <2>2. cur \in Affine => \E j \in Kernel : <<cur, j>> \in was
    BY <2>1 DEF Key
  <2>3. \/ pc' = "run" /\ UNCHANGED <<listed, dirty>>
        \/ pc' = "label" /\ listed' = GetNodesByLabels /\ dirty' = {}
    BY <1>4 DEF NextReplica
  <2> QED  BY <1>1, <1>2, <1>3, <2>2, <2>3, AfterReplica
<1>5. CASE ReplicaFails(todo)
  <2>1. \/ pc' \in {"idle", "run"} /\ UNCHANGED <<listed, dirty>>
        \/ pc' = "label" /\ listed' = GetNodesByLabels /\ dirty' = {} /\ cur \notin Affine
    BY <1>5 DEF ReplicaFails, NextReplica
  <2> QED  BY <1>1, <1>2, <1>3, <2>1, AfterReplica
<1> QED  BY <1>4, <1>5 DEF WaitForReplica

\* A pass ends: nothing is claimed of an idle worker.
LEMMA FailKeeps ==
    ASSUME IInv, pc' = "idle", mishaps' \in 0..MaxMishaps,
           UNCHANGED <<cluster, labels, deleting, loops, listed, dirty, steady>>
    PROVE  IInv'
<1> USE DEF IInv
<1>1. UNCHANGED <<nodes, stream, info, deleting, objs, ready, was, labels, cur, todo, replica, listed, dirty, steady>>
  BY DEF cluster, loops
<1>2. (deleting \in BOOLEAN)' /\ OwnToolkit' /\ GetNodesByLabels' = GetNodesByLabels
  BY <1>1, Quiet
<1>3. Others' /\ SteadyIsSteady' /\ Clean'
  BY <1>1, <1>2 DEF Others, KernelVersions, SteadyIsSteady, Clean, Finalizing, SteadyNodesClean
<1>4. Labels' /\ Waits'
  BY <1>1 DEF Labels, Labelling, SteadyNodesLabelled, Waits, Waiting, LaterStatesWait, Passing
<1> QED  BY <1>2, <1>3, <1>4

\* A node is labelled.
LEMMA LabelNodeKeeps == ASSUME IInv, LabelNode PROVE IInv'
<1> USE DEF IInv
<1>1. CASE \E n \in listed \ dirty :
            /\ labels' = [labels EXCEPT ![n] = @ \cup {cur}]
            /\ listed' = listed \ {n}
            /\ UNCHANGED <<pc, loops, dirty, mishaps>>
  <2>1. PICK n \in listed : labels' = [labels EXCEPT ![n] = @ \cup {cur}] /\ listed' = listed \ {n}
    BY <1>1
  <2>2. /\ pc = "label"
        /\ UNCHANGED <<nodes, stream, info, deleting, objs, ready, was, pc, cur, todo, replica, dirty, steady, mishaps>>
    BY <1>1 DEF LabelNode, cluster, loops
  <2>3. (deleting \in BOOLEAN)' /\ OwnToolkit' /\ GetNodesByLabels' = GetNodesByLabels
    BY <2>2, Quiet
  <2>4. cur \in States
    BY <2>2 DEF Labels, Labelling, Passing
  <2>5. /\ labels' \in [Node -> SUBSET States]
        /\ \A m \in Node : labels[m] \subseteq labels'[m]
        /\ cur \in labels'[n]
    BY <2>1, <2>4 DEF Others
  <2>6. Others'
    BY <2>1, <2>2, <2>5 DEF Others, KernelVersions
  <2>7. SteadyIsSteady' /\ Clean'
    BY <2>2, <2>3 DEF SteadyIsSteady, Clean, Finalizing, SteadyNodesClean
  <2>8. Labelling'
    BY <2>1, <2>2, <2>4, <2>5 DEF Labels, Labelling, Passing, Others
  <2>9. SteadyNodesLabelled'
    BY <2>2, <2>5 DEF Labels, SteadyNodesLabelled, Passing, Others
  <2>10. Waits'
    BY <2>2 DEF Waits, Waiting, LaterStatesWait
  <2> QED  BY <2>3, <2>6, <2>7, <2>8, <2>9, <2>10 DEF Labels
<1>2. CASE Fail /\ UNCHANGED labels /\ (UNCHANGED mishaps \/ Mishap)
  <2>1. mishaps' \in 0..MaxMishaps
    BY <1>2, ChartAssumption DEF Mishap, Others
  <2> QED  BY <1>2, <2>1, FailKeeps DEF LabelNode, Fail
<1> QED  BY <1>1, <1>2 DEF LabelNode

\* The next state begins, or the templates without a state: all steady nodes have
\* been labelled.
LEMMA NextStateKeeps == ASSUME IInv, NextState PROVE IInv'
<1> USE DEF IInv
<1>1. /\ pc = "label" /\ listed = {}
      /\ UNCHANGED <<nodes, stream, info, deleting, objs, ready, was, labels, replica, listed, dirty, steady, mishaps>>
  BY DEF NextState, cluster
<1>2. (deleting \in BOOLEAN)' /\ OwnToolkit' /\ GetNodesByLabels' = GetNodesByLabels
  BY <1>1, Quiet
<1>3. cur \in States /\ cur \in Nat /\ cur >= 1 /\ cur <= NumStates
  BY <1>1, ChartAssumption DEF Labels, Labelling, Passing, States
<1>4. \A n \in steady : 1..cur \subseteq labels[n] /\ labels[n] \subseteq States
  <2>1. SUFFICES ASSUME NEW n \in steady PROVE 1..cur \subseteq labels[n] /\ labels[n] \subseteq States
    OBVIOUS
  <2>2. 1..(cur - 1) \subseteq labels[n] /\ cur \in labels[n] /\ labels[n] \subseteq States
    BY <1>1 DEF Labels, Labelling, SteadyNodesLabelled, Others, Passing
  <2> QED  BY <1>3, <2>2
<1>5. SteadyIsSteady' /\ Clean' /\ LaterStatesWait'
  BY <1>1, <1>2 DEF SteadyIsSteady, Clean, Finalizing, SteadyNodesClean, Waits, LaterStatesWait, NextState
<1>6. CASE cur < NumStates /\ cur' = cur + 1 /\ todo' = KernelVersions /\ pc' = "run"
  <2>1. Others'
    BY <1>1, <1>3, <1>6, ChartAssumption DEF Others, KernelVersions
  <2>2. cur' - 1 = cur /\ cur' \in States
    BY <1>3, <1>6, ChartAssumption DEF States
  <2>3. Labelling'
    BY <1>6, <2>2 DEF Labelling, States
  <2>4. SteadyNodesLabelled'
    <3>1. \A n \in steady : 1..(cur' - 1) \subseteq labels[n]
      BY <1>4, <2>2
    <3> QED  BY <1>1, <1>6, <3>1 DEF SteadyNodesLabelled
  <2>5. Waiting'
    BY <1>1, <1>6, <2>2 DEF Waits, Waiting
  <2> QED  BY <1>2, <1>5, <2>1, <2>3, <2>4, <2>5 DEF Labels, Waits
<1>7. CASE ~(cur < NumStates) /\ pc' = "nostate" /\ UNCHANGED <<cur, todo>>
  <2>1. cur = NumStates
    BY <1>3, <1>7, ChartAssumption
  <2>2. Labels'
    BY <1>1, <1>4, <1>7, <2>1 DEF Labels, Labelling, SteadyNodesLabelled, Passing, States
  <2>3. Others' /\ Waiting'
    BY <1>1, <1>7 DEF Others, KernelVersions, Waits, Waiting, Passing
  <2> QED  BY <1>2, <1>5, <2>2, <2>3 DEF Waits
<1> QED  BY <1>6, <1>7 DEF NextState

\* The templates without a state are run.
LEMMA RunStatelessKeeps == ASSUME IInv, RunStateless PROVE IInv'
<1> USE DEF IInv
<1>1. CASE pc' = "done" /\ UNCHANGED <<loops, listed, dirty, mishaps>>
  <2>1. /\ pc = "nostate"
        /\ UNCHANGED <<nodes, stream, info, deleting, objs, ready, was, labels, cur, todo, replica,
                       listed, dirty, steady, mishaps>>
    BY <1>1 DEF RunStateless, cluster, loops
  <2>2. (deleting \in BOOLEAN)' /\ OwnToolkit' /\ GetNodesByLabels' = GetNodesByLabels
    BY <2>1, Quiet
  <2>3. Others' /\ SteadyIsSteady' /\ Clean'
    BY <1>1, <2>1, <2>2 DEF Others, KernelVersions, SteadyIsSteady, Clean, Finalizing, SteadyNodesClean
  <2>4. Labels' /\ Waits'
    BY <1>1, <2>1 DEF Labels, Labelling, SteadyNodesLabelled, Waits, Waiting, LaterStatesWait, Passing
  <2> QED  BY <2>2, <2>3, <2>4
<1>2. CASE Mishap /\ Fail
  <2>1. mishaps' \in 0..MaxMishaps
    BY <1>2, ChartAssumption DEF Mishap, Others
  <2> QED  BY <1>2, <2>1, FailKeeps DEF RunStateless, Fail
<1> QED  BY <1>1, <1>2 DEF RunStateless

\* The nodes are listed for finalization, and cleaned one by one.
LEMMA FinalizeKeeps == ASSUME IInv, Finalize PROVE IInv'
<1> USE DEF IInv
<1>1. CASE ListNodes
  <2>1. /\ pc' = "finalize" /\ listed' = GetNodesByLabels /\ dirty' = {} /\ steady' = GetNodesByLabels
        /\ UNCHANGED <<nodes, stream, info, deleting, objs, ready, was, labels, cur, todo, replica, mishaps>>
    BY <1>1 DEF ListNodes, cluster, loops
  <2>2. (deleting \in BOOLEAN)' /\ OwnToolkit' /\ GetNodesByLabels' = GetNodesByLabels
    BY <2>1, Quiet
  <2>3. Others' /\ SteadyIsSteady' /\ Clean'
    BY <2>1, <2>2 DEF Others, KernelVersions, SteadyIsSteady, Clean, Finalizing, SteadyNodesClean, GetNodesByLabels
  <2>4. Labels'
    BY <2>1 DEF Labels, Labelling, SteadyNodesLabelled, Passing
  <2>5. Waits'
    BY <2>1 DEF Waits, Waiting, LaterStatesWait, Passing
  <2> QED  BY <2>2, <2>3, <2>4, <2>5
<1>2. CASE FinalizeNode
  <2>1. /\ pc = "finalize"
        /\ UNCHANGED <<nodes, stream, info, deleting, objs, ready, was, cur, todo, replica, dirty>>
        /\ mishaps' \in 0..MaxMishaps
    <3>1. pc = "finalize" /\ UNCHANGED <<cluster, deleting, loops, dirty>>
      BY <1>2 DEF FinalizeNode, Fail
    <3>2. UNCHANGED mishaps \/ Mishap
      BY <1>2 DEF FinalizeNode, Fail
    <3>3. mishaps' \in 0..MaxMishaps
      BY <3>2, ChartAssumption DEF Mishap, Others
    <3> QED  BY <3>1, <3>3 DEF cluster, loops
  <2>2. CASE Fail /\ UNCHANGED <<labels, steady>>
    BY <1>2, <2>1, <2>2, FailKeeps DEF Fail, cluster, loops
  <2>3. ASSUME NEW n \in listed, listed' = listed \ {n}, UNCHANGED pc,
               \/ n \notin dirty /\ labels' = [labels EXCEPT ![n] = {}] /\ UNCHANGED steady
               \/ n \in dirty /\ UNCHANGED <<labels, steady>>
               \/ steady' = steady \ {n} /\ UNCHANGED labels
        PROVE  IInv'
    <3>1. (deleting \in BOOLEAN)' /\ OwnToolkit' /\ GetNodesByLabels' = GetNodesByLabels
      BY <2>1, Quiet
    <3>2. labels' \in [Node -> SUBSET States] /\ \A m \in Node : labels[m] = {} => labels'[m] = {}
      BY <2>3 DEF Others
    <3>3. steady' \subseteq steady /\ (n \in steady' => labels'[n] = {})
      BY <2>1, <2>3 DEF SteadyIsSteady, Others
    <3>4. Others' /\ SteadyIsSteady'
      BY <2>1, <2>3, <3>1, <3>2, <3>3 DEF Others, KernelVersions, SteadyIsSteady
    <3>5. Clean'
      BY <2>1, <2>3, <3>2, <3>3 DEF Clean, Finalizing, SteadyNodesClean, Others
    <3>6. Labels' /\ Waits'
      BY <2>1, <2>3 DEF Labels, Labelling, SteadyNodesLabelled, Waits, Waiting, LaterStatesWait, Passing
    <3> QED  BY <3>1, <3>4, <3>5, <3>6
  <2> QED  BY <1>2, <2>2, <2>3 DEF FinalizeNode
<1>3. CASE Finalized
  <2>1. /\ pc = "finalize" /\ listed = {} /\ pc' = "gone"
        /\ UNCHANGED <<nodes, stream, info, deleting, objs, ready, was, labels, cur, todo, replica,
                       listed, dirty, steady, mishaps>>
    BY <1>3 DEF Finalized, cluster, loops
  <2>2. (deleting \in BOOLEAN)' /\ OwnToolkit' /\ GetNodesByLabels' = GetNodesByLabels
    BY <2>1, Quiet
  <2>3. Others' /\ SteadyIsSteady' /\ Clean'
    BY <2>1, <2>2 DEF Others, KernelVersions, SteadyIsSteady, Clean, Finalizing, SteadyNodesClean
  <2>4. Labels' /\ Waits'
    BY <2>1 DEF Labels, Labelling, SteadyNodesLabelled, Waits, Waiting, LaterStatesWait, Passing
  <2> QED  BY <2>2, <2>3, <2>4
<1> QED  BY <1>1, <1>2, <1>3 DEF Finalize

\* Every step of the worker and of the cluster keeps the invariant.
THEOREM Inductive == IInv /\ [Next]_vars => IInv'
<1> SUFFICES ASSUME IInv, [Next]_vars PROVE IInv'
  OBVIOUS
<1>1. CASE \E n \in Node : NodeChanges(n)
  BY <1>1, NodeChangesKeeps
<1>2. CASE StreamChanges \/ (\E o \in Objects : AvailabilityChanges(o)) \/ Delete \/ UNCHANGED vars
  BY <1>2, ClusterKeeps
<1>3. CASE StartPass
  BY <1>3, StartPassKeeps
<1>4. CASE CreateReplica
  BY <1>4, CreateReplicaKeeps
<1>5. CASE WaitForReplica
  BY <1>5, WaitForReplicaKeeps
<1>6. CASE LabelNode
  BY <1>6, LabelNodeKeeps
<1>7. CASE NextState
  BY <1>7, NextStateKeeps
<1>8. CASE RunStateless
  BY <1>8, RunStatelessKeeps
<1>9. CASE EndPass
  <2>1. mishaps' \in 0..MaxMishaps
    BY <1>9 DEF EndPass, IInv, Others
  <2> QED  BY <1>9, <2>1, FailKeeps DEF EndPass, Fail
<1>10. CASE Finalize
  BY <1>10, FinalizeKeeps
<1> QED  BY <1>1, <1>2, <1>3, <1>4, <1>5, <1>6, <1>7, <1>8, <1>9, <1>10 DEF Next, Pass

-----------------------------------------------------------------------------
(* What follows from it *)

\* Nodes, replicas and loops keep their types.
THEOREM TypeCorrect == Spec => []TypeOK
<1>1. IInv => TypeOK
  BY TypeParts DEF IInv
<1> QED  BY <1>1, Initially, Inductive, PTL DEF Spec

\* labelNodesAccordingToState leaves out no node that did not change.
THEOREM NodesAreLabelled == Spec => []SteadyNodesLabelled
<1>1. IInv => SteadyNodesLabelled
  BY DEF IInv, Labels
<1> QED  BY <1>1, Initially, Inductive, PTL DEF Spec

\* ReconcileChartStates does not begin a state before a replica of the kernel-affine
\* one ahead of it has been available.
THEOREM StatesWait == Spec => []LaterStatesWait
<1>1. IInv => LaterStatesWait
  BY DEF IInv, Waits
<1> QED  BY <1>1, Initially, Inductive, PTL DEF Spec

\* finalizeNodes cleans every node that did not change and whose Update did not fail.
THEOREM NodesAreCleaned == Spec => []SteadyNodesClean
<1>1. IInv => SteadyNodesClean
  BY DEF IInv, Clean
<1> QED  BY <1>1, Initially, Inductive, PTL DEF Spec

\* updateInfo gives no kernel the toolkit of another one, whatever the registry holds.
THEOREM ToolkitsMatch == Spec => []OwnToolkit
<1>1. IInv => OwnToolkit
  BY DEF IInv
<1> QED  BY <1>1, Initially, Inductive, PTL DEF Spec

=============================================================================
