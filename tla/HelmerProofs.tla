----------------------------- MODULE HelmerProofs -----------------------------
(***************************************************************************)
(* helmer.Run on any chart, with any number of failures, deletions, dry    *)
(* runs of other controllers and restarts: the order of creation, what     *)
(* success means, and that hooks are run once.                             *)
(***************************************************************************)
EXTENDS Helmer, TLAPS

\* The time given to a prover covers what the proof manager does meanwhile.
USE SMTT(20), ZenonT(30)

Busy == {"hook", "crud", "after", "mark"}

\* What has been run stays on record.
Passed(j) == j \in IF j \in Waited THEN was ELSE made

\* The record of what was created and available follows the objects.
OnRecord ==
    \A i \in Object : /\ obj[i] # "none" => i \in made
                      /\ obj[i] = "ready" => i \in was

\* What Run has left behind it, and what a config map stands for.
Behind ==
    /\ \A j \in Object \ OneTimer : j < at => Passed(j)
    /\ \A j \in Hook : Kind[j] \in marked => Passed(j) \/ j \in OneTimer

\* Every object behind Run is there, or its deletion has queued the owner; hooks
\* behind it are marked, unless their event is still being executed.
BehindIsComplete ==
    \A j \in Object \ OneTimer : j < at =>
        IF j \in Hook THEN Kind[j] \in marked \/ (at \in Object /\ Kind[at] = Kind[j])
        ELSE obj[j] # "none" \/ queued

\* What Run knows of the object at hand.
AtHand ==
    /\ pc = "idle" => at = 1
    /\ pc = "hook" => at \in Hook
    /\ pc \in Busy /\ at \in Hook => Kind[at] \notin marked
    /\ pc = "after" => /\ at \in made \cup OneTimer
                       /\ at \in Hook \cup OneTimer \/ obj[at] # "none" \/ queued
    /\ pc = "mark" => LastHook /\ at \in was

\* The type invariant, its Boolean part apart.
Bools == recorded \in BOOLEAN /\ setup \in BOOLEAN /\ queued \in BOOLEAN /\ installed \in BOOLEAN

Others ==
    /\ obj \in [Object -> {"none", "waiting", "ready", "failed"}]
    /\ made \subseteq Object /\ was \subseteq made
    /\ marked \subseteq {"pre", "post"}
    /\ current \in {"Run", "Other"}
    /\ pc \in {"idle", "render", "enter", "hook", "crud", "after", "mark"}
    /\ at \in 1..(Len(Kind) + 1) /\ (pc \in {"hook", "crud", "after", "mark"} => at \in Object)
    /\ failures \in 0..MaxFailures /\ deletes \in 0..MaxDeletes /\ others \in 0..MaxOthers
    /\ faults \in 0..MaxFaults /\ restarts \in 0..MaxRestarts

IInv == Bools /\ Others /\ OnRecord /\ InOrder /\ Behind /\ BehindIsComplete /\ AtHand /\ SuccessIsComplete

\* Objects of one kind are neighbours (the order in which Run reaches them).
LEMMA Neighbours ==
    ASSUME NEW i \in Object, NEW j \in Object, i < j, Kind[i + 1] # Kind[i]
    PROVE  Kind[j] # Kind[i]
<1>1. Object = 1..Len(Kind) /\ Len(Kind) \in Nat
  BY HelmerAssumption DEF Object
<1>2. i + 1 \in Object /\ (i + 1 < j \/ i + 1 = j)
  BY <1>1
<1>3. /\ Order[Kind[i]] <= Order[Kind[i + 1]] /\ Order[Kind[i + 1]] <= Order[Kind[j]]
  <2>1. \A k \in Object : Kind[k] \in DOMAIN Order /\ Order[Kind[k]] \in Nat
    BY HelmerAssumption DEF Object, Order
  <2> QED  BY <1>1, <1>2, <2>1, HelmerAssumption
<1>4. /\ Kind[i] \in DOMAIN Order /\ Kind[i + 1] \in DOMAIN Order
  BY <1>2, HelmerAssumption DEF Object
<1>5. Order[Kind[i]] # Order[Kind[i + 1]]
  BY <1>4 DEF Order
<1>6. Order[Kind[i]] \in Nat /\ Order[Kind[i + 1]] \in Nat
  BY <1>4 DEF Order
<1> QED  BY <1>3, <1>5, <1>6

\* The positions of a chart.
LEMMA Positions ==
    /\ Len(Kind) \in Nat /\ Object = 1..Len(Kind)
    /\ Hook \subseteq Object /\ Hook \subseteq Waited
    /\ Cleared \subseteq Hook
    /\ \A i, j \in Object : i \in Hook /\ Kind[i] = Kind[j] => j \in Hook
  BY HelmerAssumption DEF Object, Hook

\* The bounds are numbers.
LEMMA Bounds ==
    /\ MaxFailures \in Nat /\ MaxDeletes \in Nat /\ MaxOthers \in Nat
    /\ MaxFaults \in Nat /\ MaxRestarts \in Nat
  BY HelmerAssumption

\* The two parts of the type invariant.
LEMMA TypeParts == TypeOK <=> Bools /\ Others
  BY Zenon DEF TypeOK, Bools, Others

\* Nothing is created, recorded or run at the start.
THEOREM Initially == Init => IInv
<1> SUFFICES ASSUME Init PROVE IInv
  OBVIOUS
<1>1. Bools /\ Others
  <2>1. Bools
    BY Zenon DEF Init, Bools
  <2>2. Others
    BY Positions, Bounds DEF Init, Others
  <2> QED  BY <2>1, <2>2
<1>2. OnRecord /\ InOrder
  BY DEF Init, OnRecord, InOrder
<1>3. Behind /\ BehindIsComplete
  BY Positions DEF Init, Behind, BehindIsComplete
<1>4. AtHand /\ SuccessIsComplete
  BY DEF Init, AtHand, Busy, SuccessIsComplete, Quiescent
<1> QED  BY <1>1, <1>2, <1>3, <1>4 DEF IInv

-----------------------------------------------------------------------------
(* The cluster, other controllers, restarts *)

\* Objects become available, fail and are deleted; the record is kept.
LEMMA ObjectsKeep ==
    ASSUME IInv, NEW i \in Object, BecomeReady(i) \/ HookFails(i) \/ DeleteOwnedObject(i)
    PROVE  IInv'
<1>1. UNCHANGED <<made, marked, current, recorded, setup, pc, at, installed, others, faults, restarts>>
  BY DEF BecomeReady, HookFails, DeleteOwnedObject, config, pass, bounds
<1>2. /\ was \subseteq was' /\ was' \subseteq was \cup {i}
      /\ queued => queued'
      /\ \A j \in Object \ {i} : obj'[j] = obj[j]
      /\ obj[i] # "none" /\ (obj'[i] = "none" => queued')
      /\ obj'[i] = "ready" => i \in was'
  BY DEF BecomeReady, HookFails, DeleteOwnedObject, IInv, Others, config, pass, bounds
<1>3. i \in made
  BY <1>2 DEF IInv, OnRecord
<1>4. Bools' /\ Others'
  <2>1. Bools /\ Others
    BY DEF IInv
  <2>2. Bools'
    BY <1>1, <2>1, Zenon DEF BecomeReady, HookFails, DeleteOwnedObject, Bools
  <2>3. /\ obj' \in [Object -> {"none", "waiting", "ready", "failed"}]
        /\ failures' \in 0..MaxFailures /\ deletes' \in 0..MaxDeletes
    BY <2>1, Bounds DEF BecomeReady, HookFails, DeleteOwnedObject, Others, bounds
  <2>4. Others'
    BY <1>1, <1>2, <1>3, <2>1, <2>3 DEF Others
  <2> QED  BY <2>2, <2>4
<1>5. OnRecord' /\ InOrder'
  BY <1>1, <1>2, <1>3 DEF IInv, OnRecord, InOrder
<1>6. Behind'
  BY <1>1, <1>2 DEF IInv, Behind, Passed
<1>7. BehindIsComplete'
  BY <1>1, <1>2 DEF IInv, BehindIsComplete
<1>8. AtHand'
  <2>1. pc = "after" => at \in Hook \cup OneTimer \/ obj'[at] # "none" \/ queued'
    BY <1>1, <1>2 DEF IInv, Others, AtHand
  <2> QED  BY <1>1, <1>2, <2>1 DEF IInv, AtHand, LastHook
<1>9. SuccessIsComplete'
  BY <1>1, <1>2 DEF IInv, SuccessIsComplete, Quiescent
<1> QED  BY <1>4, <1>5, <1>6, <1>7, <1>8, <1>9 DEF IInv

\* Dry runs of other controllers touch the configuration only.
LEMMA OthersKeep == IInv /\ (OtherNewConfig \/ OtherRender) => IInv'
<1> SUFFICES ASSUME IInv, OtherNewConfig \/ OtherRender PROVE IInv'
  OBVIOUS
<1>1. UNCHANGED <<obj, made, was, marked, queued, pc, at, installed, failures, deletes, faults, restarts>>
  BY DEF OtherNewConfig, OtherRender, objects, pass, bounds
<1>2. Bools /\ Others
  BY DEF IInv
<1>3. Bools' /\ Others'
  <2>1. Bools'
    <3>1. recorded' \in BOOLEAN /\ setup' \in BOOLEAN
      BY <1>2, Zenon DEF OtherNewConfig, OtherRender, Bools
    <3> QED  BY <1>1, <1>2, <3>1, Zenon DEF Bools
  <2>2. current' \in {"Run", "Other"} /\ others' \in 0..MaxOthers
    <3>1. \/ others < MaxOthers /\ others' = others + 1 /\ current' = "Other"
          \/ UNCHANGED <<current, others>>
      BY Zenon DEF OtherNewConfig, OtherRender, bounds
    <3> QED  BY <1>2, <3>1, Bounds DEF Others
  <2>3. Others'
    BY <1>1, <1>2, <2>2 DEF Others
  <2> QED  BY <2>1, <2>3
<1> QED  BY <1>1, <1>3 DEF IInv, OnRecord, InOrder, Behind, Passed, BehindIsComplete, AtHand,
                           LastHook, SuccessIsComplete, Quiescent

\* The end of a run, and of the process, with the owner queued.
LEMMA FailKeeps ==
    ASSUME IInv, Fail, UNCHANGED <<made, was, marked>>,
           obj' \in [Object -> {"none", "waiting", "ready", "failed"}],
           \A i \in Object : obj'[i] = obj[i] \/ obj'[i] = "none",
           current' \in {"Run", "Other"}, Bools',
           UNCHANGED <<failures, deletes, others>>,
           faults' \in 0..MaxFaults, restarts' \in 0..MaxRestarts
    PROVE  IInv'
<1>1. pc' = "idle" /\ at' = 1 /\ installed' = FALSE /\ queued'
  BY DEF Fail, Done
<1>2. Others'
  BY <1>1, Positions DEF IInv, Others
<1>3. OnRecord' /\ InOrder'
  BY DEF IInv, OnRecord, InOrder
<1>4. Behind'
  BY <1>1, Positions DEF IInv, Behind, Passed
<1>5. BehindIsComplete'
  BY <1>1, Positions DEF BehindIsComplete
<1>6. AtHand' /\ SuccessIsComplete'
  BY <1>1 DEF AtHand, Busy, SuccessIsComplete, Quiescent
<1> QED  BY <1>2, <1>3, <1>4, <1>5, <1>6 DEF IInv

\* A restart forgets the run and lists the owner anew.
LEMMA RestartKeeps == IInv /\ Restart => IInv'
<1> SUFFICES ASSUME IInv, Restart PROVE IInv'
  OBVIOUS
<1>1. Fail /\ restarts' \in 0..MaxRestarts
  BY Bounds DEF Restart, Fail, Done, IInv, Others
<1>2. Bools'
  BY Zenon DEF Restart, Bools
<1> QED  BY <1>1, <1>2, FailKeeps DEF Restart, objects, IInv, Others

-----------------------------------------------------------------------------
(* Run *)

\* A failure stays within the bound.
LEMMA FaultBound == IInv /\ Fault => faults' \in 0..MaxFaults
  BY Bounds DEF Fault, IInv, Others

\* deleteHookByPolicy deletes hooks or prints.
LEMMA ClearsHooks ==
    ASSUME IInv, NEW S \in SUBSET Hook, obj' \in Clears(S)
    PROVE  /\ obj' \in [Object -> {"none", "waiting", "ready", "failed"}]
           /\ \A i \in Object : obj'[i] = obj[i] \/ (i \in S /\ obj'[i] = "none")
<1>1. obj \in [Object -> {"none", "waiting", "ready", "failed"}]
  BY DEF IInv, Others
<1>2. obj' = obj \/ obj' = [i \in Object |-> IF i \in S THEN "none" ELSE obj[i]]
  BY DEF Clears
<1> QED  BY <1>1, <1>2

\* A step of Run that leaves objects, config maps and the object at hand alone.
LEMMA SameObjectKeeps ==
    ASSUME IInv, UNCHANGED <<obj, made, was, marked, at, failures, deletes, others, restarts>>,
           Bools', current' \in {"Run", "Other"}, faults' \in 0..MaxFaults,
           pc' \in {"render", "enter"} \/ (pc' \in {"hook", "crud"} /\ at \in Object),
           queued => queued' \/ at = 1,
           pc' = "hook" => at \in Hook,
           pc' \in Busy /\ at \in Hook => Kind[at] \notin marked
    PROVE  IInv'
<1>1. Others'
  BY DEF IInv, Others
<1>2. OnRecord' /\ InOrder' /\ Behind'
  BY DEF IInv, OnRecord, InOrder, Behind, Passed
<1>3. BehindIsComplete'
  <2>1. CASE at = 1
    BY <2>1, Positions DEF BehindIsComplete
  <2>2. CASE queued => queued'
    BY <2>2 DEF IInv, BehindIsComplete
  <2> QED  BY <2>1, <2>2
<1>4. AtHand' /\ SuccessIsComplete'
  BY DEF AtHand, SuccessIsComplete, Quiescent, Busy
<1> QED  BY <1>1, <1>2, <1>3, <1>4 DEF IInv

\* The dry run.
LEMMA DryRunKeeps == IInv /\ DryRun => IInv'
<1> SUFFICES ASSUME IInv, DryRun PROVE IInv'
  OBVIOUS
<1>1. /\ UNCHANGED <<obj, made, was, marked, at, failures, deletes, others, faults, restarts>>
      /\ current' = "Run" /\ pc' = "render" /\ at = 1
  BY DEF DryRun, objects, bounds, IInv, AtHand
<1>2. Bools'
  BY Zenon DEF DryRun, IInv, Bools
<1>3. faults \in 0..MaxFaults
  BY DEF IInv, Others
<1> QED  BY <1>1, <1>2, <1>3, SameObjectKeeps DEF Busy

\* Storing the release.
LEMMA CreateReleaseKeeps == IInv /\ CreateRelease => IInv'
<1> SUFFICES ASSUME IInv, CreateRelease PROVE IInv'
  OBVIOUS
<1>1. UNCHANGED <<obj, made, was, marked, current, setup, failures, deletes, others, restarts>>
  BY Zenon DEF CreateRelease, objects
<1>2. CASE /\ pc' = "enter"
           /\ recorded' \in IF Racing THEN BOOLEAN ELSE {TRUE}
           /\ UNCHANGED <<queued, at, installed, faults>>
  <2>1. Bools'
    BY <1>1, <1>2, Zenon DEF IInv, Bools
  <2>2. pc' = "enter" /\ UNCHANGED <<queued, at, faults>>
    BY <1>2, Zenon
  <2>3. faults \in 0..MaxFaults /\ current \in {"Run", "Other"}
    BY DEF IInv, Others
  <2> QED  BY <1>1, <2>1, <2>2, <2>3, SameObjectKeeps DEF Busy
<1>3. CASE Fault /\ Fail /\ UNCHANGED recorded
  <2>1. Bools'
    BY <1>1, <1>3, Zenon DEF Fail, Done, IInv, Bools
  <2>2. faults' \in 0..MaxFaults
    BY <1>3, FaultBound
  <2> QED  BY <1>1, <1>3, <2>1, <2>2, FailKeeps DEF IInv, Others
<1> QED  BY <1>2, <1>3, Zenon DEF CreateRelease

\* ExecHook passes over the hooks of a marked event.
LEMMA SkipKeeps ==
    ASSUME IInv, pc = "enter", at \in Object, Kind[at] \in marked,
           NEW i \in (at + 1)..(Len(Kind) + 1), NextKind(i), at' = i, pc' = pc, Bools',
           UNCHANGED <<obj, made, was, marked, current, queued, failures, deletes, others,
                       faults, restarts>>
    PROVE  IInv'
<1>1. at \in 1..Len(Kind) /\ i \in 1..(Len(Kind) + 1) /\ at < i /\ Len(Kind) \in Nat
  BY Positions
<1>2. \A j \in Object : at <= j /\ j < i => j \in Hook /\ Kind[j] = Kind[at]
  <2>1. \A j \in Object : at <= j /\ j < i => Kind[j] = Kind[at]
    BY <1>1, Positions DEF NextKind
  <2>2. at \in Hook
    BY DEF IInv, Others, Hook
  <2> QED  BY <2>1, <2>2, Positions
<1>3. Others'
  BY <1>1 DEF IInv, Others
<1>4. OnRecord' /\ InOrder'
  BY DEF IInv, OnRecord, InOrder
<1>5. Behind'
  <2>1. \A j \in Object \ OneTimer : j < i => Passed(j)
    BY <1>1, <1>2, Positions DEF IInv, Behind
  <2> QED  BY <2>1 DEF IInv, Behind, Passed
<1>6. BehindIsComplete'
  BY <1>1, <1>2, Positions DEF IInv, BehindIsComplete
<1>7. AtHand' /\ SuccessIsComplete'
  BY DEF AtHand, Busy, SuccessIsComplete, Quiescent
<1> QED  BY <1>3, <1>4, <1>5, <1>6, <1>7 DEF IInv

\* Coming to the next kind of objects.
LEMMA EnterKeeps == IInv /\ Enter => IInv'
<1> SUFFICES ASSUME IInv, Enter PROVE IInv'
  OBVIOUS
<1>1. /\ pc = "enter" /\ at \in Object
      /\ UNCHANGED <<obj, made, was, marked, current, recorded, setup, failures, deletes,
                     others, restarts>>
  BY Zenon DEF Enter, objects, config
<1>2. CASE /\ Kind[at] \in marked
           /\ \E i \in (at + 1)..(Len(Kind) + 1) : NextKind(i) /\ at' = i
           /\ UNCHANGED <<pc, installed, queued, faults>>
  <2>1. Bools'
    BY <1>1, <1>2, Zenon DEF IInv, Bools
  <2>2. UNCHANGED <<pc, queued, faults>>
    BY <1>2
  <2>3. PICK i \in (at + 1)..(Len(Kind) + 1) : NextKind(i) /\ at' = i
    BY <1>2
  <2>4. Kind[at] \in marked
    BY <1>2
  <2> QED  BY <1>1, <2>1, <2>2, <2>3, <2>4, SkipKeeps
<1>3. CASE /\ Kind[at] \notin marked
           /\ pc' = IF at \in Hook THEN "hook" ELSE "crud"
           /\ installed' \in IF Kind[at] = "manifest" THEN ReleaseInstalled ELSE {FALSE}
           /\ UNCHANGED <<at, queued, faults>>
  <2>1. Bools'
    BY <1>1, <1>3, Zenon DEF ReleaseInstalled, IInv, Bools
  <2>2. Kind[at] \notin marked /\ UNCHANGED <<at, queued, faults>>
    BY <1>3, Zenon
  <2>3. pc' \in {"hook", "crud"} /\ (pc' = "hook" => at \in Hook)
    BY <1>3, Zenon
  <2>4. faults \in 0..MaxFaults /\ current \in {"Run", "Other"}
    BY DEF IInv, Others
  <2> QED  BY <1>1, <2>1, <2>2, <2>3, <2>4, SameObjectKeeps
<1>4. CASE Fault /\ Fail
  <2>1. Bools'
    BY <1>1, <1>4, Zenon DEF Fail, Done, IInv, Bools
  <2>2. faults' \in 0..MaxFaults
    BY <1>4, FaultBound
  <2> QED  BY <1>1, <1>4, <2>1, <2>2, FailKeeps DEF IInv, Others
<1> QED  BY <1>2, <1>3, <1>4, Zenon DEF Enter

\* Before a hook, its object may be deleted; the record is kept.
LEMMA BeforeHookKeeps == IInv /\ BeforeHook => IInv'
<1> SUFFICES ASSUME IInv, BeforeHook PROVE IInv'
  OBVIOUS
<1>1. /\ pc = "hook" /\ at \in Hook /\ at \in Object /\ Kind[at] \notin marked
      /\ UNCHANGED <<made, was, marked, current, recorded, setup, failures, deletes, others,
                     faults, restarts>>
  BY Positions DEF BeforeHook, config, bounds, IInv, AtHand, Busy
<1>2. /\ obj' \in [Object -> {"none", "waiting", "ready", "failed"}]
      /\ \A i \in Object : obj'[i] = obj[i] \/ (i = at /\ obj'[i] = "none")
  <2>1. obj' \in Clears({at}) /\ {at} \in SUBSET Hook
    BY <1>1 DEF BeforeHook
  <2> QED  BY <2>1, ClearsHooks
<1>3. CASE pc' = "crud" /\ UNCHANGED <<at, installed, queued>>
  <2>1. Bools'
    BY <1>1, <1>3, Zenon DEF IInv, Bools
  <2>2. Others'
    BY <1>1, <1>2, <1>3 DEF IInv, Others
  <2>3. OnRecord' /\ InOrder' /\ Behind'
    BY <1>1, <1>2, <1>3 DEF IInv, OnRecord, InOrder, Behind, Passed
  <2>4. BehindIsComplete'
    BY <1>1, <1>2, <1>3, Positions DEF IInv, BehindIsComplete
  <2>5. AtHand' /\ SuccessIsComplete'
    BY <1>1, <1>3 DEF AtHand, SuccessIsComplete, Quiescent
  <2> QED  BY <2>1, <2>2, <2>3, <2>4, <2>5 DEF IInv
<1>4. CASE Fail
  <2>1. Bools'
    BY <1>1, <1>4, Zenon DEF Fail, Done, IInv, Bools
  <2> QED  BY <1>1, <1>2, <1>4, <2>1, FailKeeps DEF IInv, Others
<1> QED  BY <1>3, <1>4, Zenon DEF BeforeHook

\* An object is created after everything before it.
LEMMA CrudKeeps == IInv /\ Crud => IInv'
<1> SUFFICES ASSUME IInv, Crud PROVE IInv'
  OBVIOUS
<1>1. /\ pc = "crud" /\ at \in Object /\ (at \in Hook => Kind[at] \notin marked)
      /\ UNCHANGED <<marked, current, recorded, setup, failures, deletes, others, restarts>>
  BY DEF Crud, config, IInv, Others, AtHand, Busy
<1>2. CASE Fault /\ Fail /\ UNCHANGED objects
  <2>1. Bools'
    BY <1>1, <1>2, Zenon DEF Fail, Done, IInv, Bools
  <2>2. faults' \in 0..MaxFaults
    BY <1>2, FaultBound
  <2> QED  BY <1>1, <1>2, <2>1, <2>2, FailKeeps DEF objects, IInv, Others
<1>3. CASE /\ obj[at] # "none" \/ (installed /\ at \in OneTimer)
           /\ UNCHANGED <<obj, made>>
           /\ pc' = "after" /\ UNCHANGED <<was, queued, at, installed, faults>>
  <2>1. Bools'
    BY <1>1, <1>3, Zenon DEF IInv, Bools
  <2>2. obj[at] # "none" \/ at \in OneTimer
    BY <1>3
  <2>3. UNCHANGED <<obj, made, was, queued, at, faults>> /\ pc' = "after"
    BY <1>3
  <2>4. Others' /\ OnRecord' /\ InOrder' /\ Behind' /\ BehindIsComplete' /\ SuccessIsComplete'
    BY <1>1, <2>3 DEF IInv, Others, OnRecord, InOrder, Behind, Passed, BehindIsComplete,
                      SuccessIsComplete, Quiescent
  <2>5. AtHand'
    BY <1>1, <2>2, <2>3 DEF IInv, OnRecord, AtHand, Busy
  <2> QED  BY <2>1, <2>4, <2>5 DEF IInv
<1>4. CASE /\ obj' = [obj EXCEPT ![at] = "waiting"] /\ made' = made \cup {at}
           /\ pc' = "after" /\ UNCHANGED <<was, queued, at, installed, faults>>
  <2>1. Bools'
    BY <1>1, <1>4, Zenon DEF IInv, Bools
  <2>2. /\ obj' \in [Object -> {"none", "waiting", "ready", "failed"}]
        /\ obj'[at] = "waiting" /\ \A j \in Object \ {at} : obj'[j] = obj[j]
    BY <1>1, <1>4 DEF IInv, Others
  <2>3. made' = made \cup {at} /\ pc' = "after" /\ UNCHANGED <<was, queued, at, faults>>
    BY <1>4
  <2>4. Others' /\ OnRecord'
    BY <1>1, <2>2, <2>3 DEF IInv, Others, OnRecord
  <2>5. InOrder' /\ Behind'
    BY <1>1, <2>3 DEF IInv, InOrder, Behind, Passed
  <2>6. BehindIsComplete' /\ AtHand' /\ SuccessIsComplete'
    BY <1>1, <2>2, <2>3 DEF IInv, BehindIsComplete, AtHand, Busy, SuccessIsComplete, Quiescent
  <2> QED  BY <2>1, <2>4, <2>5, <2>6 DEF IInv
<1> QED  BY <1>2, <1>3, <1>4, Zenon DEF Crud, objects

\* Going on to the next object, or to the end of the hooks of an event.
LEMMA AfterCRUDKeeps == IInv /\ AfterCRUD => IInv'
<1> SUFFICES ASSUME IInv, AfterCRUD PROVE IInv'
  OBVIOUS
<1>1. /\ pc = "after" /\ at \in Object /\ (at \in Hook => Kind[at] \notin marked)
      /\ at \in made \cup OneTimer
      /\ at \in Hook \cup OneTimer \/ obj[at] # "none" \/ queued
      /\ UNCHANGED <<obj, made, was, marked, current, recorded, setup, failures, deletes, others,
                     faults, restarts>>
  BY DEF AfterCRUD, objects, config, bounds, IInv, Others, AtHand, Busy
<1>2. CASE Fail
  <2>1. Bools'
    BY <1>1, <1>2, Zenon DEF Fail, Done, IInv, Bools
  <2> QED  BY <1>1, <1>2, <2>1, FailKeeps DEF IInv, Others
<1>3. CASE /\ at \in Waited => obj[at] = "ready"
           /\ LastHook /\ pc' = "mark" /\ UNCHANGED at
           /\ UNCHANGED <<installed, queued>>
  <2>1. Bools'
    BY <1>1, <1>3, Zenon DEF IInv, Bools
  <2>2. LastHook' /\ at \in was
    BY <1>1, <1>3, Positions DEF LastHook, IInv, OnRecord
  <2>3. UNCHANGED <<at, queued>> /\ pc' = "mark"
    BY <1>3
  <2>4. Others' /\ OnRecord' /\ InOrder' /\ Behind' /\ BehindIsComplete' /\ SuccessIsComplete'
    BY <1>1, <2>3 DEF IInv, Others, OnRecord, InOrder, Behind, Passed, BehindIsComplete,
                      SuccessIsComplete, Quiescent
  <2>5. AtHand'
    BY <1>1, <2>2, <2>3 DEF AtHand
  <2> QED  BY <2>1, <2>4, <2>5 DEF IInv
<1>4. CASE /\ at \in Waited => obj[at] = "ready"
           /\ ~LastHook /\ at' = at + 1
           /\ pc' = IF at' \notin Object \/ Kind[at'] # Kind[at] THEN "enter"
                    ELSE IF at \in Hook THEN "hook" ELSE "crud"
           /\ UNCHANGED <<installed, queued>>
  <2>1. Bools'
    BY <1>1, <1>4, Zenon DEF IInv, Bools
  <2>2. /\ at' = at + 1 /\ at \in 1..Len(Kind) /\ Len(Kind) \in Nat /\ queued' = queued
        /\ at \in Hook => at + 1 \in Object /\ Kind[at + 1] = Kind[at]
    BY <1>1, <1>4, Positions DEF LastHook
  <2>3. /\ pc' = "enter" \/ (at + 1 \in Object /\ Kind[at + 1] = Kind[at] /\ pc' \in {"hook", "crud"})
        /\ pc' = "hook" => at \in Hook
    BY <1>4, <2>2
  <2>4. at \notin OneTimer => Passed(at)
    BY <1>1, <1>4 DEF Passed, IInv, OnRecord
  <2>5. Others'
    BY <1>1, <2>2, <2>3, Positions DEF IInv, Others
  <2>6. OnRecord' /\ InOrder'
    BY <1>1 DEF IInv, OnRecord, InOrder
  <2>7. Behind'
    <3>1. \A j \in Object \ OneTimer : j < at + 1 => Passed(j)
      BY <2>2, <2>4, Positions DEF IInv, Behind
    <3> QED  BY <1>1, <2>2, <3>1 DEF IInv, Behind, Passed
  <2>8. BehindIsComplete'
    <3> SUFFICES ASSUME NEW j \in Object \ OneTimer, j < at + 1
                 PROVE  IF j \in Hook
                        THEN Kind[j] \in marked \/ (at + 1 \in Object /\ Kind[at + 1] = Kind[j])
                        ELSE obj[j] # "none" \/ queued
      BY <1>1, <2>2 DEF BehindIsComplete
    <3>1. CASE j = at
      BY <1>1, <2>2, <3>1
    <3>2. CASE j < at
      BY <1>1, <2>2, <3>2, Positions DEF IInv, BehindIsComplete
    <3> QED  BY <2>2, <3>1, <3>2, Positions
  <2>9. AtHand'
    <3>1. pc' \in Busy /\ at + 1 \in Hook => Kind[at + 1] \notin marked
      BY <1>1, <2>3, Positions DEF Busy
    <3>2. pc' = "hook" => at + 1 \in Hook
      BY <2>2, <2>3, Positions
    <3> QED  BY <1>1, <2>2, <2>3, <3>1, <3>2 DEF AtHand
  <2>10. SuccessIsComplete'
    BY <2>3 DEF SuccessIsComplete, Quiescent
  <2> QED  BY <2>1, <2>5, <2>6, <2>7, <2>8, <2>9, <2>10 DEF IInv
<1> QED  BY <1>2, <1>3, <1>4, Zenon DEF AfterCRUD

\* An event is marked when all its hooks have been available.
LEMMA MarkHookKeeps == IInv /\ MarkHook => IInv'
<1> SUFFICES ASSUME IInv, MarkHook PROVE IInv'
  OBVIOUS
<1>1. /\ pc = "mark" /\ at \in Object /\ LastHook /\ at \in was /\ at \in Hook
      /\ UNCHANGED <<made, was, current, recorded, setup, failures, deletes, others, restarts>>
  BY DEF MarkHook, config, IInv, Others, AtHand, LastHook
<1>2. /\ obj' \in [Object -> {"none", "waiting", "ready", "failed"}]
      /\ \A i \in Object : obj'[i] = obj[i] \/ (i \in Hook /\ obj'[i] = "none")
  <2> DEFINE S == {i \in Cleared : Kind[i] = Kind[at]}
  <2>1. obj' \in Clears(S) /\ S \in SUBSET Hook
    BY Positions DEF MarkHook
  <2> HIDE DEF S
  <2> QED  BY <2>1, ClearsHooks
<1>3. CASE Fault /\ Fail /\ UNCHANGED marked
  <2>1. Bools'
    BY <1>1, <1>3, Zenon DEF Fail, Done, IInv, Bools
  <2>2. faults' \in 0..MaxFaults
    BY <1>3, FaultBound
  <2> QED  BY <1>1, <1>2, <1>3, <2>1, <2>2, FailKeeps DEF IInv, Others
<1>4. CASE /\ marked' = marked \cup {Kind[at]}
           /\ at' = at + 1 /\ pc' = "enter"
           /\ UNCHANGED <<installed, queued, faults>>
  <2>1. Bools'
    BY <1>1, <1>4, Zenon DEF IInv, Bools
  <2>2. /\ at' = at + 1 /\ at \in 1..Len(Kind) /\ Len(Kind) \in Nat /\ queued' = queued
        /\ pc' = "enter" /\ faults' = faults
    BY <1>1, <1>4, Positions
  <2>3. marked' = marked \cup {Kind[at]} /\ Kind[at] \in {"pre", "post"}
    BY <1>1, <1>4 DEF Hook
  <2>4. \A j \in Object : Kind[j] = Kind[at] => j <= at
    <3> SUFFICES ASSUME NEW j \in Object, at < j PROVE Kind[j] # Kind[at]
      BY <2>2, Positions
    <3>1. at + 1 \in Object
      BY <2>2, Positions
    <3> QED  BY <1>1, <3>1, Neighbours DEF LastHook
  <2>5. Others'
    <3>1. marked' \subseteq {"pre", "post"}
      BY <2>3 DEF IInv, Others
    <3>2. at' \in 1..(Len(Kind) + 1)
      BY <2>2
    <3> QED  BY <1>1, <1>2, <2>2, <3>1, <3>2 DEF IInv, Others
  <2>6. OnRecord' /\ InOrder'
    BY <1>1, <1>2 DEF IInv, OnRecord, InOrder
  <2>7. Behind'
    <3>1. \A j \in Object \ OneTimer : j < at + 1 => Passed(j)
      <4>1. Passed(at)
        BY <1>1, Positions DEF Passed
      <4> QED  BY <2>2, <4>1, Positions DEF IInv, Behind
    <3>2. \A j \in Hook : Kind[j] \in marked' => Passed(j) \/ j \in OneTimer
      BY <2>2, <2>3, <2>4, <3>1, Positions DEF IInv, Behind
    <3> QED  BY <1>1, <2>2, <3>1, <3>2 DEF Behind, Passed
  <2>8. BehindIsComplete'
    <3> SUFFICES ASSUME NEW j \in Object \ OneTimer, j < at + 1
                 PROVE  IF j \in Hook THEN Kind[j] \in marked'
                        ELSE obj'[j] # "none" \/ queued
      BY <2>2 DEF BehindIsComplete
    <3>1. CASE j = at
      BY <1>1, <2>3, <3>1
    <3>2. CASE j < at
      BY <1>1, <1>2, <2>3, <3>2 DEF IInv, BehindIsComplete
    <3> QED  BY <2>2, <3>1, <3>2, Positions
  <2>9. AtHand' /\ SuccessIsComplete'
    BY <2>2 DEF AtHand, Busy, SuccessIsComplete, Quiescent
  <2> QED  BY <2>1, <2>5, <2>6, <2>7, <2>8, <2>9 DEF IInv
<1> QED  BY <1>3, <1>4, Zenon DEF MarkHook

\* The end of the chart: everything is behind Run.
LEMMA FinishKeeps == IInv /\ Finish => IInv'
<1> SUFFICES ASSUME IInv, Finish PROVE IInv'
  OBVIOUS
<1>1. /\ pc = "enter" /\ at \notin Object
      /\ UNCHANGED <<obj, made, was, marked, current, recorded, setup, failures, deletes, others,
                     faults, restarts>>
  BY DEF Finish, objects, config, bounds
<1>2. CASE Fail
  <2>1. Bools'
    BY <1>1, <1>2, Zenon DEF Fail, Done, IInv, Bools
  <2> QED  BY <1>1, <1>2, <2>1, FailKeeps DEF IInv, Others
<1>3. CASE Done /\ UNCHANGED queued
  <2>1. Bools'
    BY <1>1, <1>3, Zenon DEF Done, IInv, Bools
  <2>2. pc' = "idle" /\ at' = 1 /\ queued' = queued
    BY <1>3 DEF Done
  <2>3. \A j \in Object : j < at
    BY <1>1, Positions DEF IInv, Others
  <2>4. SuccessIsComplete'
    BY <1>1, <2>2, <2>3 DEF SuccessIsComplete, Quiescent, IInv, BehindIsComplete
  <2>5. Others' /\ OnRecord' /\ InOrder'
    BY <1>1, <2>2, Positions DEF IInv, Others, OnRecord, InOrder
  <2>6. Behind' /\ BehindIsComplete' /\ AtHand'
    BY <1>1, <2>2, Positions DEF IInv, Behind, Passed, BehindIsComplete, AtHand, Busy
  <2> QED  BY <2>1, <2>4, <2>5, <2>6 DEF IInv
<1> QED  BY <1>2, <1>3, Zenon DEF Finish

-----------------------------------------------------------------------------
\* Every step of Run, of the cluster and of other controllers keeps the invariant
\* (Run, ExecHook, crud, afterCRUD, dryRunHelmChart).
THEOREM Inductive == IInv /\ [Next]_vars => IInv'
<1> SUFFICES ASSUME IInv, [Next]_vars PROVE IInv'
  OBVIOUS
<1>1. CASE Run
  BY <1>1, DryRunKeeps, CreateReleaseKeeps, EnterKeeps, BeforeHookKeeps, CrudKeeps,
     AfterCRUDKeeps, MarkHookKeeps, FinishKeeps DEF Run
<1>2. CASE UNCHANGED vars
  <2>1. UNCHANGED <<obj, made, was, marked, current, recorded, setup, queued, pc, at, installed,
                    failures, deletes, others, faults, restarts>>
    BY <1>2 DEF vars, objects, config, pass, bounds
  <2>2. Bools'
    BY <2>1, Zenon DEF IInv, Bools
  <2>3. Others' /\ OnRecord' /\ InOrder'
    BY <2>1 DEF IInv, Others, OnRecord, InOrder
  <2>4. Behind' /\ BehindIsComplete'
    BY <2>1 DEF IInv, Behind, Passed, BehindIsComplete
  <2>5. AtHand' /\ SuccessIsComplete'
    BY <2>1 DEF IInv, AtHand, Busy, LastHook, SuccessIsComplete, Quiescent
  <2> QED  BY <2>2, <2>3, <2>4, <2>5 DEF IInv
<1> QED  BY <1>1, <1>2, ObjectsKeep, OthersKeep, RestartKeeps DEF Next

\* Run is always at an object of the chart, or past the last.
THEOREM TypeCorrect == Spec => []TypeOK
<1>1. IInv => TypeOK
  BY TypeParts DEF IInv
<1> QED  BY <1>1, Initially, Inductive, PTL DEF Spec

\* No object is created before everything Run reaches earlier was created, and
\* available if it is waited for (Run, ExecHook): on any chart.
THEOREM CreatedInOrder == Spec => []InOrder
<1>1. IInv => InOrder
  BY DEF IInv
<1> QED  BY <1>1, Initially, Inductive, PTL DEF Spec

\* After a run without an error the manifest is there and the hooks are done, with
\* any interference in the shared actionConfig (Run, ReleaseInstalled, failRelease).
THEOREM SuccessMeansComplete == Spec => []SuccessIsComplete
<1>1. IInv => SuccessIsComplete
  BY DEF IInv
<1> QED  BY <1>1, Initially, Inductive, PTL DEF Spec

\* The hooks of a marked event are never created again (ExecHook).
THEOREM HooksRunOnce == Spec => HooksOnce
<1> DEFINE Once == \A i \in Hook : Kind[i] \in marked /\ obj[i] = "none" => obj'[i] = "none"
<1>1. IInv /\ [Next]_vars => [Once]_vars
  <2> SUFFICES ASSUME IInv, Next, NEW i \in Hook, Kind[i] \in marked, obj[i] = "none"
               PROVE  obj'[i] = "none"
    OBVIOUS
  <2>1. i \in Object /\ obj \in [Object -> {"none", "waiting", "ready", "failed"}]
    BY Positions DEF IInv, Others
  <2>2. CASE obj' = obj
    BY <2>2
  <2>3. CASE Crud
    <3>1. i # at
      BY <2>3 DEF Crud, IInv, AtHand, Busy
    <3>2. obj' = obj \/ obj' = [obj EXCEPT ![at] = "waiting"]
      BY <2>3 DEF Crud, objects
    <3> QED  BY <2>1, <3>1, <3>2
  <2>4. CASE BeforeHook \/ MarkHook
    <3>1. PICK S : obj' \in Clears(S)
      BY <2>4 DEF BeforeHook, MarkHook
    <3> QED  BY <2>1, <3>1 DEF Clears
  <2>5. ASSUME NEW j \in Object, BecomeReady(j) \/ HookFails(j) \/ DeleteOwnedObject(j)
        PROVE  obj'[i] = "none"
    BY <2>1, <2>5 DEF BecomeReady, HookFails, DeleteOwnedObject
  <2> QED  BY <2>2, <2>3, <2>4, <2>5 DEF Next, Run, DryRun, CreateRelease, Enter, AfterCRUD,
              Finish, OtherNewConfig, OtherRender, Restart, objects
<1> QED  BY <1>1, Initially, Inductive, PTL DEF Spec, HooksOnce

=============================================================================
