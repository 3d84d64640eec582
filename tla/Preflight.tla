------------------------------ MODULE Preflight ------------------------------
(***************************************************************************)
(* The PreflightValidation controller: one PreflightValidation, whose      *)
(* status lists a verdict for every SpecialResource of the cluster on the  *)
(* image of an upgrade (controllers/preflightvalidation_controller.go).    *)
(*                                                                         *)
(* The worker reads the PreflightValidation from the informer's cache.  It *)
(* writes verdicts with merge patches, which replace the whole list and    *)
(* carry no resourceVersion, and every write makes the informer queue the  *)
(* object again: this controller has no event filter.                      *)
(*                                                                         *)
(* The SpecialResources are those of the informer's cache.  Each has a     *)
(* chart, a function from kernels to the objects it renders; the check of  *)
(* it is that of PreflightCheck on the images that are published.          *)
(* Releases are images too; the kernel of one is that of its toolkit,      *)
(* which is kept in a cache the SpecialResource controller shares.         *)
(***************************************************************************)
EXTENDS PreflightCheck

CONSTANTS
    SR, Image,
    Toolkit,      \* references of toolkit images
    Current,      \* those the cluster had as its newest one
    Drivers,      \* references of images that are published and withdrawn
    Charts,       \* the charts of the SpecialResources, [SR -> [kernel -> Seq(object)]]
    MaxLag,       \* versions the cache may be behind
    MaxMishaps    \* changes by users, calls that fail and restarts, in all

ASSUME PreflightAssumption ==
    /\ None \notin SR /\ None # "True"
    /\ Image # {} /\ Image \cup Toolkit \cup Drivers \subseteq DOMAIN Contents
    /\ Current \subseteq Toolkit
    /\ MaxLag \in Nat \ {0}
    /\ MaxMishaps \in Nat

VARIABLES
    pv,        \* the stored PreflightValidation: image and verdicts, or None
    cache,     \* the informer's copy
    pending,   \* versions the informer has not seen yet, oldest first
    queued,    \* it is in the work queue or will be when the requeue delay is over
    srs,       \* SpecialResources: None, "live" or "deleting"
    chart,     \* their charts
    published, \* driver images that can be read
    dtks,      \* the cache of clusterInfo: toolkit entries by reference, or None
    fit,       \* SpecialResources and images found ready for each other at a check
    pc,
    mem,       \* the verdicts of the in-memory PreflightValidation
    image,     \* the image the pass prepared its runtime information for
    kernel,    \* its kernel
    old,       \* srStatuses: the verdicts when the pass began
    todo,      \* what is left of the current loop over the listed SpecialResources
    list,      \* the listed SpecialResources and whether they are being deleted
    mishaps

store  == <<pv, pending>>
pass   == <<pc, mem, image, kernel, old, todo, list>>
env    == <<srs, chart, published>>
vars   == <<store, cache, queued, env, dtks, fit, pass, mishaps>>

-----------------------------------------------------------------------------
Verdict  == {"True", "False", "Error", "Unknown"}
Statuses == [SR -> Verdict \cup {None}]
Obj      == [image : Image, statuses : Statuses]

NoStatuses == [s \in SR |-> None]
NoList     == [s \in SR |-> None]

\* The PreflightValidation has just been created.
Init ==
    /\ \E i \in Image : pv = [image |-> i, statuses |-> NoStatuses]
    /\ cache = None /\ pending = <<pv>> /\ queued = FALSE
    /\ srs \in [SR -> {None, "live"}]
    /\ chart \in Charts /\ published \in {{}, Drivers}
    /\ dtks = [u \in Toolkit |-> None] /\ fit = {}
    /\ pc = "idle" /\ mem = NoStatuses /\ image = None /\ kernel = None /\ old = NoStatuses
    /\ todo = {} /\ list = NoList
    /\ mishaps = 0

-----------------------------------------------------------------------------
(* Users, the API server, the informer *)

Store(o) ==
    /\ Len(pending) < MaxLag
    /\ pv' = o
    /\ pending' = Append(pending, o)

Mishap == mishaps < MaxMishaps /\ mishaps' = mishaps + 1

Edit == Mishap /\ UNCHANGED <<cache, queued, chart, dtks, fit, pass>>

CreatePreflightValidation ==
    /\ pv = None
    /\ \E i \in Image : Store([image |-> i, statuses |-> NoStatuses])
    /\ Edit
    /\ UNCHANGED <<srs, published>>

EditImage ==
    /\ pv # None
    /\ \E i \in Image \ {pv.image} : Store([pv EXCEPT !.image = i])
    /\ Edit
    /\ UNCHANGED <<srs, published>>

\* There is no finalizer on it.
DeletePreflightValidation ==
    /\ pv # None
    /\ Store(None)
    /\ Edit
    /\ UNCHANGED <<srs, published>>

SpecialResourceChanges(s) ==
    /\ srs' = [srs EXCEPT ![s] = CASE @ = None -> "live" [] @ = "live" -> "deleting" [] @ = "deleting" -> None]
    /\ Edit
    /\ UNCHANGED <<store, published>>

\* A driver image is pushed to its registry, or withdrawn.
Publish(r) ==
    /\ published' = IF r \in published THEN published \ {r} ELSE published \cup {r}
    /\ Edit
    /\ UNCHANGED <<store, srs>>

\* Every notification is queued.
SyncCache ==
    /\ pending # <<>>
    /\ cache' = Head(pending)
    /\ pending' = Tail(pending)
    /\ queued' = TRUE
    /\ UNCHANGED <<pv, env, dtks, fit, pass, mishaps>>

Done ==
    /\ pc' = "idle" /\ mem' = NoStatuses /\ image' = None /\ kernel' = None /\ old' = NoStatuses
    /\ todo' = {} /\ list' = NoList

\* The process starts again.
Started ==
    /\ cache' = pv /\ pending' = <<>> /\ queued' = (pv # None)
    /\ dtks' = [u \in Toolkit |-> None]
    /\ Done
    /\ UNCHANGED <<pv, env, fit>>

Restart ==
    /\ Mishap
    /\ Started

-----------------------------------------------------------------------------
(* The worker *)

\* An error, or RequeueAfter.
Requeue == Done /\ queued' = TRUE

Listed == {s \in SR : list[s] # None}

Registries == (DOMAIN Contents \ Drivers) \cup published

\* GetDTKData keeps the entry it found.
Keep(url, found) == [u \in Toolkit |-> IF u = url /\ found \notin {None, Panic} THEN found ELSE dtks[u]]

\* Mutant: updateInfo completes the cached entry itself.
GetClusterInfoInPlace(url) ==
    /\ dtks[url] = None
    /\ \E dtk \in GetDTKData(Registries, dtks, url) : dtks' = Keep(url, Complete(dtk))
    /\ UNCHANGED <<store, cache, queued, env, fit, pass, mishaps>>

\* A pass of the SpecialResource controller asks for the toolkit of the cluster.
GetClusterInfoOf(url) ==
    /\ dtks[url] = None
    /\ \E dtk \in GetDTKData(Registries, dtks, url) : dtks' = Keep(url, dtk)
    /\ UNCHANGED <<store, cache, queued, env, fit, pass, mishaps>>

\* PrepareRuntimeInfo reaches the toolkit of a release that is read.
ToolkitOf(i) == UNION {ReleaseManifests(layer) : layer \in LastLayer(Registries, i) \ {Panic}}

\* Reconcile up to the List.  The release may not be readable, or be one that ends
\* the process.
Reconcile ==
    /\ pc = "idle" /\ queued
    /\ \/ /\ cache = None
          /\ queued' = FALSE
          /\ UNCHANGED <<store, cache, env, dtks, fit, pass, mishaps>>
       \/ /\ cache # None
          /\ \E k \in PrepareRuntimeInfo(Registries, dtks, cache.image) \ {Panic}, url \in ToolkitOf(cache.image) :
               \E dtk \in GetDTKData(Registries, dtks, url) :
                  /\ dtks' = Keep(url, dtk)
                  /\ \/ /\ queued' = FALSE
                        /\ pc' = "preset"
                        /\ mem' = cache.statuses /\ old' = cache.statuses /\ image' = cache.image /\ kernel' = k
                        /\ list' = srs
                        /\ todo' = {s \in SR : srs[s] # None}
                        /\ UNCHANGED mishaps
                     \/ Mishap /\ Requeue
          /\ UNCHANGED <<store, cache, env, fit>>
       \/ /\ cache # None
          /\ (PrepareRuntimeInfo(Registries, dtks, cache.image) = {} /\ UNCHANGED mishaps) \/ Mishap
          /\ Requeue
          /\ UNCHANGED <<store, cache, env, dtks, fit>>
       \/ /\ cache # None
          /\ Panic \in PrepareRuntimeInfo(Registries, dtks, cache.image)
          /\ Started
          /\ UNCHANGED mishaps

\* SetVerificationStatus: a merge patch with the whole in-memory list.  The
\* answer, which has that list, is decoded over the in-memory object.
Patch(s, v) ==
    /\ pv # None
    /\ Store([pv EXCEPT !.statuses = [mem EXCEPT ![s] = v]])
    /\ mem' = [mem EXCEPT ![s] = v]

\* presetStatusesForCRs: a failed patch ends the pass.
PresetStatus ==
    /\ pc = "preset"
    /\ \E s \in todo :
         \/ /\ mem[s] # None
            /\ todo' = todo \ {s}
            /\ UNCHANGED <<store, queued, pc, mem, image, kernel, old, list, mishaps>>
         \/ /\ mem[s] = None
            /\ Patch(s, "Unknown")
            /\ todo' = todo \ {s}
            /\ UNCHANGED <<queued, pc, image, kernel, old, list, mishaps>>
         \/ /\ mem[s] = None
            /\ (pv = None /\ UNCHANGED mishaps) \/ Mishap
            /\ Requeue
            /\ UNCHANGED store
    /\ UNCHANGED <<cache, env, dtks, fit>>

PresetDone ==
    /\ pc = "preset" /\ todo = {}
    /\ pc' = "check" /\ todo' = Listed
    /\ UNCHANGED <<store, cache, queued, env, dtks, fit, mem, image, kernel, old, list, mishaps>>

\* Mutant: what had been verified is checked again.
SkippedDeleting(s) == list[s] = "deleting"

\* A SpecialResource that is being deleted, or had been verified, is passed over.
Skipped(s) == list[s] = "deleting" \/ old[s] = "True"

\* Mutant: the reason is returned as the verdict.
PreflightUpgradeCheckReason(s) == {[verdict |-> "Verified", mishaps |-> 0]}

\* The chart may not be loaded or rendered.
PreflightUpgradeCheck(s) ==
    {[verdict |-> v, mishaps |-> 0] : v \in handleYAMLsCheck(Registries, chart[s][kernel], kernel)}
    \cup {[verdict |-> "Error", mishaps |-> 1]}

\* updatePreflightStatus: a lost patch is logged; the in-memory verdict stays.
UpdatePreflightStatus ==
    /\ pc = "check"
    /\ \E s \in todo :
         /\ todo' = todo \ {s}
         /\ \/ Skipped(s) /\ UNCHANGED <<store, mem, fit, mishaps>>
            \/ /\ ~Skipped(s)
               /\ fit' = IF ReadyFor(Registries, chart[s][kernel], kernel) THEN fit \cup {<<s, image>>} ELSE fit
               /\ \E check \in PreflightUpgradeCheck(s), lost \in {0, 1} :
                    /\ mishaps' = mishaps + check.mishaps + lost /\ mishaps' <= MaxMishaps
                    /\ IF pv = None \/ lost = 1
                       THEN mem' = [mem EXCEPT ![s] = check.verdict] /\ UNCHANGED store
                       ELSE Patch(s, check.verdict)
    /\ UNCHANGED <<cache, queued, env, dtks, pc, image, kernel, old, list>>

AllTrue(st) == \A s \in SR : st[s] \in {None, "True"}

\* Mutant: every pass is the last one.
CheckAlwaysComplete ==
    /\ pc = "check" /\ todo = {}
    /\ Done
    /\ UNCHANGED <<store, cache, queued, env, dtks, fit, mishaps>>

\* checkPreflightCompletion reads the object from the cache again.
CheckPreflightCompletion ==
    /\ pc = "check" /\ todo = {}
    /\ IF cache # None /\ AllTrue(cache.statuses) THEN Done /\ UNCHANGED queued ELSE Requeue
    /\ UNCHANGED <<store, cache, env, dtks, fit, mishaps>>

Worker == PresetStatus \/ PresetDone \/ UpdatePreflightStatus \/ CheckPreflightCompletion

Users ==
    \/ CreatePreflightValidation \/ EditImage \/ DeletePreflightValidation
    \/ \E s \in SR : SpecialResourceChanges(s)
    \/ \E r \in Drivers : Publish(r)

Next == Users \/ (\E u \in Current : GetClusterInfoOf(u)) \/ SyncCache \/ Reconcile \/ Worker \/ Restart

Spec == Init /\ [][Next]_vars

\* The worker and the informer proceed; a name in the queue is taken.
Fairness == WF_vars(Worker) /\ WF_vars(Reconcile) /\ WF_vars(SyncCache)

FairSpec == Spec /\ Fairness

-----------------------------------------------------------------------------
(* Properties *)

\* The type invariant: every verdict is one of the four the status type allows.
TypeOK ==
    /\ pv \in Obj \cup {None} /\ cache \in Obj \cup {None}
    /\ pending \in Seq(Obj \cup {None}) /\ Len(pending) <= MaxLag
    /\ queued \in BOOLEAN
    /\ srs \in [SR -> {None, "live", "deleting"}] /\ list \in [SR -> {None, "live", "deleting"}]
    /\ chart \in Charts /\ published \subseteq Drivers /\ fit \subseteq SR \X Image
    /\ DOMAIN dtks = Toolkit
    /\ pc \in {"idle", "preset", "check"}
    /\ mem \in Statuses /\ old \in Statuses /\ image \in Image \cup {None}
    /\ todo \subseteq SR
    /\ mishaps \in 0..MaxMishaps

Quiescent == pc = "idle" /\ ~queued /\ pending = <<>>

\* The controller does not stop early: at rest every listed SpecialResource has
\* been verified, although checkPreflightCompletion may read a list that is older
\* than the verdicts of its own pass.
RestMeansVerified == Quiescent /\ pv # None => AllTrue(pv.statuses)

\* A patch of a pass with an old list never makes up a verdict: "True" stands
\* only where a driver was ready for an image when it was checked (the list is
\* replaced as a whole, without a resourceVersion).
TrueIsEarned ==
    pv # None => \A s \in SR : pv.statuses[s] = "True" => \E i \in Image : <<s, i>> \in fit

\* The toolkit entries the two controllers share are those of the images, so that
\* the kernel a pass compares with has the form it has in driver images, although
\* updateInfo completes its copy of an entry.
ToolkitsAsPublished ==
    \A u \in Toolkit : dtks[u] # None => dtks[u] \in GetDTKData(DOMAIN Contents, <<>>, u)

\* The check of s succeeds, for the image i.
Succeeds(s, i) ==
    \E k \in PrepareRuntimeInfo(Registries, dtks, i) \ {Panic} :
        handleYAMLsCheck(Registries, chart[s][k], k) = {"True"}

\* If in the end every SpecialResource with a verdict exists and would be
\* verified, and the release can be read, the controller comes to rest: its own
\* patches, each of which queues the object again, do not keep it busy
\* (runPreflightValidation).
Completes ==
    <>[](pv # None =>
            /\ PrepareRuntimeInfo(Registries, dtks, pv.image) \notin {{}, {Panic}}
            /\ \A s \in SR : /\ srs[s] # None => srs[s] = "live" /\ Succeeds(s, pv.image)
                             /\ pv.statuses[s] # None => srs[s] = "live")
    => <>[]Quiescent

=============================================================================
