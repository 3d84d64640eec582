------------------------------- MODULE Filter -------------------------------
(***************************************************************************)
(* The event filter of a controller (pkg/filter/filter.go): the predicates *)
(* that decide whether a create, update or delete notification of the      *)
(* informers reaches the controller's work queue.                          *)
(*                                                                         *)
(* An object is abstracted to what the predicates look at:                 *)
(*   custom     it is the controller's own custom resource                 *)
(*   unmanaged  its spec.managementState is Unmanaged (custom only)        *)
(*   owned      it carries the owned label or an owner of the right kind   *)
(*   affine     it carries the kernel-affine annotation                    *)
(* An update notification adds whether metadata.generation and             *)
(* metadata.resourceVersion are the same in the old and the new object.    *)
(***************************************************************************)

Object == [custom : BOOLEAN, unmanaged : BOOLEAN, owned : BOOLEAN, affine : BOOLEAN]

isSpecialResource(o) == o.custom

isSpecialResourceUnmanaged(o) == o.custom /\ o.unmanaged

CreateFunc(o) ==
    IF isSpecialResource(o) THEN ~isSpecialResourceUnmanaged(o) ELSE o.owned

\* Mutant: a status write, which keeps the generation, counts as a change.
UpdateFuncAnyVersion(o, sameGeneration, sameResourceVersion) ==
    /\ ~sameResourceVersion
    /\ IF isSpecialResource(o) THEN ~isSpecialResourceUnmanaged(o) ELSE o.owned

UpdateFunc(o, sameGeneration, sameResourceVersion) ==
    IF o.owned /\ o.affine
    THEN /\ ~(sameGeneration /\ sameResourceVersion)
         /\ ~isSpecialResourceUnmanaged(o)
    ELSE /\ ~sameGeneration
         /\ ~sameResourceVersion
         /\ IF isSpecialResource(o) THEN ~isSpecialResourceUnmanaged(o) ELSE o.owned

DeleteFunc(o) == isSpecialResource(o) \/ o.owned

=============================================================================
