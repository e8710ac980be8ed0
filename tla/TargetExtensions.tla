-------------------------- MODULE TargetExtensions --------------------------
(***************************************************************************)
(* The registry that llvm-drti.patch adds to LLVM's TargetPassConfig: a    *)
(* library that is loaded into the compiler registers callbacks, each at   *)
(* an extension point of the machine pass pipeline, and takes them back    *)
(* when it is unloaded.  A RegisterTargetExtension object owns a callback  *)
(* through its number; the list of callbacks is a ManagedStatic, which     *)
(* llvm_shutdown destroys and the next use makes anew.  Numbers grow, so   *)
(* the order of the list is that of the numbers.                           *)
(***************************************************************************)
EXTENDS Naturals, Selection

CONSTANTS
    Registrars,     \* the objects of class RegisterTargetExtension
    Callbacks,      \* what may be registered: an extension point and a pass
    MaxId,          \* bound: callbacks registered in a process
    NoObject        \* what a registrar is before construction and after destruction

ASSUME RegistryAssumption ==
    /\ NoObject \notin Nat
    /\ MaxId \in Nat

VARIABLES
    counter,        \* the number given last
    constructed,    \* the ManagedStatic exists
    extensions,     \* the callbacks in the list and their numbers
    held            \* the number that each registrar owns

registryVars == <<counter, constructed, extensions, held>>

RegistryInit ==
    /\ counter = 0
    /\ constructed = FALSE
    /\ extensions = {}
    /\ held = [r \in Registrars |-> NoObject]

AddExtension(c) ==
    /\ counter < MaxId
    /\ counter' = counter + 1
    /\ constructed' = TRUE
    /\ extensions' = extensions \cup {[callback |-> c, id |-> counter + 1]}

Register(r, c) ==
    /\ held[r] = NoObject
    /\ AddExtension(c)
    /\ held' = [held EXCEPT ![r] = counter']

(* mutant: the source of a move keeps its number                           *)
MovedKeeping(r, q) == [held EXCEPT ![q] = held[r]]

Moved(r, q) == [held EXCEPT ![q] = held[r], ![r] = 0]

(* Registrar q is constructed from r, which owns nothing any more.         *)
Move(r, q) ==
    /\ held[r] # NoObject
    /\ held[q] = NoObject
    /\ held' = Moved(r, q)
    /\ UNCHANGED <<counter, constructed, extensions>>

(* mutant: the last callback of the list is erased                         *)
RemoveLast(id) ==
    extensions' = IF constructed THEN {e \in extensions : \E f \in extensions : f.id > e.id}
                  ELSE extensions

RemoveExtension(id) ==
    extensions' = IF constructed THEN {e \in extensions : e.id # id} ELSE extensions

Destroy(r) ==
    /\ held[r] # NoObject
    /\ held' = [held EXCEPT ![r] = NoObject]
    /\ IF held[r] = 0 THEN UNCHANGED extensions ELSE RemoveExtension(held[r])
    /\ UNCHANGED <<counter, constructed>>

Shutdown ==
    /\ constructed
    /\ constructed' = FALSE
    /\ extensions' = {}
    /\ UNCHANGED <<counter, held>>

RegistryNext ==
    \/ \E r \in Registrars, c \in Callbacks : Register(r, c)
    \/ \E r, q \in Registrars : Move(r, q)
    \/ \E r \in Registrars : Destroy(r)
    \/ Shutdown

RegistrySpec == RegistryInit /\ [][RegistryNext]_registryVars

(* applyAnyExtensions: the passes that the callbacks at a point add.       *)
PassesAt(point) ==
    LET there == {e \in extensions : e.callback.point = point}
        order == Selected([n \in 1 .. counter |-> n], {e.id : e \in there})
    IN [i \in DOMAIN order |-> (CHOOSE e \in there : e.id = order[i]).callback.pass]

-----------------------------------------------------------------------------
(* A callback in the list belongs to exactly one object, however objects   *)
(* were moved, and even if the list was destroyed in between: so it is     *)
(* there as long as its library is, and a library that is unloaded takes   *)
(* away its own callback and no other.                                     *)
OneOwner ==
    \A e \in extensions : \E r \in Registrars :
        /\ held[r] = e.id
        /\ \A q \in Registrars \ {r} : held[q] # e.id

(* The objects own what is in the list, except what llvm_shutdown took;    *)
(* without it nothing goes but by the destruction of its owner.            *)
RemovedByOwner ==
    [][\A e \in extensions : e \notin extensions' =>
            \/ constructed /\ ~constructed'
            \/ \E r \in Registrars : held[r] = e.id /\ held'[r] = NoObject]_registryVars
=============================================================================
