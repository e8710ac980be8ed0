----------------------------- MODULE Recompile -----------------------------
(***************************************************************************)
(* A compilation (drti/runtime.cpp), from a chain of decorated functions   *)
(* to the address of new machine code.  It reads the bitcode of two units  *)
(* that the decoration pass has saved, gives every shared symbol the       *)
(* address that was saved with it, links what the caller's module needs of *)
(* the leaf's into it, finds the call by its number and rewrites it, and   *)
(* has the result compiled and its symbols resolved.                       *)
(*                                                                         *)
(* The two halves of DRTI meet here: DecorateModule counted calls and      *)
(* listed globals in one process, this module counts and lists again in    *)
(* another, and nothing but the order tells them what belongs together.    *)
(***************************************************************************)
EXTENDS DecorateModule

CONSTANTS
    Exported,       \* the names that a search of the process's own symbols finds
    None            \* no chain, no rewritten call, no short cut

ASSUME RecompileAssumption == Exported \subseteq Names

VARIABLES
    step,           \* what the compilation is doing
    chain,          \* the callsite and the function of the chain, or None
    map,            \* the symbol map of ReflectedGlobals
    rewritten,      \* the call that was given a short cut, or None
    kept,           \* an earlier compilation has kept the lock
    resolved        \* the short cut in the code of each function, or None

runtimeVars == <<step, chain, map, rewritten, kept, resolved>>

vars == <<decorateVars, runtimeVars>>

Steps == {"idle", "read", "map", "link", "reprocess", "resolve"}

Chain == [unit : Units, site : Callsite, leafUnit : Units, leaf : Names]

(* Functions by their addresses: each is what one unit means by a name.    *)
Code == Names \X (Units \cup {Extern})

Rewritten == [call : CallIds, args : Seq(Types), leaf : Code]

ASSUME NoneAssumption == None \notin Chain \cup Rewritten \cup [call : CallIds, leaf : Code]

CallerModule == self[chain.unit].bitcode

LeafModule == self[chain.leafUnit].bitcode

FunctionAddress(u, n) == LinkAddress(u, FunctionNamed(self[u].bitcode, n))

CallerBody == FunctionNamed(CallerModule, chain.site.fn).body

-----------------------------------------------------------------------------
(* Reflected globals.                                                      *)

NamesOf(s) == [i \in DOMAIN s |-> s[i].name]

(* mutant: intrinsic functions are counted, which have no address          *)
RequestedAll(m, available) ==
    NamesOf(ListedVariables(m))
        \o NamesOf(Selected(m.funcs, {f \in Function : ~f.defined /\ ~Defines(available, f.name)}))

(* The names globalsMap asks addresses for, in its order.  A function that *)
(* the other module defines is passed over, and its position with it.      *)
Requested(m, available) ==
    NamesOf(ListedVariables(m))
        \o NamesOf(Selected(ListedFunctions(m), {f \in Function : ~Defines(available, f.name)}))

LeafRequests == Requested(LeafModule, CallerModule)

CallerRequests == Requested(CallerModule, LeafModule)

EnoughAddresses ==
    /\ Len(LeafRequests) <= Len(self[chain.leafUnit].globals)
    /\ Len(CallerRequests) <= Len(self[chain.unit].globals)

Assigned(requests, globals, n) ==
    globals[CHOOSE i \in DOMAIN requests : requests[i] = n]

(* The leaf's symbols are entered first, the caller's over them.           *)
SymbolMap ==
    [n \in ToSet(CallerRequests) \cup ToSet(LeafRequests) |->
        IF n \in ToSet(CallerRequests) THEN Assigned(CallerRequests, self[chain.unit].globals, n)
        ELSE Assigned(LeafRequests, self[chain.leafUnit].globals, n)]

-----------------------------------------------------------------------------
(* Linking.  Only what the caller's module lacks is taken from the leaf's, *)
(* with everything that needs in turn.  The linker goes by names, and the  *)
(* local symbols of one module are nothing to the other; but by now the    *)
(* caller and the leaf are not local any more, and no listed variable is.  *)

VariablesNamed(m, n) == {v \in ToSet(m.vars) : v.name = n}

DefinedNames(m) == {g.name : g \in {h \in Globals(m) : h.defined}}

(* mutant: all functions of both modules are made external                 *)
ProvidedAll(m, fn) == DefinedNames(m)

(* compile has made fn external, the one function that it needs of m.      *)
Provided(m, fn) ==
    {g.name : g \in {h \in Globals(m) : h.defined /\ (h.local => h.name = fn)}}

(* globalsMap has made the listed variables available_externally.          *)
Offered(m, fn) ==
    Provided(m, fn) \cup {v.name : v \in {h \in ToSet(ListedVariables(m)) : h.defined}}

Wanted(m) == {g.name : g \in {h \in Globals(m) : ~h.defined}}

RefsOf(m, n) == UNION {Refs(f) : f \in FunctionsNamed(m, n)}

(* What of the leaf's module has no definition in the caller's.            *)
Missing ==
    DefinedNames(LeafModule) \
        (Offered(LeafModule, chain.leaf) \cap Provided(CallerModule, chain.site.fn))

Needed ==
    LET seeds == Wanted(CallerModule) \cap Offered(LeafModule, chain.leaf)
        closed == {S \in SUBSET Missing :
                    /\ seeds \subseteq S
                    /\ \A n \in S : RefsOf(LeafModule, n) \cap Missing \subseteq S}
    IN {n \in Missing : \A S \in closed : n \in S}

(* callsite_function finds the leaf by its name in the linked module.  If  *)
(* the leaf was not linked, a function of the caller's unit may have it.   *)
LeafLinked == chain.leaf \in Needed \/ Defines(CallerModule, chain.leaf)

LeafFoundIn == IF chain.leaf \in Needed THEN chain.leafUnit ELSE chain.unit

LeafFunction == FunctionNamed(self[LeafFoundIn].bitcode, chain.leaf)

-----------------------------------------------------------------------------
(* Reprocessing.                                                           *)

(* mutant: the runtime counts calls from one                               *)
FoundNextCall ==
    {i \in DOMAIN CallerBody : i = chain.site.number + 2}

(* The call with the callsite's number, of all calls.                      *)
FoundCall == {i \in DOMAIN CallerBody : i - 1 = chain.site.number}

PointerCall(call) == call.kind # "direct"

(* What becomes of an argument: it is compared with the leaf's first       *)
(* parameter, whichever argument it is.                                    *)
Coerced(type) ==
    LET first == LeafFunction.type.params[1]
        converters == CallerModule.converters \cup LeafModule.converters
    IN {first} \cap ({type} \cup {p \in Types : <<type, p>> \in converters})

Accepted(call) ==
    /\ LeafLinked
    /\ Len(call.type.params) = Len(LeafFunction.type.params)
    /\ \A i \in DOMAIN call.type.params : Coerced(call.type.params[i]) # {}
    /\ call.type.ret = LeafFunction.type.ret

ShortCut(call) ==
    [call |-> call.id,
     args |-> [i \in DOMAIN call.type.params |->
                CHOOSE t \in Coerced(call.type.params[i]) : TRUE],
     leaf |-> FunctionAddress(LeafFoundIn, chain.leaf)]

-----------------------------------------------------------------------------
(* Symbol resolution in the compiled module.                               *)

(* What the new code refers to, and from which unit.                       *)
References ==
    {<<chain.unit, n>> : n \in UNION {RefsOf(CallerModule, k) : k \in DefinedNames(CallerModule)}}
        \cup {<<chain.leafUnit, n>> : n \in UNION {RefsOf(LeafModule, k) : k \in Needed}}

(* What the code from unit u finds defined in its own module, and what it  *)
(* is linked with of the other one.                                        *)
OtherUnit(u) == IF u = chain.unit THEN chain.leafUnit ELSE chain.unit

OwnNames(u) == IF u = chain.unit THEN DefinedNames(CallerModule) ELSE Needed

OtherNames(u) ==
    IF u = chain.unit THEN Needed \cap Provided(LeafModule, chain.leaf)
    ELSE Provided(CallerModule, chain.site.fn)

(* The unit whose definition of function n that code is linked with.       *)
Provider(u, n) ==
    {w \in {u, OtherUnit(u)} :
        /\ Defines(self[w].bitcode, n)
        /\ IF n \in OwnNames(u) THEN w = u ELSE w = OtherUnit(u) /\ n \in OtherNames(u)}

(* What has one address in the process, whoever refers to it.              *)
Shared(m) ==
    ToSet(ListedVariables(m)) \cup {f \in ToSet(m.funcs) : f.defined \/ ~f.intrinsic}

Means(u, n) == {LinkAddress(u, g) : g \in {h \in Shared(self[u].bitcode) : h.name = n}}

SharedReferences == {r \in References : Means(r[1], r[2]) # {}}

(* A definition that is not local is compiled again, a local variable is   *)
(* not: globalsMap has made it available_externally.                       *)
OwnCopy(n) ==
    \E v \in VariablesNamed(CallerModule, n)
                \cup (IF n \in Needed THEN VariablesNamed(LeafModule, n) ELSE {}) :
        v.defined /\ ~v.local /\ ~v.constant

(* The process's own symbols are asked first, then ReflectedGlobals.       *)
Resolve(n) ==
    CASE n \in Exported -> {<<n, Extern>>}
      [] n \in DOMAIN map \ Exported -> {map[n]}
      [] OTHER -> {}

(* The function or variable that a reference leads to, if it does.         *)
Reached(u, n) ==
    IF Provider(u, n) = {} THEN Resolve(n) ELSE {FunctionAddress(w, n) : w \in Provider(u, n)}

Resolvable == \A r \in SharedReferences : OwnCopy(r[2]) \/ Reached(r[1], r[2]) # {}

-----------------------------------------------------------------------------

RuntimeInit ==
    /\ step = "idle"
    /\ chain = None
    /\ map = <<>>
    /\ rewritten = None
    /\ kept = FALSE
    /\ resolved = [c \in Code |-> None]

Goto(s) == step' = s

EndCompilation(locked) ==
    /\ Goto("idle")
    /\ chain' = None
    /\ map' = <<>>
    /\ rewritten' = None
    /\ kept' = locked

CallOf(u, s) ==
    LET body == FunctionNamed(source[u], s.fn).body
    IN CHOOSE c \in ToSet(body) : c.id = s.call

(* The running program lands in function n of unit w, decorated there,     *)
(* through the call of callsite s: compile_treenode takes the lock.  A     *)
(* direct call leads to what its own unit means by n.                      *)
Discover(u, s, w, n) ==
    /\ step = "idle"
    /\ \A v \in Units : stage[v] = "done"
    /\ s \in callsites[u]
    /\ w \in DOMAIN self
    /\ n \in TargetDefinitions(w) \cap CallOf(u, s).aims
    /\ CallOf(u, s).kind = "direct" => FunctionAddress(u, n) = FunctionAddress(w, n)
    /\ chain' = [unit |-> u, site |-> s, leafUnit |-> w, leaf |-> n]
    /\ Goto("read")
    /\ UNCHANGED <<decorateVars, map, rewritten, kept, resolved>>

ReadModules ==
    /\ step = "read"
    /\ Goto("map")
    /\ UNCHANGED <<decorateVars, chain, map, rewritten, kept, resolved>>

(* The bitcode cannot be read or no LLJIT made, or globalsMap runs out of  *)
(* addresses.                                                              *)
ConstructFails ==
    /\ IF step = "map" THEN ~EnoughAddresses ELSE step = "read"
    /\ EndCompilation(kept)
    /\ UNCHANGED <<decorateVars, resolved>>

MapGlobals ==
    /\ step = "map"
    /\ EnoughAddresses
    /\ map' = SymbolMap
    /\ Goto("link")
    /\ UNCHANGED <<decorateVars, chain, rewritten, kept, resolved>>

LinkModules ==
    /\ step = "link"
    /\ Goto("reprocess")
    /\ UNCHANGED <<decorateVars, chain, map, rewritten, kept, resolved>>

(* The call is rewritten ...                                               *)
Rewrite(i) ==
    /\ step = "reprocess"
    /\ i \in FoundCall
    /\ PointerCall(CallerBody[i])
    /\ Accepted(CallerBody[i])
    /\ rewritten' = ShortCut(CallerBody[i])
    /\ Goto("resolve")
    /\ UNCHANGED <<decorateVars, chain, map, kept, resolved>>

(* ... or left alone when it is direct, or not found at all.               *)
LeaveCall ==
    /\ step = "reprocess"
    /\ \A i \in FoundCall : ~PointerCall(CallerBody[i])
    /\ Goto("resolve")
    /\ UNCHANGED <<decorateVars, chain, map, rewritten, kept, resolved>>

CompileFails ==
    /\ EndCompilation(TRUE)
    /\ UNCHANGED <<decorateVars, resolved>>

LinkFails == step = "link" /\ CompileFails

(* The leaf is not in the linked module, or does not take the arguments.   *)
ReprocessFails ==
    /\ step = "reprocess"
    /\ \E i \in FoundCall : PointerCall(CallerBody[i]) /\ ~Accepted(CallerBody[i])
    /\ CompileFails

(* addIRModule or the lookup fails.                                        *)
ResolveFails == step = "resolve" /\ CompileFails

(* The address of the new code replaces the parent's resolved_target.      *)
Retarget ==
    /\ step = "resolve"
    /\ Resolvable
    /\ resolved' = [resolved EXCEPT ![FunctionAddress(chain.unit, chain.site.fn)] =
            IF rewritten = None THEN None ELSE [call |-> rewritten.call, leaf |-> rewritten.leaf]]
    /\ EndCompilation(TRUE)
    /\ UNCHANGED decorateVars

Init == DecorateInit /\ RuntimeInit

Next ==
    \/ DecorateNext /\ UNCHANGED runtimeVars
    \/ \E u, w \in Units, n \in TargetNames : \E s \in callsites[u] : Discover(u, s, w, n)
    \/ ReadModules \/ ConstructFails \/ MapGlobals
    \/ LinkModules \/ LinkFails
    \/ step = "reprocess" /\ \E i \in FoundCall : Rewrite(i)
    \/ LeaveCall \/ ReprocessFails
    \/ ResolveFails \/ Retarget

Spec == Init /\ [][Next]_vars

-----------------------------------------------------------------------------
(* A compilation never asks for more addresses than were saved with the    *)
(* bitcode, although it counts in the module read back from it: the error  *)
(* that globalsMap checks for cannot occur.                                *)
EnoughStored == step = "map" => EnoughAddresses

(* The entry of the symbol map for n comes after a function that its       *)
(* module lists and the other module defines.                              *)
PassedOver(m, other, n) ==
    LET functions == ListedFunctions(m)
    IN \E i, j \in DOMAIN functions :
        i < j /\ Defines(other, functions[i].name) /\ functions[j].name = n

Misplaced(n) ==
    IF n \in ToSet(CallerRequests) THEN PassedOver(CallerModule, LeafModule, n)
    ELSE PassedOver(LeafModule, CallerModule, n)

(* The two units mean different things by n, or the process has another n. *)
Collides(n) ==
    \E a, b \in Means(chain.unit, n) \cup Means(chain.leafUnit, n)
                    \cup {<<k, Extern>> : k \in Exported \cap {n}} : a # b

(* A variable that is compiled again is not static in one of the units.    *)
Duplicated(n) ==
    /\ OwnCopy(n)
    /\ \E v \in VariablesNamed(CallerModule, n) \cup VariablesNamed(LeafModule, n) : ~v.local

SameAddress(r) == Reached(r[1], r[2]) = Means(r[1], r[2])

(* Recompiled code uses the very variables and functions that the code     *)
(* compiled ahead of time uses, and static data above all.  There are      *)
(* three exceptions: a name that stands for different things, a variable   *)
(* with external linkage, which it may have a copy of, and a function      *)
(* whose address was saved after that of one passed over.                  *)
AddressesExact ==
    step = "resolve" => \A r \in SharedReferences :
        \/ SameAddress(r) /\ ~OwnCopy(r[2])
        \/ Collides(r[2]) \/ Duplicated(r[2]) \/ Misplaced(r[2])

(* n is the caller or the leaf, static, and compile has made it external:  *)
(* the other unit, which means another function by n, is linked with it.   *)
Captured(n) ==
    /\ Means(chain.unit, n) # Means(chain.leafUnit, n)
    /\ \/ n = chain.leaf /\ <<n, chain.leafUnit>> \in Means(chain.leafUnit, n)
       \/ n = chain.site.fn /\ <<n, chain.unit>> \in Means(chain.unit, n)

(* Functions of one name in two units are kept apart: recompiled code      *)
(* calls the one that its own unit means, or its compilation fails.  There *)
(* are two exceptions: compile has made the other one external, and again  *)
(* an address saved after that of a function passed over.                  *)
StaticsApart ==
    step = "resolve" => \A r \in SharedReferences :
        \/ FunctionsNamed(self[r[1]].bitcode, r[2]) = {}
        \/ Reached(r[1], r[2]) \subseteq Means(r[1], r[2])
        \/ Captured(r[2]) \/ Misplaced(r[2])

(* README, "Symbol resolution": the array has the address of every global  *)
(* that the bitcode requires, and compilation resolves symbols with it.    *)
SameAddresses ==
    step = "resolve" => \A r \in SharedReferences :
        SameAddress(r) \/ OwnCopy(r[2]) \/ Collides(r[2])

(* runtime.hpp, call_number: iterating the function at run time gives the  *)
(* same sequence of calls as in the decoration pass.                       *)
SameCallNumbers ==
    step = "reprocess" => \E i \in FoundCall : CallerBody[i].id = chain.site.call

(* runtime.hpp, resolved_target: the original target, or a version of it   *)
(* compiled at run time.  The short cut of a call takes the place of a     *)
(* call of the function that its pointer is compared with.                 *)
ShortCutToTarget ==
    rewritten # None => rewritten.leaf = FunctionAddress(chain.leafUnit, chain.leaf)

-----------------------------------------------------------------------------
(* What the compilation is for the rest of the runtime.                    *)

AbstractPhase ==
    CASE step = "idle" -> "idle"
      [] step \in {"read", "map"} -> "construct"
      [] OTHER -> "compile"

(* The call of the chain, by what it is and not by its number.             *)
SitePosition == CHOOSE i \in DOMAIN CallerBody : CallerBody[i].id = chain.site.call

(* No inline assembly comes before it in its function.                     *)
Numbered == \A j \in 1 .. SitePosition - 1 : CallerBody[j].kind # "asm"

(* No other function of the leaf's name is defined in the caller's unit.   *)
Named ==
    \A f \in FunctionsNamed(CallerModule, chain.leaf) :
        f.defined => LinkAddress(chain.unit, f) = FunctionAddress(chain.leafUnit, chain.leaf)

AbstractChain ==
    IF chain = None THEN None
    ELSE [fn |-> FunctionAddress(chain.unit, chain.site.fn), call |-> chain.site.call,
          leaf |-> FunctionAddress(chain.leafUnit, chain.leaf),
          pointer |-> CallerBody[SitePosition].kind = "pointer",
          numbered |-> Numbered, named |-> Named]

Contract ==
    INSTANCE Compilation WITH phase <- AbstractPhase, chain <- AbstractChain, Functions <- Code

(* Bitcode read back, calls counted again, modules linked, a call rewritten *)
(* or left alone: in the end the function has the short cut that the chain *)
(* calls for, or the code it had, and the lock is as CallTree assumes.     *)
ImplementsCompilation == Contract!Spec
=============================================================================
