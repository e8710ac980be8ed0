--------------------------- MODULE DecorateModule ---------------------------
(***************************************************************************)
(* The decoration pass (passes/drti-decorate.cpp), run on each translation *)
(* unit of a program: it looks for target functions, links the inline      *)
(* support into the module, saves the module's bitcode with the addresses  *)
(* of the globals it needs, and only then decorates the functions.  It may *)
(* stop after each step and tells the pass manager whether it has changed  *)
(* the module.                                                             *)
(***************************************************************************)
EXTENDS Bitcode, SequencesExt

CONSTANTS
    Programs,       \* the programs that may be compiled, a module for each unit
    TargetNames,    \* the functions to decorate, from the environment
    Helpers,        \* the module of drti-inline.bc
    HelperType      \* a function type of its own

ASSUME DecorateAssumption ==
    /\ Programs \subseteq [Units -> Module]
    /\ Helpers \in Module
    /\ TargetNames # {}
    /\ TargetNames \subseteq Names

(* The inline support has no function that is to be decorated.             *)
ASSUME HelperNamesAssumption ==
    \A n \in TargetNames : FunctionsNamed(Helpers, n) = {}

(* The module with the inline support in it, which is linked in unchanged  *)
(* as the program has no symbol with the name of one of its own.           *)
WithHelpers(m) ==
    [m EXCEPT !.vars = @ \o Helpers.vars, !.funcs = @ \o Helpers.funcs]

ASSUME NamesAssumption ==
    \A p \in Programs : \A u \in Units : DistinctNames(WithHelpers(p[u]))

(* What is only declared is not local, and a name that is a variable's in  *)
(* one unit is no function's in another.                                   *)
ASSUME LinkageAssumption ==
    \A p \in Programs : \A u \in Units :
        LET m == WithHelpers(p[u])
        IN /\ \A g \in Globals(m) : g.local => g.defined
           /\ \A i \in DOMAIN m.vars, v \in Units :
                FunctionsNamed(WithHelpers(p[v]), m.vars[i].name) = {}

(* Call ids do tell the calls of a function apart.                         *)
ASSUME CallIdAssumption ==
    \A p \in Programs : \A u \in Units : \A k \in DOMAIN p[u].funcs :
        LET body == p[u].funcs[k].body
        IN \A i, j \in DOMAIN body : body[i].id = body[j].id => i = j

VARIABLES
    source,         \* each unit as the compiler hands it to the pass
    module,         \* each unit as the pass has changed it so far
    stage,          \* the step of runOnModule a unit has reached
    self,           \* of the units that have it, the saved bitcode and the addresses
    callsites,      \* the static_callsites of a unit
    report          \* what runOnModule tells the pass manager

decorateVars == <<source, module, stage, self, callsites, report>>

Stages == {"start", "find", "helpers", "lookup", "self", "landing", "done"}

Callsite == [fn : Names, number : Nat, call : CallIds]

-----------------------------------------------------------------------------
(* Target functions and the calls to decorate in them.                     *)

TargetFunctions(u) == {n \in TargetNames : FunctionsNamed(source[u], n) # {}}

TargetTypes(u) == {FunctionNamed(source[u], n).type : n \in TargetFunctions(u)}

TargetDefinitions(u) == {n \in TargetFunctions(u) : Defines(source[u], n)}

(* The number of a call within its function; inline assembly has none.     *)
CallNumber(body, i) == Cardinality({j \in 1 .. i - 1 : body[j].kind # "asm"})

IsCollected(u, call) ==
    /\ call.kind # "asm"
    /\ call.type \in TargetTypes(u)
    /\ call.kind = "pointer" \/ call.aims \subseteq TargetFunctions(u)

(* What decoration inserts.                                                *)
Inserted(name) ==
    [id |-> name, kind |-> "direct", aims |-> {name}, type |-> HelperType]

(* The test of the return address is at the entry of the function, what is *)
(* done when it succeeds is in a block at its end.                         *)
LandingTest == <<Inserted("llvm.returnaddress")>>

LandingUpdate == <<Inserted("_drti_caller"), Inserted("_drti_landed")>>

DecoratedCall(call) ==
    <<Inserted("_drti_call_from"), Inserted("_drti_set_caller"),
      [call EXCEPT !.kind = "pointer"]>>

DecoratedBody(u, body) ==
    LandingTest \o FlattenSeq([i \in DOMAIN body |->
        IF IsCollected(u, body[i]) THEN DecoratedCall(body[i]) ELSE <<body[i]>>])
        \o LandingUpdate

(* mutant: the calls are numbered in the decorated function                *)
CollectCallsDecorated(u, n) ==
    LET body == FunctionNamed(module[u], n).body
        after == DecoratedBody(u, body)
    IN {[fn |-> n, number |-> CallNumber(after, i), call |-> after[i].id] :
            i \in {j \in DOMAIN after : \E k \in DOMAIN body :
                        body[k].id = after[j].id /\ IsCollected(u, body[k])}}

CollectCalls(u, n) ==
    LET body == FunctionNamed(module[u], n).body
    IN {[fn |-> n, number |-> CallNumber(body, i), call |-> body[i].id] :
            i \in {j \in DOMAIN body : IsCollected(u, body[j])}}

Declaration(name) ==
    [name |-> name, intrinsic |-> name \in LlvmNames, local |-> FALSE, defined |-> FALSE,
     type |-> HelperType, body |-> <<>>, uses |-> {}]

(* getOrInsertFunction.                                                    *)
WithDeclarations(m, names) ==
    [m EXCEPT !.funcs = @ \o SetToSeq({Declaration(n) :
                                n \in {k \in names : FunctionsNamed(m, k) = {}}})]

-----------------------------------------------------------------------------

DecorateInit ==
    /\ source \in Programs
    /\ module = source
    /\ stage = [u \in Units |-> "start"]
    /\ self = <<>>
    /\ callsites = [u \in Units |-> {}]
    /\ report = [u \in Units |-> "none"]

Advance(u, s) == stage' = [stage EXCEPT ![u] = s]

Stop(u, changed) ==
    /\ Advance(u, "done")
    /\ report' = [report EXCEPT ![u] = IF changed THEN "changed" ELSE "unchanged"]
    /\ UNCHANGED <<source, module, self, callsites>>

(* The target triple is another than x86_64-unknown-linux-gnu.             *)
SkipForeign(u) ==
    /\ stage[u] = "start"
    /\ ~module[u].native
    /\ Stop(u, FALSE)

Begin(u) ==
    /\ stage[u] = "start"
    /\ module[u].native
    /\ Advance(u, "find")
    /\ UNCHANGED <<source, module, self, callsites, report>>

FindNothing(u) ==
    /\ stage[u] = "find"
    /\ TargetFunctions(u) = {}
    /\ Stop(u, FALSE)

FindTargets(u) ==
    /\ stage[u] = "find"
    /\ TargetFunctions(u) # {}
    /\ Advance(u, "helpers")
    /\ UNCHANGED <<source, module, self, callsites, report>>

AddHelpers(u) ==
    /\ stage[u] = "helpers"
    /\ module' = [module EXCEPT ![u] = WithHelpers(@)]
    /\ Advance(u, "lookup")
    /\ UNCHANGED <<source, self, callsites, report>>

(* Linking them fails, which leaves the module alone.                      *)
AddHelpersFails(u) ==
    /\ stage[u] = "helpers"
    /\ Stop(u, FALSE)

LookupHelpers(u) ==
    /\ stage[u] = "lookup"
    /\ Advance(u, "self")
    /\ UNCHANGED <<source, module, self, callsites, report>>

(* mutant: the pass stops without telling that it linked the helpers       *)
LookupFailsUnreported(u) ==
    /\ stage[u] = "lookup"
    /\ Stop(u, FALSE)

(* A type or function of the inline support is not found in the module.    *)
LookupFails(u) ==
    /\ stage[u] = "lookup"
    /\ Stop(u, TRUE)

(* mutant: the globals are collected before the helpers were linked        *)
CollectGlobalsEarly(u) == Addresses(u, source[u])

CollectGlobals(u) == Addresses(u, module[u])

CreateSelf(u) ==
    /\ stage[u] = "self"
    /\ self' = [v \in DOMAIN self \cup {u} |->
                    IF v = u THEN [bitcode |-> module[u], globals |-> CollectGlobals(u)]
                    ELSE self[v]]
    /\ Advance(u, "landing")
    /\ UNCHANGED <<source, module, callsites, report>>

(* add_landing_globals visits the target functions in no particular order. *)
Undecorated(u) ==
    {n \in TargetDefinitions(u) :
        FunctionNamed(module[u], n).body = FunctionNamed(source[u], n).body}

AddLanding(u, n) ==
    /\ stage[u] = "landing"
    /\ n \in Undecorated(u)
    /\ callsites' = [callsites EXCEPT ![u] = @ \cup CollectCalls(u, n)]
    /\ module' = [module EXCEPT ![u] = WithDeclarations(
            [@ EXCEPT !.funcs = [i \in DOMAIN @ |->
                IF @[i].name = n THEN [@[i] EXCEPT !.body = DecoratedBody(u, @)] ELSE @[i]]],
            {"llvm.returnaddress", "_drti_caller"}
                \cup (IF CollectCalls(u, n) = {} THEN {} ELSE {"_drti_set_caller"}))]
    /\ UNCHANGED <<source, stage, self, report>>

Finish(u) ==
    /\ stage[u] = "landing"
    /\ Undecorated(u) = {}
    /\ Stop(u, TRUE)

RunOnModule(u) ==
    \/ SkipForeign(u) \/ Begin(u)
    \/ FindNothing(u) \/ FindTargets(u)
    \/ AddHelpers(u) \/ AddHelpersFails(u)
    \/ LookupHelpers(u) \/ LookupFails(u)
    \/ CreateSelf(u)
    \/ \E n \in TargetNames : AddLanding(u, n)
    \/ Finish(u)

DecorateNext == \E u \in Units : RunOnModule(u)

DecorateSpec == DecorateInit /\ [][DecorateNext]_decorateVars

-----------------------------------------------------------------------------
(* The pass manager keeps its analyses only of modules that are unchanged. *)
ReportsChange ==
    \A u \in Units : report[u] = "unchanged" => module[u] = source[u]

(* What was saved is what the callsites were numbered in: the call with a  *)
(* callsite's number, in the saved function, is the one it was made for.   *)
CallsitesFoundInSelf ==
    \A u \in Units : \A s \in callsites[u] :
        /\ u \in DOMAIN self
        /\ LET body == FunctionNamed(self[u].bitcode, s.fn).body
           IN \E i \in DOMAIN body :
                /\ body[i].id = s.call
                /\ body[i].kind # "asm"
                /\ CallNumber(body, i) = s.number
=============================================================================
