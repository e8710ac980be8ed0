-------------------------- MODULE RecompileProofs --------------------------
(***************************************************************************)
(* Proofs about decoration and recompilation together, for every program:  *)
(* a compilation does for the rest of the runtime what Compilation says,   *)
(* although it knows the call of its chain by a number only.               *)
(***************************************************************************)
EXTENDS Recompile, DecorateProofs, SelectionProofs

(* A chain is known while a compilation runs, and its callsite is one that *)
(* decoration has made: by then decoration has ended everywhere.           *)
ChainInv ==
    /\ step \in Steps
    /\ chain = None <=> step = "idle"
    /\ chain # None =>
        /\ chain \in Chain
        /\ chain.site \in callsites[chain.unit]
        /\ chain.leaf \in TargetDefinitions(chain.leafUnit)
        /\ {chain.unit, chain.leafUnit} \subseteq DOMAIN self
        /\ \A u \in Units : stage[u] = "done"

(* The call of the chain is the one that was rewritten, if it is numbered, *)
(* and the leaf of the chain is called there, if it is named.              *)
RewrittenInv ==
    /\ rewritten # None =>
        /\ rewritten \in Rewritten
        /\ step = "resolve"
        /\ Numbered => rewritten.call = chain.site.call /\ CallerBody[SitePosition].kind = "pointer"
        /\ Named => rewritten.leaf = FunctionAddress(chain.leafUnit, chain.leaf)
    /\ rewritten = None /\ step = "resolve" /\ Numbered =>
        CallerBody[SitePosition].kind # "pointer"

(* Once it is made, the symbol map is that of the two modules.             *)
MapInv == step \in {"link", "reprocess", "resolve"} => map = SymbolMap

RecompileInv == DecorateInv /\ ChainInv /\ RewrittenInv /\ MapInv

-----------------------------------------------------------------------------
(* What was saved of the units, and the functions of the chain in it.      *)

LEMMA SavedModule ==
    ASSUME RecompileInv, NEW u \in DOMAIN self
    PROVE  /\ u \in Units
           /\ self[u].bitcode \in Module
           /\ DistinctNames(self[u].bitcode)
           /\ \A g \in Globals(self[u].bitcode) : g.local => g.defined
           /\ self[u].globals = Addresses(u, self[u].bitcode)
           /\ \A v \in DOMAIN self : \A i \in DOMAIN self[u].bitcode.vars :
                FunctionsNamed(self[v].bitcode, self[u].bitcode.vars[i].name) = {}
<1>1. /\ \A v \in DOMAIN self : v \in Units
      /\ source \in Programs /\ source[u] \in Module
  BY DecorateAssumption DEF RecompileInv, DecorateInv, TypeInv
<1>2. \A v \in DOMAIN self : self[v] = Saved(v)
  BY <1>1 DEF RecompileInv, DecorateInv, SavedInv
<1>3. \A v \in DOMAIN self : self[v].bitcode = WithHelpers(source[v])
  BY <1>2 DEF Saved
<1>4. self[u].globals = Addresses(u, WithHelpers(source[u]))
  BY <1>2 DEF Saved
<1>5. /\ \A g \in Globals(WithHelpers(source[u])) : g.local => g.defined
      /\ \A i \in DOMAIN WithHelpers(source[u]).vars : \A v \in Units :
            FunctionsNamed(WithHelpers(source[v]), WithHelpers(source[u]).vars[i].name) = {}
  BY <1>1, LinkageAssumption
<1>6. WithHelpers(source[u]) \in Module /\ DistinctNames(WithHelpers(source[u]))
  BY <1>1, HelpersLinked, NamesAssumption
<1> QED BY <1>1, <1>3, <1>4, <1>5, <1>6

LEMMA AddressInCode ==
    ASSUME RecompileInv, NEW u \in DOMAIN self, NEW n,
           FunctionsNamed(self[u].bitcode, n) # {}
    PROVE  FunctionAddress(u, n) \in Code
<1>1. u \in Units /\ self[u].bitcode \in Module
  BY SavedModule
<1>2. FunctionNamed(self[u].bitcode, n) \in Function
  BY <1>1, TargetInModule
<1> QED BY <1>1, <1>2 DEF FunctionAddress, LinkAddress, Code, Function

(* The caller's function and the leaf's have addresses.                    *)
LEMMA ChainAddresses ==
    ASSUME RecompileInv, chain # None
    PROVE  /\ FunctionAddress(chain.unit, chain.site.fn) \in Code
           /\ FunctionAddress(chain.leafUnit, chain.leaf) \in Code
           /\ FunctionsNamed(LeafModule, chain.leaf) # {}
<1>1. /\ chain.unit \in Units /\ chain.unit \in DOMAIN self
      /\ chain.leafUnit \in Units /\ chain.leafUnit \in DOMAIN self
      /\ chain.site \in callsites[chain.unit]
      /\ chain.leaf \in TargetDefinitions(chain.leafUnit)
  BY DEF RecompileInv, ChainInv, Chain
<1>2. chain.site.fn \in TargetDefinitions(chain.unit)
  BY <1>1 DEF RecompileInv, DecorateInv, SavedInv
<1>3. /\ TargetsAsInSource(self[chain.unit].bitcode, chain.unit)
      /\ TargetsAsInSource(self[chain.leafUnit].bitcode, chain.leafUnit)
  BY <1>1, SavedTargets DEF RecompileInv, DecorateInv
<1>4. /\ FunctionsNamed(self[chain.unit].bitcode, chain.site.fn) # {}
      /\ FunctionsNamed(self[chain.leafUnit].bitcode, chain.leaf) # {}
  BY <1>1, <1>2, <1>3 DEF TargetsAsInSource, TargetDefinitions, TargetFunctions
<1> QED BY <1>1, <1>4, AddressInCode DEF LeafModule

(* With one global of a name, the function found is the one there is.      *)
LEMMA OneFunction ==
    ASSUME NEW m, DistinctNames(m), NEW n, NEW f \in FunctionsNamed(m, n)
    PROVE  FunctionNamed(m, n) = f
<1>1. FunctionNamed(m, n) \in FunctionsNamed(m, n)
  BY DEF FunctionNamed
<1> QED BY <1>1 DEF FunctionsNamed, DistinctNames, Globals

(* What callsite_function finds is a function, and the leaf if it is named. *)
LEMMA LeafFound ==
    ASSUME RecompileInv, chain # None, LeafLinked
    PROVE  /\ FunctionAddress(LeafFoundIn, chain.leaf) \in Code
           /\ Named => FunctionAddress(LeafFoundIn, chain.leaf)
                            = FunctionAddress(chain.leafUnit, chain.leaf)
<1>1. CASE chain.leaf \in Needed
  BY <1>1, ChainAddresses DEF LeafFoundIn
<1>2. CASE chain.leaf \notin Needed
  <2>1. PICK f \in FunctionsNamed(CallerModule, chain.leaf) : f.defined
    BY <1>2 DEF LeafLinked, Defines
  <2>2. chain.unit \in DOMAIN self
    BY DEF RecompileInv, ChainInv
  <2>3. DistinctNames(CallerModule)
    BY <2>2, SavedModule DEF CallerModule
  <2>4. FunctionNamed(CallerModule, chain.leaf) = f
    BY <2>1, <2>3, OneFunction
  <2>5. LeafFoundIn = chain.unit
    BY <1>2 DEF LeafFoundIn
  <2>6. FunctionAddress(chain.unit, chain.leaf) \in Code
    BY <2>1, <2>2, AddressInCode DEF CallerModule
  <2>7. FunctionAddress(chain.unit, chain.leaf) = LinkAddress(chain.unit, f)
    BY <2>4 DEF FunctionAddress, CallerModule
  <2> QED BY <2>1, <2>5, <2>6, <2>7 DEF Named
<1> QED BY <1>1, <1>2

-----------------------------------------------------------------------------
(* The caller's function, and its call in it.                              *)

LEMMA CallerIsAsInSource ==
    ASSUME RecompileInv, chain # None
    PROVE  /\ CallerBody = FunctionNamed(source[chain.unit], chain.site.fn).body
           /\ CallerBody \in Seq(Call)
           /\ \A i, j \in DOMAIN CallerBody : CallerBody[i].id = CallerBody[j].id => i = j
<1> DEFINE u == chain.unit
           n == chain.site.fn
<1>1. u \in Units /\ chain.site \in callsites[u]
  BY DEF RecompileInv, ChainInv, Chain
<1>2. u \in DOMAIN self /\ TargetsAsInSource(self[u].bitcode, u) /\ n \in TargetDefinitions(u)
  BY <1>1, SavedTargets DEF RecompileInv, DecorateInv, SavedInv
<1>3. n \in TargetNames /\ FunctionsNamed(source[u], n) # {}
  BY <1>2 DEF TargetDefinitions, TargetFunctions
<1>4. FunctionNamed(self[u].bitcode, n) = FunctionNamed(source[u], n)
  BY <1>2, <1>3 DEF TargetsAsInSource, FunctionNamed
<1>5. CallerBody = FunctionNamed(source[u], n).body
  BY <1>4 DEF CallerBody, CallerModule
<1>6. FunctionNamed(source[u], n).body \in Seq(Call)
  BY <1>1, <1>3, BodyOfTarget DEF RecompileInv, DecorateInv
<1>7. source \in Programs /\ source[u] \in Module
  BY <1>1, DecorateAssumption DEF RecompileInv, DecorateInv, TypeInv
<1>8. PICK k \in DOMAIN source[u].funcs : FunctionNamed(source[u], n) = source[u].funcs[k]
  BY <1>3, <1>7, TargetInModule
<1>9. \A i, j \in DOMAIN CallerBody : CallerBody[i].id = CallerBody[j].id => i = j
  BY <1>1, <1>5, <1>7, <1>8, CallIdAssumption
<1> QED BY <1>5, <1>6, <1>9

(* The call of the chain is found by its number if it is numbered.         *)
LEMMA NumberLeadsToSite ==
    ASSUME RecompileInv, chain # None
    PROVE  /\ SitePosition \in DOMAIN CallerBody
           /\ CallerBody[SitePosition].id = chain.site.call
           /\ CallerBody[SitePosition].kind # "asm"
           /\ Numbered => FoundCall = {SitePosition}
<1> DEFINE body == CallerBody
<1>1. /\ body = FunctionNamed(source[chain.unit], chain.site.fn).body
      /\ body \in Seq(Call)
      /\ \A i, j \in DOMAIN body : body[i].id = body[j].id => i = j
  BY CallerIsAsInSource
<1>2. FoundInSource(chain.unit, chain.site)
  BY DEF RecompileInv, ChainInv, DecorateInv, Chain
<1>3. PICK i \in DOMAIN body :
        /\ body[i].id = chain.site.call
        /\ body[i].kind # "asm"
        /\ CallNumber(body, i) = chain.site.number
  BY <1>1, <1>2 DEF FoundInSource
<1>4. SitePosition = i
  BY <1>1, <1>3 DEF SitePosition
<1>5. i \in Nat \ {0}
  BY <1>1
<1>6. ASSUME Numbered PROVE FoundCall = {i}
  <2>1. {j \in 1 .. i - 1 : body[j].kind # "asm"} = 1 .. i - 1
    BY <1>4, <1>6 DEF Numbered
  <2>2. Cardinality(1 .. i - 1) = i - 1
    <3>1. Cardinality(1 .. i - 1) = IF 1 > i - 1 THEN 0 ELSE (i - 1) - 1 + 1
      BY <1>5, FS_Interval
    <3> QED BY <1>5, <3>1
  <2>3. chain.site.number = i - 1
    BY <1>3, <2>1, <2>2 DEF CallNumber
  <2>4. \A k \in DOMAIN body : k \in Nat
    BY <1>1
  <2> QED BY <1>5, <2>3, <2>4 DEF FoundCall
<1> QED BY <1>3, <1>4, <1>6

LEMMA ShortCutType ==
    ASSUME NEW call \in Call, Accepted(call),
           FunctionAddress(LeafFoundIn, chain.leaf) \in Code
    PROVE  /\ ShortCut(call) \in Rewritten
           /\ ShortCut(call).call = call.id
           /\ ShortCut(call).leaf = FunctionAddress(LeafFoundIn, chain.leaf)
<1>1. /\ call.id \in CallIds
      /\ call.type.params \in Seq(Types)
  BY DEF Call, FunctionType
<1>2. ASSUME NEW i \in DOMAIN call.type.params
      PROVE  (CHOOSE t \in Coerced(call.type.params[i]) : TRUE) \in Types
  <2>1. call.type.params[i] \in Types
    BY <1>1
  <2>2. Coerced(call.type.params[i]) # {}
    BY DEF Accepted
  <2>3. Coerced(call.type.params[i]) \subseteq Types
    BY <2>1 DEF Coerced
  <2> QED BY <2>2, <2>3
<1> DEFINE args == [i \in DOMAIN call.type.params |->
                        CHOOSE t \in Coerced(call.type.params[i]) : TRUE]
<1>3. args \in Seq(Types)
  <2>1. DOMAIN call.type.params = 1 .. Len(call.type.params) /\ Len(call.type.params) \in Nat
    BY <1>1
  <2>2. \A i \in DOMAIN call.type.params : args[i] \in Types
    BY <1>2
  <2>3. DOMAIN args = 1 .. Len(call.type.params)
    BY <2>1
  <2>4. args \in [1 .. Len(call.type.params) -> Types]
    BY <2>1, <2>2
  <2> HIDE DEF args
  <2> QED BY <2>1, <2>4
<1> QED BY <1>1, <1>3 DEF ShortCut, Rewritten

-----------------------------------------------------------------------------
(* Invariance.                                                             *)

(* Decoration takes no step while a compilation runs.                      *)
LEMMA DecorationIsOver ==
    ASSUME ChainInv, DecorateNext
    PROVE  chain = None
BY DEF ChainInv, DecorateNext, RunOnModule, SkipForeign, Begin, FindNothing, FindTargets,
       AddHelpers, AddHelpersFails, LookupHelpers, LookupFails, CreateSelf, AddLanding, Finish

LEMMA DecorateInvKept ==
    ASSUME DecorateInv, UNCHANGED decorateVars
    PROVE  DecorateInv'
BY DecorateStepOK

(* The definitions that are read from what decoration has saved.           *)
LEMMA SavedKept ==
    ASSUME UNCHANGED <<decorateVars, chain>>
    PROVE  /\ CallerBody' = CallerBody
           /\ SitePosition' = SitePosition
           /\ Numbered' = Numbered
           /\ FoundCall' = FoundCall
           /\ SymbolMap' = SymbolMap
           /\ Named' = Named
           /\ FunctionAddress(chain.leafUnit, chain.leaf)'
                = FunctionAddress(chain.leafUnit, chain.leaf)
           /\ FunctionAddress(chain.unit, chain.site.fn)'
                = FunctionAddress(chain.unit, chain.site.fn)
<1>1. CallerBody' = CallerBody
  BY DEF decorateVars, CallerBody, CallerModule
<1>2. SitePosition' = SitePosition
  BY <1>1 DEF SitePosition
<1>3. LeafRequests' = LeafRequests /\ CallerRequests' = CallerRequests
  BY DEF decorateVars, LeafRequests, CallerRequests, CallerModule, LeafModule
<1>4. SymbolMap' = SymbolMap
  BY <1>3 DEF decorateVars, SymbolMap
<1>5. /\ FunctionAddress(chain.leafUnit, chain.leaf)'
            = FunctionAddress(chain.leafUnit, chain.leaf)
      /\ FunctionAddress(chain.unit, chain.site.fn)'
            = FunctionAddress(chain.unit, chain.site.fn)
  BY DEF decorateVars, FunctionAddress
<1>6. Named' = Named
  BY <1>5 DEF decorateVars, Named, CallerModule
<1> QED BY <1>1, <1>2, <1>4, <1>5, <1>6 DEF Numbered, FoundCall

LEMMA EndsOK ==
    ASSUME RecompileInv, NEW locked, EndCompilation(locked), UNCHANGED decorateVars
    PROVE  RecompileInv'
<1>1. DecorateInv'
  BY DecorateInvKept DEF RecompileInv
<1>2. ChainInv'
  BY DEF EndCompilation, Goto, ChainInv, Steps
<1>3. RewrittenInv' /\ MapInv'
  BY DEF EndCompilation, Goto, RewrittenInv, MapInv
<1> QED BY <1>1, <1>2, <1>3 DEF RecompileInv

LEMMA DiscoverOK ==
    ASSUME RecompileInv, NEW u \in Units, NEW w \in Units, NEW n \in TargetNames,
           NEW s \in callsites[u], Discover(u, s, w, n)
    PROVE  RecompileInv'
<1> USE DEF Discover
<1>1. DecorateInv'
  BY DecorateInvKept DEF RecompileInv
<1>2. s \in Callsite /\ n \in Names
  BY DecorateAssumption DEF RecompileInv, DecorateInv, TypeInv
<1>3. chain' \in Chain
  BY <1>2 DEF Chain
<1>4. u \in DOMAIN self
  BY DEF RecompileInv, DecorateInv, SavedInv
<1>5. ChainInv'
  <2>1. n \in TargetDefinitions(w)'
    BY DEF decorateVars, TargetDefinitions, TargetFunctions
  <2> QED BY <1>3, <1>4, <2>1, NoneAssumption DEF ChainInv, Goto, Steps, decorateVars
<1>6. RewrittenInv' /\ MapInv'
  BY DEF RecompileInv, RewrittenInv, MapInv, Goto
<1> QED BY <1>1, <1>5, <1>6 DEF RecompileInv

(* The steps between the discovery of a chain and reprocessing.            *)
LEMMA GoesOnOK ==
    ASSUME RecompileInv, NEW s \in Steps \ {"idle", "resolve"}, step \notin {"idle", "resolve"},
           Goto(s), UNCHANGED <<decorateVars, chain, rewritten>>,
           MapInv'
    PROVE  RecompileInv'
<1>1. DecorateInv'
  BY DecorateInvKept DEF RecompileInv
<1>2. ChainInv'
  BY DEF RecompileInv, ChainInv, Goto, decorateVars, TargetDefinitions, TargetFunctions
<1>3. RewrittenInv'
  BY DEF RecompileInv, RewrittenInv, Goto
<1> QED BY <1>1, <1>2, <1>3 DEF RecompileInv

LEMMA RewriteOK ==
    ASSUME RecompileInv, step = "reprocess", NEW i \in FoundCall, Rewrite(i)
    PROVE  RecompileInv'
<1> USE DEF Rewrite
<1>1. DecorateInv'
  BY DecorateInvKept DEF RecompileInv
<1>2. ChainInv'
  BY DEF RecompileInv, ChainInv, Goto, Steps, decorateVars, TargetDefinitions, TargetFunctions
<1>3. chain # None /\ chain' = chain
  BY DEF RecompileInv, ChainInv
<1>4. CallerBody[i] \in Call
  BY <1>3, CallerIsAsInSource DEF FoundCall
<1>5. /\ rewritten' \in Rewritten /\ rewritten'.call = CallerBody[i].id
      /\ Named => rewritten'.leaf = FunctionAddress(chain.leafUnit, chain.leaf)
  BY <1>3, <1>4, ShortCutType, LeafFound DEF Accepted
<1>6. Numbered => i = SitePosition /\ CallerBody[i].id = chain.site.call
                    /\ CallerBody[i].kind = "pointer"
  BY <1>3, <1>4, NumberLeadsToSite DEF PointerCall, Call
<1>7. RewrittenInv'
  BY <1>3, <1>5, <1>6, SavedKept, NoneAssumption DEF RewrittenInv, Goto
<1>8. MapInv'
  BY <1>3, SavedKept DEF RecompileInv, MapInv
<1> QED BY <1>1, <1>2, <1>7, <1>8 DEF RecompileInv

LEMMA LeaveCallOK ==
    ASSUME RecompileInv, LeaveCall
    PROVE  RecompileInv'
<1> USE DEF LeaveCall
<1>1. DecorateInv'
  BY DecorateInvKept DEF RecompileInv
<1>2. ChainInv'
  BY DEF RecompileInv, ChainInv, Goto, Steps, decorateVars, TargetDefinitions, TargetFunctions
<1>3. chain # None /\ rewritten' = None
  BY DEF RecompileInv, ChainInv, RewrittenInv
<1>4. Numbered => CallerBody[SitePosition].kind # "pointer"
  BY <1>3, NumberLeadsToSite DEF PointerCall
<1>5. RewrittenInv'
  BY <1>3, <1>4, SavedKept DEF RewrittenInv, Goto
<1>6. MapInv'
  BY <1>3, SavedKept DEF RecompileInv, MapInv
<1> QED BY <1>1, <1>2, <1>5, <1>6 DEF RecompileInv

LEMMA RecompileInitOK == Init => RecompileInv
<1> SUFFICES ASSUME Init PROVE RecompileInv
  OBVIOUS
<1>1. DecorateInv
  BY DecorateInitOK DEF Init
<1>2. ChainInv /\ RewrittenInv /\ MapInv
  BY DEF Init, RuntimeInit, ChainInv, RewrittenInv, MapInv, Steps
<1> QED BY <1>1, <1>2 DEF RecompileInv

LEMMA RecompileStepOK ==
    ASSUME RecompileInv, [Next]_vars
    PROVE  RecompileInv'
<1>1. CASE UNCHANGED vars
  <2>1. UNCHANGED decorateVars /\ UNCHANGED <<step, chain, map, rewritten>>
    BY <1>1 DEF vars, runtimeVars
  <2>2. DecorateInv'
    BY <2>1, DecorateInvKept DEF RecompileInv
  <2>3. ChainInv' /\ RewrittenInv' /\ MapInv'
    BY <2>1, SavedKept DEF RecompileInv, ChainInv, RewrittenInv, MapInv, decorateVars,
       TargetDefinitions, TargetFunctions
  <2> QED BY <2>2, <2>3 DEF RecompileInv
<1>2. CASE DecorateNext /\ UNCHANGED runtimeVars
  <2>1. DecorateInv'
    BY <1>2, DecorateStepOK DEF RecompileInv
  <2>2. chain = None /\ UNCHANGED <<step, chain, rewritten>>
    BY <1>2, DecorationIsOver DEF RecompileInv, runtimeVars
  <2>3. step = "idle" /\ rewritten = None
    BY <2>2 DEF RecompileInv, ChainInv, RewrittenInv
  <2>4. ChainInv' /\ RewrittenInv' /\ MapInv'
    BY <2>2, <2>3 DEF ChainInv, RewrittenInv, MapInv, Steps
  <2> QED BY <2>1, <2>4 DEF RecompileInv
<1>3. CASE \E u, w \in Units, n \in TargetNames : \E s \in callsites[u] : Discover(u, s, w, n)
  BY <1>3, DiscoverOK
<1>4. CASE ReadModules
  BY <1>4, GoesOnOK DEF ReadModules, Steps, MapInv, Goto
<1>5. CASE ConstructFails
  BY <1>5, EndsOK DEF ConstructFails
<1>6. CASE MapGlobals
  <2>1. MapInv'
    BY <1>6, SavedKept DEF MapGlobals, MapInv
  <2> QED BY <1>6, <2>1, GoesOnOK DEF MapGlobals, Steps
<1>7. CASE LinkModules
  <2>1. MapInv'
    BY <1>7, SavedKept DEF LinkModules, RecompileInv, MapInv
  <2> QED BY <1>7, <2>1, GoesOnOK DEF LinkModules, Steps
<1>8. CASE LinkFails \/ ReprocessFails \/ ResolveFails
  BY <1>8, EndsOK DEF LinkFails, ReprocessFails, ResolveFails, CompileFails
<1>9. CASE step = "reprocess" /\ \E i \in FoundCall : Rewrite(i)
  BY <1>9, RewriteOK
<1>10. CASE LeaveCall
  BY <1>10, LeaveCallOK
<1>11. CASE Retarget
  BY <1>11, EndsOK DEF Retarget
<1> QED
  BY <1>1, <1>2, <1>3, <1>4, <1>5, <1>6, <1>7, <1>8, <1>9, <1>10, <1>11 DEF Next

(* The inductive invariant of decoration and recompilation together.       *)
THEOREM RecompileInvariance == Spec => []RecompileInv
<1>1. Init => RecompileInv
  BY RecompileInitOK
<1>2. RecompileInv /\ [Next]_vars => RecompileInv'
  BY RecompileStepOK
<1> QED BY <1>1, <1>2, PTL DEF Spec

(* The pass manager is told of every change to a module, in every program  *)
(* and wherever the pass stops.                                            *)
THEOREM ReportsTruthfully == Spec => []ReportsChange
<1>1. RecompileInv => ReportsChange
  BY DEF RecompileInv, DecorateInv, ReportInv, ReportsChange
<1> QED BY <1>1, RecompileInvariance, PTL

(* The number of a callsite leads to its call in the saved bitcode.        *)
THEOREM NumbersLeadBack == Spec => []CallsitesFoundInSelf
<1>1. RecompileInv => CallsitesFoundInSelf
  BY SavedAsCounted DEF RecompileInv
<1> QED BY <1>1, RecompileInvariance, PTL

-----------------------------------------------------------------------------
(* What is listed in a module, and what is asked for and stored because of *)
(* it.                                                                     *)

Listed(m) == ToSet(ListedVariables(m)) \cup ToSet(ListedFunctions(m))

LEMMA ListedElements ==
    ASSUME NEW m \in Module
    PROVE  /\ ListedVariables(m) \in Seq(Variable)
           /\ ListedFunctions(m) \in Seq(Function)
           /\ \A i \in DOMAIN ListedVariables(m) : ListedVariables(m)[i] \in Globals(m)
           /\ \A i \in DOMAIN ListedFunctions(m) :
                /\ ListedFunctions(m)[i] \in Globals(m)
                /\ ~ListedFunctions(m)[i].defined /\ ~ListedFunctions(m)[i].intrinsic
           /\ \A i \in DOMAIN ListedVariables(m) :
                \E k \in DOMAIN m.vars : m.vars[k] = ListedVariables(m)[i]
           /\ \A i \in DOMAIN ListedFunctions(m) :
                \E k \in DOMAIN m.funcs : m.funcs[k] = ListedFunctions(m)[i]
           /\ \A k \in DOMAIN m.funcs : ~m.funcs[k].defined /\ ~m.funcs[k].intrinsic =>
                \E i \in DOMAIN ListedFunctions(m) : ListedFunctions(m)[i] = m.funcs[k]
<1>1. m.vars \in Seq(Variable) /\ m.funcs \in Seq(Function)
  BY DEF Module
<1> DEFINE V == {v \in Variable : ~v.constant /\ v.name \notin LlvmNames}
           F == {f \in Function : ~f.defined /\ ~f.intrinsic}
<1>2. ListedVariables(m) \in Seq(Variable)
      /\ \E e : Places(m.vars, V, Len(m.vars), ListedVariables(m), e)
  BY <1>1, SelectedPlaces DEF ListedVariables
<1>3. ListedFunctions(m) \in Seq(Function)
      /\ \E e : Places(m.funcs, F, Len(m.funcs), ListedFunctions(m), e)
  BY <1>1, SelectedPlaces DEF ListedFunctions
<1>4. \A i \in DOMAIN ListedVariables(m) :
        \E k \in DOMAIN m.vars : m.vars[k] = ListedVariables(m)[i]
  <2>1. DOMAIN m.vars = 1 .. Len(m.vars)
    BY <1>1
  <2> QED BY <1>2, <2>1 DEF Places
<1>5. /\ \A i \in DOMAIN ListedFunctions(m) :
            /\ \E k \in DOMAIN m.funcs : m.funcs[k] = ListedFunctions(m)[i]
            /\ ListedFunctions(m)[i] \in F
      /\ \A k \in DOMAIN m.funcs : m.funcs[k] \in F =>
            \E i \in DOMAIN ListedFunctions(m) : ListedFunctions(m)[i] = m.funcs[k]
  <2>1. DOMAIN m.funcs = 1 .. Len(m.funcs)
    BY <1>1
  <2> HIDE DEF F
  <2> QED BY <1>3, <2>1 DEF Places
<1>6. \A k \in DOMAIN m.funcs : m.funcs[k] \in Function
  BY <1>1
<1> QED BY <1>2, <1>3, <1>4, <1>5, <1>6 DEF Globals

LEMMA Joined ==
    ASSUME NEW S, NEW a \in Seq(S), NEW b \in Seq(S)
    PROVE  /\ a \o b \in Seq(S)
           /\ Len(a \o b) = Len(a) + Len(b)
           /\ \A i \in DOMAIN a : (a \o b)[i] = a[i]
           /\ \A i \in DOMAIN b : (a \o b)[Len(a) + i] = b[i]
<1>1. /\ Len(a) \in Nat /\ DOMAIN a = 1 .. Len(a)
      /\ Len(b) \in Nat /\ DOMAIN b = 1 .. Len(b)
  OBVIOUS
<1>2. /\ a \o b \in Seq(S)
      /\ Len(a \o b) = Len(a) + Len(b)
      /\ DOMAIN (a \o b) = 1 .. Len(a) + Len(b)
  OBVIOUS
<1>3. \A i \in 1 .. Len(a) + Len(b) :
        (a \o b)[i] = IF i <= Len(a) THEN a[i] ELSE b[i - Len(a)]
  OBVIOUS
<1>4. ASSUME NEW i \in DOMAIN b
      PROVE  (a \o b)[Len(a) + i] = b[i]
  <2>1. Len(a) + i \in 1 .. Len(a) + Len(b) /\ ~(Len(a) + i <= Len(a))
        /\ (Len(a) + i) - Len(a) = i
    BY <1>1
  <2> QED BY <1>3, <2>1
<1>5. \A i \in DOMAIN a : (a \o b)[i] = a[i]
  BY <1>1, <1>3
<1> QED BY <1>2, <1>4, <1>5

(* The addresses of module m of unit u.                                    *)
LEMMA AddressesOf ==
    ASSUME NEW u, NEW m \in Module
    PROVE  LET variables == ListedVariables(m)
               functions == ListedFunctions(m)
               globals == Addresses(u, m)
           IN /\ Len(globals) = Len(variables) + Len(functions)
              /\ \A i \in DOMAIN variables : globals[i] = LinkAddress(u, variables[i])
              /\ \A i \in DOMAIN functions :
                    globals[Len(variables) + i] = LinkAddress(u, functions[i])
<1> DEFINE variables == ListedVariables(m)
           functions == ListedFunctions(m)
           S == {LinkAddress(u, g) : g \in Variable \cup Function}
           a == [i \in DOMAIN variables |-> LinkAddress(u, variables[i])]
           b == [i \in DOMAIN functions |-> LinkAddress(u, functions[i])]
<1>1. variables \in Seq(Variable) /\ functions \in Seq(Function)
  BY ListedElements
<1>2. Addresses(u, m) = a \o b
  BY DEF Addresses
<1> HIDE DEF variables, functions
<1>3. /\ DOMAIN variables = 1 .. Len(variables) /\ Len(variables) \in Nat
      /\ DOMAIN functions = 1 .. Len(functions) /\ Len(functions) \in Nat
      /\ \A i \in DOMAIN variables : variables[i] \in Variable
      /\ \A i \in DOMAIN functions : functions[i] \in Function
  BY <1>1
<1>4. /\ a \in [1 .. Len(variables) -> S]
      /\ b \in [1 .. Len(functions) -> S]
  BY <1>3
<1>5. /\ a \in Seq(S) /\ Len(a) = Len(variables)
      /\ b \in Seq(S) /\ Len(b) = Len(functions)
  <2> HIDE DEF a, b, S
  <2> QED BY <1>3, <1>4
<1>6. /\ Len(a \o b) = Len(a) + Len(b)
      /\ \A i \in DOMAIN a : (a \o b)[i] = a[i]
      /\ \A i \in DOMAIN b : (a \o b)[Len(a) + i] = b[i]
  <2> HIDE DEF a, b, S
  <2>1. a \in Seq(S) /\ b \in Seq(S)
    BY <1>5
  <2> QED BY <2>1, Joined
<1>7. /\ DOMAIN a = DOMAIN variables /\ DOMAIN b = DOMAIN functions
      /\ \A i \in DOMAIN variables : a[i] = LinkAddress(u, variables[i])
      /\ \A i \in DOMAIN functions : b[i] = LinkAddress(u, functions[i])
  OBVIOUS
<1> HIDE DEF a, b
<1>8. /\ Len(Addresses(u, m)) = Len(variables) + Len(functions)
      /\ \A i \in DOMAIN variables : Addresses(u, m)[i] = LinkAddress(u, variables[i])
      /\ \A i \in DOMAIN functions :
            Addresses(u, m)[Len(variables) + i] = LinkAddress(u, functions[i])
  BY <1>2, <1>5, <1>6, <1>7
<1> QED BY <1>8 DEF variables, functions

(* The functions of m that are given an address, if `other` is linked.     *)
Mapped(m, other) == Selected(ListedFunctions(m), {f \in Function : ~Defines(other, f.name)})

LEMMA NamesOfSequence ==
    ASSUME NEW T, \A t \in T : t.name \in Names, NEW s \in Seq(T)
    PROVE  /\ NamesOf(s) \in Seq(Names)
           /\ Len(NamesOf(s)) = Len(s)
           /\ DOMAIN NamesOf(s) = DOMAIN s
           /\ \A i \in DOMAIN s : NamesOf(s)[i] = s[i].name
<1>1. /\ DOMAIN s = 1 .. Len(s) /\ Len(s) \in Nat
      /\ \A i \in DOMAIN s : s[i] \in T
  OBVIOUS
<1> DEFINE a == NamesOf(s)
<1>2. /\ a \in [1 .. Len(s) -> Names]
      /\ DOMAIN a = DOMAIN s
      /\ \A i \in DOMAIN s : a[i] = s[i].name
  BY <1>1 DEF NamesOf
<1> HIDE DEF a
<1>3. a \in Seq(Names) /\ Len(a) = Len(s)
  BY <1>1, <1>2
<1> QED BY <1>2, <1>3 DEF a

LEMMA RequestedNames ==
    ASSUME NEW m \in Module, NEW other
    PROVE  LET variables == ListedVariables(m)
               functions == Mapped(m, other)
               requests == Requested(m, other)
           IN /\ functions \in Seq(Function)
              /\ requests \in Seq(Names)
              /\ Len(requests) = Len(variables) + Len(functions)
              /\ \A i \in DOMAIN variables : requests[i] = variables[i].name
              /\ \A i \in DOMAIN functions :
                    requests[Len(variables) + i] = functions[i].name
              /\ \A j \in DOMAIN requests :
                    j \in DOMAIN variables \/ \E i \in DOMAIN functions : j = Len(variables) + i
<1> DEFINE variables == ListedVariables(m)
           functions == Mapped(m, other)
           a == NamesOf(variables)
           b == NamesOf(functions)
<1>1. variables \in Seq(Variable) /\ functions \in Seq(Function)
  BY ListedElements, SelectedNoLonger DEF Mapped
<1>2. Requested(m, other) = a \o b
  BY DEF Requested, Mapped
<1> HIDE DEF variables, functions
<1>3. /\ \A t \in Variable : t.name \in Names
      /\ \A t \in Function : t.name \in Names
  BY DEF Variable, Function
<1>4. /\ a \in Seq(Names) /\ Len(a) = Len(variables) /\ DOMAIN a = DOMAIN variables
      /\ \A i \in DOMAIN variables : a[i] = variables[i].name
  BY <1>1, <1>3, NamesOfSequence
<1>5. /\ b \in Seq(Names) /\ Len(b) = Len(functions) /\ DOMAIN b = DOMAIN functions
      /\ \A i \in DOMAIN functions : b[i] = functions[i].name
  BY <1>1, <1>3, NamesOfSequence
<1> HIDE DEF a, b
<1>6. /\ a \o b \in Seq(Names)
      /\ Len(a \o b) = Len(a) + Len(b)
      /\ \A i \in DOMAIN a : (a \o b)[i] = a[i]
      /\ \A i \in DOMAIN b : (a \o b)[Len(a) + i] = b[i]
  <2>1. a \in Seq(Names) /\ b \in Seq(Names)
    BY <1>4, <1>5
  <2> QED BY <2>1, Joined
<1> DEFINE r == Requested(m, other)
<1>7. /\ r \in Seq(Names)
      /\ Len(r) = Len(variables) + Len(functions)
      /\ \A i \in DOMAIN variables : r[i] = variables[i].name
      /\ \A i \in DOMAIN functions : r[Len(variables) + i] = functions[i].name
  BY <1>2, <1>4, <1>5, <1>6
<1> HIDE DEF r
<1>8. ASSUME NEW j \in DOMAIN r, j \notin DOMAIN variables
      PROVE  \E i \in DOMAIN functions : j = Len(variables) + i
  <2>1. /\ DOMAIN variables = 1 .. Len(variables) /\ Len(variables) \in Nat
        /\ DOMAIN functions = 1 .. Len(functions) /\ Len(functions) \in Nat
        /\ DOMAIN r = 1 .. Len(r)
    BY <1>1, <1>7
  <2>2. j - Len(variables) \in DOMAIN functions /\ j = Len(variables) + (j - Len(variables))
    BY <1>7, <1>8, <2>1
  <2> QED BY <2>2
<1> QED BY <1>1, <1>7, <1>8 DEF variables, functions, r

(* No more is asked for than was stored ...                                *)
LEMMA RequestsFit ==
    ASSUME NEW u, NEW m \in Module, NEW other
    PROVE  Len(Requested(m, other)) <= Len(Addresses(u, m))
<1>1. /\ Len(Requested(m, other)) = Len(ListedVariables(m)) + Len(Mapped(m, other))
      /\ Mapped(m, other) \in Seq(Function)
  BY RequestedNames
<1>2. Len(Addresses(u, m)) = Len(ListedVariables(m)) + Len(ListedFunctions(m))
  BY AddressesOf
<1>3. /\ ListedFunctions(m) \in Seq(Function) /\ ListedVariables(m) \in Seq(Variable)
      /\ Len(Mapped(m, other)) <= Len(ListedFunctions(m))
  BY ListedElements, SelectedNoLonger DEF Mapped
<1>4. /\ Len(Mapped(m, other)) \in Nat /\ Len(ListedFunctions(m)) \in Nat
      /\ Len(ListedVariables(m)) \in Nat
  BY <1>1, <1>3
<1> QED BY <1>1, <1>2, <1>3, <1>4

(* Compilations ask for no more addresses than were saved.                 *)
THEOREM AddressesSuffice == Spec => []EnoughStored
<1>1. ASSUME RecompileInv, step = "map"
      PROVE  EnoughAddresses
  <2>1. chain # None
    BY <1>1 DEF RecompileInv, ChainInv
  <2>2. chain.unit \in DOMAIN self /\ chain.leafUnit \in DOMAIN self
    BY <1>1, <2>1 DEF RecompileInv, ChainInv
  <2>3. \A u \in DOMAIN self :
            /\ self[u].bitcode \in Module
            /\ self[u].globals = Addresses(u, self[u].bitcode)
    BY <1>1, SavedModule
  <2>4. /\ CallerModule \in Module /\ LeafModule \in Module
        /\ self[chain.unit].globals = Addresses(chain.unit, CallerModule)
        /\ self[chain.leafUnit].globals = Addresses(chain.leafUnit, LeafModule)
    BY <2>2, <2>3 DEF CallerModule, LeafModule
  <2> QED BY <2>4, RequestsFit DEF EnoughAddresses, LeafRequests, CallerRequests
<1>2. RecompileInv => EnoughStored
  BY <1>1 DEF EnoughStored
<1> QED BY <1>2, RecompileInvariance, PTL

-----------------------------------------------------------------------------
(* The addresses that recompiled code gets.                                *)

LEMMA ElementOf ==
    ASSUME NEW T, NEW s \in Seq(T), NEW x
    PROVE  x \in ToSet(s) <=> \E i \in DOMAIN s : s[i] = x
BY DEF ToSet

(* ... and unless a function before it was passed over, what is found for  *)
(* n in the place where it is asked for is what the module means by n.     *)
LEMMA AddressFound ==
    ASSUME NEW u, NEW m \in Module, NEW other,
           NEW n \in ToSet(Requested(m, other)), ~PassedOver(m, other, n)
    PROVE  Assigned(Requested(m, other), Addresses(u, m), n)
             \in {LinkAddress(u, g) : g \in {h \in Listed(m) : h.name = n}}
<1> DEFINE variables == ListedVariables(m)
           functions == ListedFunctions(m)
           mapped == Mapped(m, other)
           S == {f \in Function : ~Defines(other, f.name)}
           r == Requested(m, other)
           j == CHOOSE i \in DOMAIN r : r[i] = n
           a == Addresses(u, m)
<1>1. variables \in Seq(Variable) /\ functions \in Seq(Function) /\ mapped \in Seq(Function)
  BY ListedElements, RequestedNames
<1>2. j \in DOMAIN r /\ r[j] = n
  <2>1. r \in Seq(Names)
    BY RequestedNames
  <2>2. \E i \in DOMAIN r : r[i] = n
    BY <2>1, ElementOf
  <2> QED BY <2>2
<1>3. /\ \A i \in DOMAIN variables : r[i] = variables[i].name
      /\ \A i \in DOMAIN mapped : r[Len(variables) + i] = mapped[i].name
      /\ j \in DOMAIN variables \/ \E i \in DOMAIN mapped : j = Len(variables) + i
  BY <1>2, RequestedNames
<1>4. /\ \A i \in DOMAIN variables : a[i] = LinkAddress(u, variables[i])
      /\ \A i \in DOMAIN functions : a[Len(variables) + i] = LinkAddress(u, functions[i])
  BY AddressesOf
<1>5. \E e : Places(functions, S, Len(functions), mapped, e)
  BY <1>1, SelectedPlaces DEF Mapped
<1>6. \A i, k \in DOMAIN functions :
        i < k /\ functions[k].name = n => ~Defines(other, functions[i].name)
  BY DEF PassedOver
<1>7. Assigned(r, a, n) = a[j]
  BY DEF Assigned
<1>8. Listed(m) = ToSet(variables) \cup ToSet(functions)
  BY DEF Listed
<1> HIDE DEF variables, functions, mapped, r, a, j
<1>9. CASE j \in DOMAIN variables
  <2>1. variables[j].name = n /\ a[j] = LinkAddress(u, variables[j])
    BY <1>2, <1>3, <1>4, <1>9
  <2>2. variables[j] \in ToSet(variables)
    BY <1>1, <1>9, ElementOf
  <2> QED BY <1>7, <1>8, <2>1, <2>2 DEF r, a
<1>10. CASE \E i \in DOMAIN mapped : j = Len(variables) + i
  <2>1. PICK k \in DOMAIN mapped : j = Len(variables) + k
    BY <1>10
  <2>2. mapped[k].name = n
    BY <1>2, <1>3, <2>1
  <2>3. PICK e : Places(functions, S, Len(functions), mapped, e)
    BY <1>5
  <2>4. /\ DOMAIN functions = 1 .. Len(functions) /\ Len(functions) \in Nat
        /\ DOMAIN mapped = 1 .. Len(mapped) /\ Len(mapped) \in Nat
        /\ \A i \in DOMAIN functions : functions[i] \in Function
    BY <1>1
  <2>5. e[k] \in DOMAIN functions /\ mapped[k] = functions[e[k]]
    BY <2>3, <2>4 DEF Places
  <2>6. ASSUME NEW i \in 1 .. e[k] - 1
        PROVE  functions[i] \in S
    <3>1. i \in DOMAIN functions /\ i < e[k]
      BY <2>4, <2>5
    <3> QED BY <1>6, <2>2, <2>4, <2>5, <3>1
  <2>7. \A l \in DOMAIN mapped : (\A i \in 1 .. e[l] - 1 : functions[i] \in S) => e[l] = l
    <3> HIDE DEF S
    <3> QED BY <2>3, <2>4, PrefixKept
  <2>8. e[k] = k
    BY <2>6, <2>7
  <2>9. functions[k].name = n /\ a[j] = LinkAddress(u, functions[k])
    BY <1>4, <2>1, <2>2, <2>5, <2>8
  <2>10. functions[k] \in ToSet(functions)
    BY <1>1, <2>5, <2>8, ElementOf
  <2> QED BY <1>7, <1>8, <2>9, <2>10 DEF r, a
<1> QED BY <1>3, <1>9, <1>10

(* Nothing that is listed is left out, but a function the other defines.   *)
LEMMA ListedRequested ==
    ASSUME NEW m \in Module, NEW other, NEW g \in Listed(m),
           g.name \notin ToSet(Requested(m, other))
    PROVE  /\ g \in Globals(m)
           /\ ~g.defined
           /\ Defines(other, g.name)
<1> DEFINE variables == ListedVariables(m)
           functions == ListedFunctions(m)
           mapped == Mapped(m, other)
           S == {f \in Function : ~Defines(other, f.name)}
           r == Requested(m, other)
<1>1. variables \in Seq(Variable) /\ functions \in Seq(Function) /\ mapped \in Seq(Function)
  BY ListedElements, RequestedNames
<1>2. /\ r \in Seq(Names)
      /\ Len(r) = Len(variables) + Len(mapped)
      /\ \A i \in DOMAIN variables : r[i] = variables[i].name
      /\ \A i \in DOMAIN mapped : r[Len(variables) + i] = mapped[i].name
  BY RequestedNames
<1>3. \A i \in DOMAIN functions : functions[i] \in Globals(m) /\ ~functions[i].defined
  BY ListedElements
<1>4. \A i \in DOMAIN r : r[i] # g.name
  BY <1>2, ElementOf
<1>5. PICK e : Places(functions, S, Len(functions), mapped, e)
  BY <1>1, SelectedPlaces DEF Mapped
<1>6. g \in ToSet(variables) \/ g \in ToSet(functions)
  BY DEF Listed
<1> HIDE DEF variables, functions, mapped, r
<1>7. /\ DOMAIN variables = 1 .. Len(variables) /\ Len(variables) \in Nat
      /\ DOMAIN functions = 1 .. Len(functions) /\ Len(functions) \in Nat
      /\ DOMAIN mapped = 1 .. Len(mapped) /\ Len(mapped) \in Nat
      /\ DOMAIN r = 1 .. Len(r)
      /\ \A i \in DOMAIN functions : functions[i] \in Function
  BY <1>1, <1>2
<1>8. g \notin ToSet(variables)
  <2> SUFFICES ASSUME NEW i \in DOMAIN variables, variables[i] = g
               PROVE  FALSE
    BY <1>1, ElementOf
  <2>1. i \in DOMAIN r
    BY <1>2, <1>7
  <2> QED BY <1>2, <1>4, <2>1
<1>9. PICK i \in DOMAIN functions : functions[i] = g
  BY <1>1, <1>6, <1>8, ElementOf
<1>10. functions[i] \notin S
  <2> SUFFICES ASSUME functions[i] \in S
               PROVE  FALSE
    OBVIOUS
  <2>1. PICK k \in DOMAIN mapped : e[k] = i
    BY <1>5, <1>7 DEF Places
  <2>2. mapped[k] = g
    BY <1>5, <1>9, <2>1 DEF Places
  <2>3. Len(variables) + k \in DOMAIN r
    BY <1>2, <1>7
  <2> QED BY <1>2, <1>4, <2>2, <2>3
<1> QED BY <1>3, <1>7, <1>9, <1>10

(* A function that the caller's module declares and the leaf's provides is *)
(* linked.                                                                 *)
LEMMA WantedIsNeeded ==
    ASSUME DistinctNames(CallerModule),
           NEW g \in Globals(CallerModule), ~g.defined,
           g.name \in Provided(LeafModule, chain.leaf)
    PROVE  g.name \in Needed
<1>1. g.name \in Wanted(CallerModule)
  BY DEF Wanted
<1>2. g.name \notin Provided(CallerModule, chain.site.fn)
  BY DEF Provided, DistinctNames
<1>3. g.name \in DefinedNames(LeafModule) /\ g.name \in Offered(LeafModule, chain.leaf)
  BY DEF Offered, Provided, DefinedNames
<1>4. g.name \in Missing
  BY <1>2, <1>3 DEF Missing
<1> QED BY <1>1, <1>3, <1>4 DEF Needed

(* What is linked refers to is linked too, if it is missing.               *)
LEMMA NeededIsClosed ==
    ASSUME NEW k \in Needed, NEW n \in RefsOf(LeafModule, k), n \in Missing
    PROVE  n \in Needed
BY DEF Needed

(* The modules of the chain, and what is known of them.                    *)
LEMMA ChainModules ==
    ASSUME RecompileInv, chain # None
    PROVE  /\ chain.unit \in DOMAIN self /\ chain.leafUnit \in DOMAIN self
           /\ CallerModule \in Module /\ LeafModule \in Module
           /\ DistinctNames(CallerModule) /\ DistinctNames(LeafModule)
           /\ self[chain.unit].globals = Addresses(chain.unit, CallerModule)
           /\ self[chain.leafUnit].globals = Addresses(chain.leafUnit, LeafModule)
           /\ \A g \in Globals(CallerModule) \cup Globals(LeafModule) : g.local => g.defined
           /\ \A i \in DOMAIN CallerModule.vars :
                /\ FunctionsNamed(CallerModule, CallerModule.vars[i].name) = {}
                /\ FunctionsNamed(LeafModule, CallerModule.vars[i].name) = {}
           /\ \A i \in DOMAIN LeafModule.vars :
                /\ FunctionsNamed(CallerModule, LeafModule.vars[i].name) = {}
                /\ FunctionsNamed(LeafModule, LeafModule.vars[i].name) = {}
<1>1. chain.unit \in DOMAIN self /\ chain.leafUnit \in DOMAIN self
  BY DEF RecompileInv, ChainInv
<1> QED BY <1>1, SavedModule DEF CallerModule, LeafModule

(* A module of which a function has the name n, which is then no variable's. *)
LEMMA FunctionName ==
    ASSUME RecompileInv, chain # None, NEW n,
           FunctionsNamed(CallerModule, n) # {} \/ FunctionsNamed(LeafModule, n) # {},
           NEW m \in {CallerModule, LeafModule}, NEW g \in Globals(m), g.name = n
    PROVE  g \in FunctionsNamed(m, n)
BY ChainModules DEF Globals, FunctionsNamed

(* A definition in module m that is not local, or is made external.        *)
LEMMA ProvidedName ==
    ASSUME NEW m, NEW fn, NEW n, NEW f \in FunctionsNamed(m, n), f.defined,
           f.local => n = fn
    PROVE  n \in Provided(m, fn)
BY DEF Provided, FunctionsNamed, Globals

(* What is listed in a module is in it.                                    *)
LEMMA ListedFrom ==
    ASSUME NEW m \in Module, NEW g \in Listed(m)
    PROVE  /\ g \in Globals(m)
           /\ \/ \E i \in DOMAIN m.vars : m.vars[i] = g
              \/ g \in ToSet(m.funcs) /\ ~g.defined /\ ~g.intrinsic
<1>1. /\ ListedVariables(m) \in Seq(Variable) /\ ListedFunctions(m) \in Seq(Function)
      /\ m.funcs \in Seq(Function)
  BY ListedElements DEF Module
<1>2. CASE g \in ToSet(ListedVariables(m))
  BY <1>1, <1>2, ElementOf, ListedElements DEF Globals
<1>3. CASE g \in ToSet(ListedFunctions(m))
  <2>1. PICK i \in DOMAIN ListedFunctions(m) : ListedFunctions(m)[i] = g
    BY <1>1, <1>3, ElementOf
  <2>2. PICK k \in DOMAIN m.funcs : m.funcs[k] = g
    BY <2>1, ListedElements
  <2>3. g \in ToSet(m.funcs)
    BY <1>1, <2>2, ElementOf
  <2> QED BY <2>1, <2>2, <2>3, ListedElements DEF Globals
<1> QED BY <1>2, <1>3 DEF Listed

(* What unit u means by n.                                                 *)
LEMMA Meanings ==
    ASSUME RecompileInv, NEW u \in DOMAIN self, NEW n
    PROVE  /\ \A f \in FunctionsNamed(self[u].bitcode, n) :
                f.defined => LinkAddress(u, f) \in Means(u, n)
           /\ \A g \in Listed(self[u].bitcode) : g.name = n => LinkAddress(u, g) \in Means(u, n)
           /\ \A a \in Means(u, n) : \E g \in Globals(self[u].bitcode) :
                /\ g.name = n /\ a = LinkAddress(u, g)
                /\ \/ g \in Listed(self[u].bitcode)
                   \/ g \in FunctionsNamed(self[u].bitcode, n) /\ g.defined
<1> DEFINE m == self[u].bitcode
<1>1. m \in Module
  BY SavedModule
<1>2. ListedFunctions(m) \in Seq(Function) /\ m.funcs \in Seq(Function)
  BY <1>1, ListedElements DEF Module
<1>3. \A g : g \in ToSet(m.funcs) <=> \E i \in DOMAIN m.funcs : m.funcs[i] = g
  BY <1>2, ElementOf
<1>4. Means(u, n) = {LinkAddress(u, g) : g \in {h \in Shared(m) : h.name = n}}
  BY DEF Means
<1> HIDE DEF m
<1>5. \A f \in FunctionsNamed(m, n) : f.defined => f \in Shared(m) /\ f.name = n
  BY <1>3 DEF FunctionsNamed, Shared
<1>6. \A g \in Listed(m) : g \in Shared(m)
  <2> SUFFICES ASSUME NEW g \in Listed(m), g \notin ToSet(ListedVariables(m))
               PROVE  g \in Shared(m)
    BY DEF Shared
  <2>1. PICK i \in DOMAIN ListedFunctions(m) : ListedFunctions(m)[i] = g
    BY <1>2, ElementOf DEF Listed
  <2>2. g \in ToSet(m.funcs) /\ ~g.intrinsic
    BY <1>1, <1>3, <2>1, ListedElements
  <2> QED BY <2>2 DEF Shared
<1>7. ASSUME NEW g \in Shared(m), g.name = n
      PROVE  /\ g \in Globals(m)
             /\ g \in Listed(m) \/ (g \in FunctionsNamed(m, n) /\ g.defined)
  <2>1. CASE g \in ToSet(ListedVariables(m))
    BY <1>1, <2>1, ListedFrom DEF Listed
  <2>2. CASE g \in ToSet(m.funcs) /\ g.defined
    BY <1>3, <1>7, <2>2 DEF FunctionsNamed, Globals
  <2>3. CASE g \in ToSet(m.funcs) /\ ~g.defined /\ ~g.intrinsic
    <3>1. PICK k \in DOMAIN m.funcs : m.funcs[k] = g
      BY <1>3, <2>3
    <3>2. \E i \in DOMAIN ListedFunctions(m) : ListedFunctions(m)[i] = g
      BY <1>1, <2>3, <3>1, ListedElements
    <3>3. g \in Listed(m)
      BY <1>2, <3>2, ElementOf DEF Listed
    <3> QED BY <3>1, <3>3 DEF Globals
  <2> QED BY <2>1, <2>2, <2>3 DEF Shared
<1> QED BY <1>4, <1>5, <1>6, <1>7 DEF m

(* What a definition of n that is linked with a reference is.              *)
LEMMA ProviderDefines ==
    ASSUME RecompileInv, chain # None, NEW u \in {chain.unit, chain.leafUnit}, NEW n,
           NEW w \in Provider(u, n)
    PROVE  /\ w \in {chain.unit, chain.leafUnit}
           /\ \E f \in FunctionsNamed(self[w].bitcode, n) :
                /\ f.defined
                /\ FunctionAddress(w, n) = LinkAddress(w, f)
                /\ FunctionAddress(w, n) \in Means(w, n)
<1>1. w \in {chain.unit, chain.leafUnit} /\ Defines(self[w].bitcode, n)
  BY DEF Provider, OtherUnit
<1>2. PICK f \in FunctionsNamed(self[w].bitcode, n) : f.defined
  BY <1>1 DEF Defines
<1>3. w \in DOMAIN self
  BY <1>1, ChainModules
<1>4. DistinctNames(self[w].bitcode)
  BY <1>3, SavedModule
<1>5. FunctionAddress(w, n) = LinkAddress(w, f)
  BY <1>2, <1>4, OneFunction DEF FunctionAddress
<1>6. LinkAddress(w, f) \in Means(w, n)
  BY <1>2, <1>3, Meanings
<1> QED BY <1>1, <1>2, <1>5, <1>6

(* A reference to a function that its own module defines is linked.        *)
LEMMA OwnIsProvided ==
    ASSUME RecompileInv, chain # None, NEW r \in References,
           Defines(self[r[1]].bitcode, r[2])
    PROVE  Provider(r[1], r[2]) # {}
<1> DEFINE n == r[2]
<1>1. PICK f \in FunctionsNamed(self[r[1]].bitcode, n) : f.defined
  BY DEF Defines
<1>2. CASE r[1] = chain.unit
  <2>1. n \in DefinedNames(CallerModule)
    BY <1>1, <1>2 DEF DefinedNames, CallerModule, FunctionsNamed, Globals
  <2> QED BY <1>2, <2>1 DEF Provider, OwnNames
<1>3. CASE r[1] # chain.unit
  <2>1. PICK k \in Needed : r[1] = chain.leafUnit /\ n \in RefsOf(LeafModule, k)
    BY <1>3 DEF References
  <2>2. n \in DefinedNames(LeafModule)
    BY <1>1, <2>1 DEF DefinedNames, LeafModule, FunctionsNamed, Globals
  <2>3. CASE n \in Needed
    BY <1>3, <2>3 DEF Provider, OwnNames
  <2>4. CASE n \notin Needed
    <3>1. n \notin Missing
      BY <2>1, <2>4, NeededIsClosed
    <3>2. n \in Provided(CallerModule, chain.site.fn)
      BY <2>2, <3>1 DEF Missing
    <3>3. PICK h \in Globals(CallerModule) : h.name = n /\ h.defined
      BY <3>2 DEF Provided
    <3>4. FunctionsNamed(LeafModule, n) # {}
      BY <1>1, <2>1 DEF LeafModule
    <3>5. h \in FunctionsNamed(CallerModule, n)
      BY <3>3, <3>4, FunctionName
    <3>6. Defines(self[chain.unit].bitcode, n)
      BY <3>3, <3>5 DEF Defines, CallerModule
    <3>7. chain.unit \in Provider(r[1], n)
      BY <1>3, <2>4, <3>2, <3>6 DEF Provider, OtherUnit, OwnNames, OtherNames
    <3> QED BY <3>7
  <2> QED BY <2>3, <2>4
<1> QED BY <1>2, <1>3

(* A declaration is linked with the other module's definition, if that is  *)
(* not local.                                                              *)
LEMMA DeclaredIsProvided ==
    ASSUME RecompileInv, chain # None, NEW u \in {chain.unit, chain.leafUnit},
           NEW g \in Globals(self[u].bitcode), ~g.defined,
           NEW f \in FunctionsNamed(self[OtherUnit(u)].bitcode, g.name), f.defined, ~f.local
    PROVE  Provider(u, g.name) # {}
<1> DEFINE n == g.name
<1>1. /\ DistinctNames(CallerModule) /\ DistinctNames(LeafModule)
  BY ChainModules
<1>2. Defines(self[OtherUnit(u)].bitcode, n)
  BY DEF Defines
<1>3. CASE u = chain.unit
  <2>1. n \notin DefinedNames(CallerModule)
    BY <1>1, <1>3 DEF DefinedNames, DistinctNames, CallerModule
  <2>2. n \in Provided(LeafModule, chain.leaf)
    BY <1>3, ProvidedName DEF OtherUnit, LeafModule
  <2>3. n \in Needed
    BY <1>1, <1>3, <2>2, WantedIsNeeded DEF CallerModule
  <2>4. OtherUnit(u) \in Provider(u, n)
    BY <1>2, <1>3, <2>1, <2>2, <2>3 DEF Provider, OwnNames, OtherNames
  <2> QED BY <2>4
<1>4. CASE u # chain.unit
  <2>1. n \notin DefinedNames(LeafModule)
    BY <1>1, <1>4 DEF DefinedNames, DistinctNames, LeafModule
  <2>2. n \notin Needed
    BY <2>1 DEF Needed, Missing
  <2>3. n \in Provided(CallerModule, chain.site.fn)
    BY <1>4, ProvidedName DEF OtherUnit, CallerModule
  <2>4. OtherUnit(u) \in Provider(u, n)
    BY <1>2, <1>4, <2>2, <2>3 DEF Provider, OwnNames, OtherNames
  <2> QED BY <2>4
<1> QED BY <1>3, <1>4

(* What the symbol map has for n is what one of the units lists as n.      *)
LEMMA MapMeaning ==
    ASSUME RecompileInv, chain # None, map = SymbolMap, NEW n \in DOMAIN map, ~Misplaced(n)
    PROVE  \E v \in {chain.unit, chain.leafUnit} : \E h \in Listed(self[v].bitcode) :
                h.name = n /\ map[n] = LinkAddress(v, h)
<1>1. /\ CallerModule \in Module /\ LeafModule \in Module
      /\ self[chain.unit].globals = Addresses(chain.unit, CallerModule)
      /\ self[chain.leafUnit].globals = Addresses(chain.leafUnit, LeafModule)
  BY ChainModules
<1>2. CASE n \in ToSet(CallerRequests)
  <2>1. map[n] = Assigned(CallerRequests, self[chain.unit].globals, n)
    BY <1>2 DEF SymbolMap
  <2>2. ~PassedOver(CallerModule, LeafModule, n)
    BY <1>2 DEF Misplaced
  <2>3. map[n] \in {LinkAddress(chain.unit, g) : g \in {h \in Listed(CallerModule) : h.name = n}}
    BY <1>1, <1>2, <2>1, <2>2, AddressFound DEF CallerRequests
  <2> QED BY <2>3 DEF CallerModule
<1>3. CASE n \notin ToSet(CallerRequests)
  <2>1. /\ n \in ToSet(LeafRequests)
        /\ map[n] = Assigned(LeafRequests, self[chain.leafUnit].globals, n)
    BY <1>3 DEF SymbolMap
  <2>2. ~PassedOver(LeafModule, CallerModule, n)
    BY <1>3 DEF Misplaced
  <2>3. map[n] \in {LinkAddress(chain.leafUnit, g) : g \in {h \in Listed(LeafModule) : h.name = n}}
    BY <1>1, <2>1, <2>2, AddressFound DEF LeafRequests
  <2> QED BY <2>3 DEF LeafModule
<1> QED BY <1>2, <1>3

(* What is neither linked nor in the map is a name for two things.         *)
LEMMA NotLostUnlessCollides ==
    ASSUME RecompileInv, chain # None, map = SymbolMap, NEW r \in SharedReferences,
           Provider(r[1], r[2]) = {}, r[2] \notin DOMAIN map
    PROVE  Collides(r[2])
<1> DEFINE u == r[1]
           n == r[2]
           w == OtherUnit(r[1])
<1>1. u \in {chain.unit, chain.leafUnit} /\ r \in References /\ Means(u, n) # {}
  BY DEF SharedReferences, References
<1>2. /\ u \in DOMAIN self /\ w \in DOMAIN self
      /\ {u, w} = {chain.unit, chain.leafUnit}
      /\ u = chain.unit => self[u].bitcode = CallerModule /\ self[w].bitcode = LeafModule
      /\ u # chain.unit => self[u].bitcode = LeafModule /\ self[w].bitcode = CallerModule
  BY <1>1, ChainModules DEF OtherUnit, CallerModule, LeafModule
<1>3. PICK g \in Globals(self[u].bitcode) :
        /\ g.name = n /\ LinkAddress(u, g) \in Means(u, n)
        /\ \/ g \in Listed(self[u].bitcode)
           \/ g \in FunctionsNamed(self[u].bitcode, n) /\ g.defined
  BY <1>1, <1>2, Meanings
<1>4. ~Defines(self[u].bitcode, n)
  BY <1>1, OwnIsProvided
<1>5. g \in Listed(self[u].bitcode)
  BY <1>3, <1>4 DEF Defines
<1>6. n \notin ToSet(CallerRequests) /\ n \notin ToSet(LeafRequests)
  BY DEF SymbolMap
<1>7. ~g.defined /\ Defines(self[w].bitcode, n)
  <2>1. self[u].bitcode \in Module
    BY <1>2, SavedModule
  <2>2. n \notin ToSet(Requested(self[u].bitcode, self[w].bitcode))
    BY <1>2, <1>6 DEF CallerRequests, LeafRequests
  <2> QED BY <1>3, <1>5, <2>1, <2>2, ListedRequested
<1>8. PICK f \in FunctionsNamed(self[w].bitcode, n) : f.defined
  BY <1>7 DEF Defines
<1>9. f.local
  BY <1>1, <1>3, <1>7, <1>8, DeclaredIsProvided
<1>10. ~g.local
  BY <1>2, <1>7, SavedModule
<1>11. w \in Units
  BY <1>2, SavedModule
<1>12. LinkAddress(u, g) # LinkAddress(w, f)
  BY <1>9, <1>10, <1>11, BitcodeAssumption DEF LinkAddress
<1>13. LinkAddress(w, f) \in Means(w, n)
  BY <1>2, <1>8, Meanings
<1> QED BY <1>2, <1>3, <1>12, <1>13 DEF Collides

(* Every address of recompiled code is the one that the code compiled      *)
(* ahead of time has, but for the three exceptions.                        *)
THEOREM AddressesAgree == Spec => []AddressesExact
<1>1. ASSUME RecompileInv, step = "resolve",
             NEW r \in SharedReferences,
             ~OwnCopy(r[2]), ~Collides(r[2]), ~Misplaced(r[2])
      PROVE  Reached(r[1], r[2]) = Means(r[1], r[2])
  <2> DEFINE u == r[1]
             n == r[2]
             all == Means(chain.unit, n) \cup Means(chain.leafUnit, n)
                        \cup {<<k, Extern>> : k \in Exported \cap {n}}
  <2>1. chain # None /\ map = SymbolMap
    BY <1>1 DEF RecompileInv, ChainInv, MapInv
  <2>2. u \in {chain.unit, chain.leafUnit} /\ Means(u, n) # {}
    BY DEF SharedReferences, References
  <2>3. chain.unit \in DOMAIN self /\ chain.leafUnit \in DOMAIN self
    BY <1>1, <2>1, ChainModules
  <2>4. \A a, b \in all : a = b
    BY <1>1 DEF Collides
  <2>5. Means(u, n) \subseteq all
    BY <2>2
  <2>6. \A a \in all : Means(u, n) = {a}
    <3> HIDE DEF all, u, n
    <3> QED BY <2>2, <2>4, <2>5
  <2>7. CASE Provider(u, n) # {}
    <3>1. \A w \in Provider(u, n) : FunctionAddress(w, n) \in all
      BY <1>1, <2>1, <2>2, ProviderDefines
    <3>2. \A w \in Provider(u, n) : Means(u, n) = {FunctionAddress(w, n)}
      BY <2>6, <3>1
    <3>3. Reached(u, n) = {FunctionAddress(w, n) : w \in Provider(u, n)}
      BY <2>7 DEF Reached
    <3>4. PICK w \in Provider(u, n) : TRUE
      BY <2>7
    <3>5. \A v \in Provider(u, n) : FunctionAddress(v, n) = FunctionAddress(w, n)
      BY <3>2
    <3>6. Reached(u, n) = {FunctionAddress(w, n)}
      BY <3>3, <3>5
    <3> QED BY <3>2, <3>6
  <2>8. CASE Provider(u, n) = {} /\ n \in Exported
    <3>1. <<n, Extern>> \in all
      BY <2>8
    <3>2. Reached(u, n) = {<<n, Extern>>}
      BY <2>8 DEF Reached, Resolve
    <3> QED BY <2>6, <3>1, <3>2
  <2>9. CASE Provider(u, n) = {} /\ n \notin Exported /\ n \in DOMAIN map
    <3>1. PICK v \in {chain.unit, chain.leafUnit} : \E h \in Listed(self[v].bitcode) :
                h.name = n /\ map[n] = LinkAddress(v, h)
      BY <1>1, <2>1, <2>9, MapMeaning
    <3>2. map[n] \in Means(v, n)
      BY <1>1, <2>3, <3>1, Meanings
    <3>3. map[n] \in all
      BY <3>2
    <3>4. Reached(u, n) = {map[n]}
      BY <2>9 DEF Reached, Resolve
    <3> QED BY <2>6, <3>3, <3>4
  <2>10. CASE Provider(u, n) = {} /\ n \notin DOMAIN map
    BY <1>1, <2>1, <2>10, NotLostUnlessCollides
  <2> QED BY <2>7, <2>8, <2>9, <2>10
<1>2. \A n : OwnCopy(n) => Duplicated(n)
  BY DEF OwnCopy, Duplicated
<1>3. RecompileInv => AddressesExact
  BY <1>1, <1>2 DEF AddressesExact, SameAddress
<1> QED BY <1>3, RecompileInvariance, PTL

(* What a unit means by the name of a function that it does not define.    *)
LEMMA DeclaredIsExtern ==
    ASSUME RecompileInv, chain # None, NEW v \in {chain.unit, chain.leafUnit}, NEW n,
           FunctionsNamed(CallerModule, n) # {} \/ FunctionsNamed(LeafModule, n) # {},
           NEW h \in Listed(self[v].bitcode), h.name = n
    PROVE  LinkAddress(v, h) = <<n, Extern>>
<1> DEFINE m == self[v].bitcode
<1>1. /\ v \in DOMAIN self /\ m \in {CallerModule, LeafModule}
  BY ChainModules DEF CallerModule, LeafModule
<1>2. m \in Module /\ \A g \in Globals(m) : g.local => g.defined
  BY <1>1, SavedModule
<1>3. \A i \in DOMAIN m.vars : m.vars[i].name # n
  BY <1>1, ChainModules
<1>4. h \in Globals(m) /\ ~h.defined
  BY <1>2, <1>3, ListedFrom
<1> QED BY <1>2, <1>4 DEF LinkAddress

(* A definition of the other unit is linked because it is not local, or    *)
(* has been made external.                                                 *)
LEMMA OtherProvides ==
    ASSUME RecompileInv, chain # None, NEW u \in {chain.unit, chain.leafUnit}, NEW n,
           NEW w \in Provider(u, n), w # u,
           NEW f \in FunctionsNamed(self[w].bitcode, n), f.local,
           LinkAddress(w, f) \in Means(w, n),
           ~Captured(n)
    PROVE  Means(w, n) = Means(u, n)
<1>1. /\ w = OtherUnit(u) /\ n \in OtherNames(u)
  BY DEF Provider
<1>2. f \in Globals(self[w].bitcode) /\ LinkAddress(w, f) = <<n, w>>
  BY DEF FunctionsNamed, Globals, LinkAddress
<1>3. CASE u = chain.unit
  <2>1. w = chain.leafUnit /\ n \in Provided(LeafModule, chain.leaf)
    BY <1>1, <1>3 DEF OtherUnit, OtherNames
  <2>2. n = chain.leaf
    BY <1>2, <2>1, ChainModules DEF Provided, DistinctNames, LeafModule, FunctionsNamed
  <2> QED BY <1>2, <1>3, <2>1, <2>2 DEF Captured
<1>4. CASE u # chain.unit
  <2>1. w = chain.unit /\ n \in Provided(CallerModule, chain.site.fn)
    BY <1>1, <1>4 DEF OtherUnit, OtherNames
  <2>2. n = chain.site.fn
    BY <1>2, <2>1, ChainModules DEF Provided, DistinctNames, CallerModule, FunctionsNamed
  <2> QED BY <1>2, <1>4, <2>1, <2>2 DEF Captured
<1> QED BY <1>3, <1>4

(* A unit that means its own static n is linked with another one only      *)
(* after its n was made external.                                          *)
LEMMA OwnStaticKept ==
    ASSUME RecompileInv, chain # None, NEW r \in References,
           NEW w \in Provider(r[1], r[2]), w # r[1],
           NEW g \in FunctionsNamed(self[r[1]].bitcode, r[2]), g.local,
           LinkAddress(r[1], g) \in Means(r[1], r[2]),
           ~Captured(r[2])
    PROVE  Means(w, r[2]) = Means(r[1], r[2])
<1> DEFINE u == r[1]
           n == r[2]
<1>1. u \in {chain.unit, chain.leafUnit}
  BY DEF References
<1>2. w = OtherUnit(u) /\ n \notin OwnNames(u)
  BY DEF Provider
<1>3. g \in Globals(self[u].bitcode) /\ g.name = n /\ LinkAddress(u, g) = <<n, u>>
  BY DEF FunctionsNamed, Globals, LinkAddress
<1>4. g.defined
  BY <1>1, <1>3, ChainModules DEF CallerModule, LeafModule
<1>5. u # chain.unit
  BY <1>2, <1>3, <1>4 DEF OwnNames, DefinedNames, CallerModule
<1>6. u = chain.leafUnit /\ w = chain.unit /\ n \notin Needed /\ g \in Globals(LeafModule)
  BY <1>1, <1>2, <1>3, <1>5 DEF OtherUnit, OwnNames, LeafModule
<1>7. PICK k \in Needed : n \in RefsOf(LeafModule, k)
  BY <1>5 DEF References
<1>8. n \notin Missing
  BY <1>6, <1>7, NeededIsClosed
<1>9. n \in DefinedNames(LeafModule)
  BY <1>3, <1>4, <1>6 DEF DefinedNames
<1>10. n \in Offered(LeafModule, chain.leaf)
  BY <1>8, <1>9 DEF Missing
<1>11. \A v \in ToSet(ListedVariables(LeafModule)) : v.name # n
  <2> SUFFICES ASSUME NEW v \in ToSet(ListedVariables(LeafModule)) PROVE v.name # n
    OBVIOUS
  <2>1. LeafModule \in Module
    BY ChainModules
  <2>2. ListedVariables(LeafModule) \in Seq(Variable)
    BY <2>1, ListedElements
  <2>3. PICK i \in DOMAIN ListedVariables(LeafModule) : ListedVariables(LeafModule)[i] = v
    BY <2>2, ElementOf
  <2>4. PICK j \in DOMAIN LeafModule.vars : LeafModule.vars[j] = v
    BY <2>1, <2>3, ListedElements
  <2>5. FunctionsNamed(LeafModule, v.name) = {}
    BY <2>4, ChainModules
  <2> QED BY <1>6, <2>5 DEF LeafModule
<1>12. n \in Provided(LeafModule, chain.leaf)
  BY <1>10, <1>11 DEF Offered
<1>13. n = chain.leaf
  <2>1. PICK h \in Globals(LeafModule) : h.name = n /\ (h.local => h.name = chain.leaf)
    BY <1>12 DEF Provided
  <2>2. h = g
    BY <1>3, <1>6, <2>1, ChainModules DEF DistinctNames
  <2> QED BY <2>1, <2>2
<1> QED BY <1>3, <1>6, <1>13 DEF Captured

(* What recompiled code reaches by the name of a function is what its own  *)
(* unit means by it, however many other units have a function so named,    *)
(* but for the two exceptions.                                             *)
THEOREM StaticsKept == Spec => []StaticsApart
<1>1. ASSUME RecompileInv, step = "resolve",
             NEW r \in SharedReferences,
             FunctionsNamed(self[r[1]].bitcode, r[2]) # {},
             ~Captured(r[2]), ~Misplaced(r[2]),
             NEW x \in Reached(r[1], r[2])
      PROVE  x \in Means(r[1], r[2])
  <2> DEFINE u == r[1]
             n == r[2]
  <2>1. chain # None /\ map = SymbolMap
    BY <1>1 DEF RecompileInv, ChainInv, MapInv
  <2>2. r \in References /\ u \in {chain.unit, chain.leafUnit} /\ Means(u, n) # {}
    BY DEF SharedReferences, References
  <2>3. u \in DOMAIN self /\ self[u].bitcode \in {CallerModule, LeafModule}
    BY <1>1, <2>1, <2>2, ChainModules DEF CallerModule, LeafModule
  <2>4. FunctionsNamed(CallerModule, n) # {} \/ FunctionsNamed(LeafModule, n) # {}
    BY <1>1, <2>3
  <2>5. PICK g \in Globals(self[u].bitcode) :
          /\ g.name = n /\ LinkAddress(u, g) \in Means(u, n)
          /\ g \in Listed(self[u].bitcode) \/ g.defined
    BY <1>1, <2>2, <2>3, Meanings
  <2>6. g \in FunctionsNamed(self[u].bitcode, n)
    BY <1>1, <2>1, <2>3, <2>4, <2>5, FunctionName
  <2>7. CASE Provider(u, n) = {}
    <3>1. ~g.defined
      BY <1>1, <2>1, <2>2, <2>6, <2>7, OwnIsProvided DEF Defines
    <3>2. <<n, Extern>> \in Means(u, n)
      BY <1>1, <2>1, <2>2, <2>4, <2>5, <3>1, DeclaredIsExtern
    <3>3. x \in Resolve(n)
      BY <2>7 DEF Reached
    <3>4. CASE n \in Exported
      BY <3>2, <3>3, <3>4 DEF Resolve
    <3>5. CASE n \in DOMAIN map \ Exported
      <4>1. PICK v \in {chain.unit, chain.leafUnit} : \E h \in Listed(self[v].bitcode) :
                  h.name = n /\ map[n] = LinkAddress(v, h)
        BY <1>1, <2>1, <3>5, MapMeaning
      <4>2. map[n] = <<n, Extern>>
        BY <1>1, <2>1, <2>4, <4>1, DeclaredIsExtern
      <4> QED BY <3>2, <3>3, <3>5, <4>2 DEF Resolve
    <3>6. CASE n \notin Exported /\ n \notin DOMAIN map
      BY <3>3, <3>6 DEF Resolve
    <3> QED BY <3>4, <3>5, <3>6
  <2>8. CASE Provider(u, n) # {}
    <3>1. PICK w \in Provider(u, n) : x = FunctionAddress(w, n)
      BY <2>8 DEF Reached
    <3>2. PICK f \in FunctionsNamed(self[w].bitcode, n) :
            /\ f.defined /\ FunctionAddress(w, n) = LinkAddress(w, f)
            /\ FunctionAddress(w, n) \in Means(w, n)
      BY <1>1, <2>1, <2>2, ProviderDefines
    <3>3. CASE w = u
      BY <3>1, <3>2, <3>3
    <3>4. CASE w # u /\ f.local
      <4>1. Means(w, n) = Means(u, n)
        BY <1>1, <2>1, <2>2, <3>2, <3>4, OtherProvides
      <4> QED BY <3>1, <3>2, <4>1
    <3>5. CASE w # u /\ ~f.local /\ g.local
      <4>1. Means(w, n) = Means(u, n)
        BY <1>1, <2>1, <2>2, <2>5, <2>6, <3>5, OwnStaticKept
      <4> QED BY <3>1, <3>2, <4>1
    <3>6. CASE ~f.local /\ ~g.local
      <4>1. f.name = n
        BY <3>2 DEF FunctionsNamed
      <4>2. LinkAddress(w, f) = LinkAddress(u, g)
        BY <2>5, <3>6, <4>1 DEF LinkAddress
      <4> QED BY <2>5, <3>1, <3>2, <4>2
    <3> QED BY <3>3, <3>4, <3>5, <3>6
  <2> QED BY <2>7, <2>8
<1>2. RecompileInv => StaticsApart
  BY <1>1 DEF StaticsApart
<1> QED BY <1>2, RecompileInvariance, PTL

-----------------------------------------------------------------------------
(* A compilation is what Compilation promises.                             *)

LEMMA NextAddresses ==
    RecompileInv' /\ (chain # None)' =>
        /\ (FunctionAddress(chain.unit, chain.site.fn) \in Code)'
        /\ (FunctionAddress(chain.leafUnit, chain.leaf) \in Code)'
<1>1. RecompileInv /\ chain # None =>
        /\ FunctionAddress(chain.unit, chain.site.fn) \in Code
        /\ FunctionAddress(chain.leafUnit, chain.leaf) \in Code
  BY ChainAddresses
<1> QED BY <1>1, PTL

LEMMA ChainMaps ==
    ASSUME RecompileInv', chain' # None
    PROVE  AbstractChain' \in Contract!Chains
<1>1. chain' \in Chain
  BY DEF RecompileInv, ChainInv
<1>2. /\ FunctionAddress(chain.unit, chain.site.fn)' \in Code
      /\ FunctionAddress(chain.leafUnit, chain.leaf)' \in Code
  BY NextAddresses
<1>3. Numbered' \in BOOLEAN /\ Named' \in BOOLEAN
  BY DEF Numbered, Named
<1> QED BY <1>1, <1>2, <1>3 DEF AbstractChain, Contract!Chains, Chain, Callsite

LEMMA SameChain ==
    ASSUME UNCHANGED <<decorateVars, chain>>
    PROVE  AbstractChain' = AbstractChain
BY SavedKept DEF AbstractChain

LEMMA InitMaps == Init => Contract!Init
BY DEF Init, RuntimeInit, Contract!Init, AbstractPhase, AbstractChain

LEMMA EndMaps ==
    ASSUME NEW locked, EndCompilation(locked)
    PROVE  Contract!Stops(locked)
BY DEF EndCompilation, Goto, Contract!Stops, AbstractPhase, AbstractChain

LEMMA RetargetMaps ==
    ASSUME RecompileInv, Retarget
    PROVE  Contract!Compile
<1> USE DEF Retarget
<1> DEFINE c == IF rewritten = None THEN None
                ELSE [call |-> rewritten.call, leaf |-> rewritten.leaf]
<1>1. chain # None
  BY DEF RecompileInv, ChainInv
<1>2. /\ AbstractPhase = "compile"
      /\ AbstractChain.fn = FunctionAddress(chain.unit, chain.site.fn)
      /\ AbstractChain.call = chain.site.call
      /\ AbstractChain.leaf = FunctionAddress(chain.leafUnit, chain.leaf)
      /\ AbstractChain.pointer = (CallerBody[SitePosition].kind = "pointer")
      /\ AbstractChain.numbered = Numbered
      /\ AbstractChain.named = Named
  BY <1>1 DEF AbstractPhase, AbstractChain
<1>3. c \in Contract!ShortCuts(AbstractChain)
  <2>1. CASE rewritten = None
    BY <1>2, <2>1 DEF Contract!ShortCuts, RecompileInv, RewrittenInv
  <2>2. CASE rewritten # None
    <3>1. /\ rewritten.call \in CallIds /\ rewritten.leaf \in Code
          /\ Numbered => rewritten.call = chain.site.call /\ CallerBody[SitePosition].kind = "pointer"
          /\ Named => rewritten.leaf = FunctionAddress(chain.leafUnit, chain.leaf)
      BY <2>2 DEF RecompileInv, RewrittenInv, Rewritten
    <3>2. c = [call |-> rewritten.call, leaf |-> rewritten.leaf]
      BY <2>2
    <3>3. c # None
      BY <3>1, <3>2, NoneAssumption
    <3>4. c \in [call : IF Numbered THEN {chain.site.call} ELSE CallIds,
                 leaf : IF Named THEN {FunctionAddress(chain.leafUnit, chain.leaf)} ELSE Code]
      BY <3>1, <3>2
    <3> HIDE DEF c
    <3> QED BY <1>2, <3>1, <3>3, <3>4 DEF Contract!ShortCuts
  <2> QED BY <2>1, <2>2
<1>4. Contract!Stops(TRUE)
  BY EndMaps
<1> QED BY <1>2, <1>3, <1>4 DEF Contract!Compile

LEMMA StepMaps ==
    ASSUME RecompileInv, RecompileInv', [Next]_vars
    PROVE  [Contract!Next]_(Contract!vars)
<1> USE DEF Contract!vars, Contract!Next
<1>1. CASE UNCHANGED vars
  BY <1>1, SameChain DEF vars, runtimeVars, AbstractPhase
<1>2. CASE DecorateNext /\ UNCHANGED runtimeVars
  <2>1. chain = None
    BY <1>2, DecorationIsOver DEF RecompileInv
  <2> QED BY <1>2, <2>1 DEF runtimeVars, AbstractPhase, AbstractChain
<1>3. ASSUME NEW u \in Units, NEW w \in Units, NEW n \in TargetNames, NEW s \in callsites[u],
             Discover(u, s, w, n)
      PROVE  Contract!Lock
  <2>1. chain' # None
    BY <1>3 DEF RecompileInv, ChainInv, Discover, Goto
  <2>2. AbstractChain' \in Contract!Chains
    BY <2>1, ChainMaps
  <2> QED BY <1>3, <2>2 DEF Contract!Lock, Discover, Goto, AbstractPhase
<1>4. CASE ReadModules
  BY <1>4, SameChain DEF ReadModules, Goto, AbstractPhase
<1>5. CASE ConstructFails
  BY <1>5, EndMaps DEF ConstructFails, Contract!ConstructFails, AbstractPhase
<1>6. CASE MapGlobals
  BY <1>6, SameChain DEF MapGlobals, Goto, Contract!Construct, AbstractPhase
<1>7. CASE LinkModules \/ LeaveCall \/ (step = "reprocess" /\ \E i \in FoundCall : Rewrite(i))
  BY <1>7, SameChain DEF LinkModules, LeaveCall, Rewrite, Goto, AbstractPhase
<1>8. CASE LinkFails \/ ReprocessFails \/ ResolveFails
  BY <1>8, EndMaps DEF LinkFails, ReprocessFails, ResolveFails, CompileFails,
        Contract!CompileFails, AbstractPhase
<1>9. CASE Retarget
  BY <1>9, RetargetMaps
<1> QED BY <1>1, <1>2, <1>3, <1>4, <1>5, <1>6, <1>7, <1>8, <1>9 DEF Next

(* Whatever the programs, the bitcode and the failures: a compilation      *)
(* gives the function of the chain its own short cut, or leaves the code   *)
(* as it was; only behind inline assembly may it take another call, and    *)
(* only with two functions of the leaf's name may it call the wrong one.   *)
THEOREM CompilesAsPromised == Spec => ImplementsCompilation
<1>1. Init => Contract!Init
  BY InitMaps
<1>2. RecompileInv /\ RecompileInv' /\ [Next]_vars => [Contract!Next]_(Contract!vars)
  BY StepMaps
<1> QED BY <1>1, <1>2, RecompileInvariance, PTL DEF Spec, ImplementsCompilation, Contract!Spec
=============================================================================
