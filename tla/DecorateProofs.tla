--------------------------- MODULE DecorateProofs ---------------------------
(***************************************************************************)
(* Proofs about the decoration pass: for every program, every list of      *)
(* target names and every way the pass may stop, it reports what it has    *)
(* changed, and the numbers it writes into the callsites lead back to      *)
(* their calls in the bitcode it has saved.                                *)
(***************************************************************************)
EXTENDS DecorateModule, FiniteSetTheorems, TLAPS

(* The functions to decorate are still as the compiler handed them over.   *)
TargetsAsInSource(m, u) ==
    \A n \in TargetNames : FunctionsNamed(m, n) = FunctionsNamed(source[u], n)

TypeInv ==
    /\ source \in Programs
    /\ stage \in [Units -> Stages]
    /\ callsites \in [Units -> SUBSET Callsite]
    /\ report \in [Units -> {"none", "unchanged", "changed"}]
    /\ DOMAIN self \subseteq Units
    /\ module = [u \in Units |-> module[u]]

(* How far each unit has come decides what was changed in it.              *)
StageInv(u) ==
    /\ stage[u] \in {"start", "find", "helpers"} => module[u] = source[u]
    /\ stage[u] \in {"lookup", "self"} => module[u] = WithHelpers(source[u])
    /\ stage[u] = "landing" => u \in DOMAIN self

(* What is saved: the module with the inline support in it, which has the  *)
(* functions that the callsites were numbered in, and the addresses of     *)
(* everything that is listed in it.                                        *)
Saved(u) == [bitcode |-> WithHelpers(source[u]), globals |-> Addresses(u, WithHelpers(source[u]))]

SavedInv(u) ==
    /\ u \in DOMAIN self => self[u] = Saved(u)
    /\ callsites[u] # {} => u \in DOMAIN self
    /\ \A s \in callsites[u] : s.fn \in TargetDefinitions(u)

ReportInv(u) == report[u] = "unchanged" => stage[u] = "done" /\ module[u] = source[u]

(* The call that callsite s was made for, in the source.                   *)
FoundInSource(u, s) ==
    LET body == FunctionNamed(source[u], s.fn).body
    IN \E i \in DOMAIN body :
        /\ body[i].id = s.call
        /\ body[i].kind # "asm"
        /\ CallNumber(body, i) = s.number

DecorateInv ==
    /\ TypeInv
    /\ \A u \in Units : StageInv(u) /\ SavedInv(u) /\ ReportInv(u)
    /\ \A u \in Units : \A s \in callsites[u] : FoundInSource(u, s)

-----------------------------------------------------------------------------
(* Counting and collecting calls.                                          *)

LEMMA CallNumberNat ==
    ASSUME NEW body, NEW i \in Nat
    PROVE  CallNumber(body, i) \in Nat
<1>1. IsFiniteSet(1 .. i - 1)
  BY FS_Interval
<1>2. IsFiniteSet({j \in 1 .. i - 1 : body[j].kind # "asm"})
  BY <1>1, FS_Subset
<1> QED BY <1>2, FS_CardinalityType DEF CallNumber

LEMMA TargetInModule ==
    ASSUME NEW m \in Module, NEW n, FunctionsNamed(m, n) # {}
    PROVE  /\ FunctionNamed(m, n) \in Function
           /\ FunctionNamed(m, n) \in FunctionsNamed(m, n)
           /\ \E k \in DOMAIN m.funcs : FunctionNamed(m, n) = m.funcs[k]
<1>1. FunctionNamed(m, n) \in FunctionsNamed(m, n)
  BY DEF FunctionNamed
<1>2. PICK k \in DOMAIN m.funcs : FunctionNamed(m, n) = m.funcs[k]
  BY <1>1 DEF FunctionsNamed
<1>3. m.funcs \in Seq(Function)
  BY DEF Module
<1>4. m.funcs[k] \in Function
  BY <1>3
<1> QED BY <1>1, <1>2, <1>4

LEMMA BodyOfTarget ==
    ASSUME TypeInv, NEW u \in Units, NEW n, FunctionsNamed(source[u], n) # {}
    PROVE  FunctionNamed(source[u], n).body \in Seq(Call)
<1>1. source[u] \in Module
  BY DecorateAssumption DEF TypeInv
<1>2. FunctionNamed(source[u], n) \in Function
  BY <1>1, TargetInModule
<1> QED BY <1>2 DEF Function

(* What is collected from a function that is as it was in the source.      *)
LEMMA CollectedFound ==
    ASSUME TypeInv, NEW u \in Units, NEW n \in TargetDefinitions(u),
           FunctionNamed(module[u], n).body = FunctionNamed(source[u], n).body,
           NEW s \in CollectCalls(u, n)
    PROVE  s \in Callsite /\ s.fn = n /\ FoundInSource(u, s)
<1> DEFINE body == FunctionNamed(source[u], n).body
<1>1. n \in Names /\ FunctionsNamed(source[u], n) # {}
  BY DecorateAssumption DEF TargetDefinitions, TargetFunctions
<1>2. body \in Seq(Call)
  BY <1>1, BodyOfTarget
<1>3. PICK i \in DOMAIN body :
        /\ IsCollected(u, body[i])
        /\ s = [fn |-> n, number |-> CallNumber(body, i), call |-> body[i].id]
  BY DEF CollectCalls
<1>4. i \in Nat /\ body[i] \in Call
  BY <1>2
<1>5. CallNumber(body, i) \in Nat
  BY <1>4, CallNumberNat
<1>6. s \in Callsite
  BY <1>1, <1>3, <1>4, <1>5 DEF Callsite, Call
<1>7. FoundInSource(u, s)
  BY <1>3 DEF FoundInSource, IsCollected
<1> QED BY <1>3, <1>6, <1>7

(* The elements of two sequences put together.                             *)
LEMMA ConcatElements ==
    ASSUME NEW S, NEW a \in Seq(S), NEW b \in Seq(S)
    PROVE  /\ \A i \in DOMAIN a : i \in DOMAIN (a \o b) /\ (a \o b)[i] = a[i]
           /\ \A i \in DOMAIN (a \o b) :
                \/ i \in DOMAIN a /\ (a \o b)[i] = a[i]
                \/ i - Len(a) \in DOMAIN b /\ (a \o b)[i] = b[i - Len(a)]
<1>1. /\ Len(a) \in Nat /\ DOMAIN a = 1 .. Len(a)
      /\ Len(b) \in Nat /\ DOMAIN b = 1 .. Len(b)
  OBVIOUS
<1>2. DOMAIN (a \o b) = 1 .. Len(a) + Len(b)
  OBVIOUS
<1>3. \A i \in DOMAIN (a \o b) : (a \o b)[i] = IF i <= Len(a) THEN a[i] ELSE b[i - Len(a)]
  OBVIOUS
<1> QED BY <1>1, <1>2, <1>3

LEMMA HelpersLinked ==
    ASSUME NEW m \in Module
    PROVE  /\ WithHelpers(m) \in Module
           /\ WithHelpers(m).vars = m.vars \o Helpers.vars
           /\ WithHelpers(m).funcs = m.funcs \o Helpers.funcs
<1>1. /\ m.vars \in Seq(Variable) /\ Helpers.vars \in Seq(Variable)
      /\ m.funcs \in Seq(Function) /\ Helpers.funcs \in Seq(Function)
  BY DecorateAssumption DEF Module
<1>2. /\ m.vars \o Helpers.vars \in Seq(Variable)
      /\ m.funcs \o Helpers.funcs \in Seq(Function)
  <2> HIDE DEF Module
  <2> QED BY <1>1
<1> DEFINE v == m.vars \o Helpers.vars
           f == m.funcs \o Helpers.funcs
<1>3. WithHelpers(m) = [m EXCEPT !.vars = v, !.funcs = f]
  BY DEF WithHelpers
<1> HIDE DEF v, f
<1>4. v \in Seq(Variable) /\ f \in Seq(Function)
  BY <1>2 DEF v, f
<1>5. /\ WithHelpers(m) \in Module
      /\ WithHelpers(m).vars = v
      /\ WithHelpers(m).funcs = f
  BY <1>3, <1>4 DEF Module
<1> QED BY <1>5 DEF v, f

(* Linking the helpers adds no function with the name of a target.         *)
LEMMA LinkedHelpers ==
    ASSUME NEW m \in Module, NEW n \in TargetNames
    PROVE  FunctionsNamed(WithHelpers(m), n) = FunctionsNamed(m, n)
<1> DEFINE l == WithHelpers(m)
<1>0. l.funcs = m.funcs \o Helpers.funcs
  BY HelpersLinked
<1> HIDE DEF l
<1>1. m.funcs \in Seq(Function) /\ Helpers.funcs \in Seq(Function)
  BY DecorateAssumption DEF Module
<1> DEFINE a == m.funcs
           b == Helpers.funcs
<1>2. /\ \A i \in DOMAIN a : i \in DOMAIN (a \o b) /\ (a \o b)[i] = a[i]
      /\ \A i \in DOMAIN (a \o b) :
            \/ i \in DOMAIN a /\ (a \o b)[i] = a[i]
            \/ i - Len(a) \in DOMAIN b /\ (a \o b)[i] = b[i - Len(a)]
  BY <1>1, ConcatElements
<1>3. \A i \in DOMAIN b : b[i].name # n
  BY HelperNamesAssumption DEF FunctionsNamed
<1>4. \A f : (\E i \in DOMAIN (a \o b) : f = (a \o b)[i] /\ f.name = n)
             <=> (\E i \in DOMAIN a : f = a[i] /\ f.name = n)
  <2> HIDE DEF a, b
  <2> QED BY <1>2, <1>3
<1>5. FunctionsNamed(l, n) = FunctionsNamed(m, n)
  BY <1>0, <1>4 DEF FunctionsNamed
<1> QED BY <1>5 DEF l

LEMMA SavedTargets ==
    ASSUME DecorateInv, NEW u \in Units
    PROVE  /\ source[u] \in Module
           /\ TargetsAsInSource(WithHelpers(source[u]), u)
           /\ u \in DOMAIN self => TargetsAsInSource(self[u].bitcode, u)
<1>1. source[u] \in Module
  BY DecorateAssumption DEF DecorateInv, TypeInv
<1>2. TargetsAsInSource(WithHelpers(source[u]), u)
  BY <1>1, LinkedHelpers DEF TargetsAsInSource
<1>3. u \in DOMAIN self => self[u].bitcode = WithHelpers(source[u])
  <2>1. u \in DOMAIN self => self[u] = Saved(u)
    BY DEF DecorateInv, SavedInv
  <2>2. Saved(u).bitcode = WithHelpers(source[u])
    BY DEF Saved
  <2> QED BY <2>1, <2>2
<1> QED BY <1>1, <1>2, <1>3

-----------------------------------------------------------------------------
(* One unit takes a step: what the invariant says of the others stays.     *)

LEMMA StepOfOne ==
    ASSUME DecorateInv, TypeInv', source' = source, NEW u \in Units,
           \A v \in Units \ {u} :
                /\ stage'[v] = stage[v] /\ module'[v] = module[v]
                /\ callsites'[v] = callsites[v] /\ report'[v] = report[v]
                /\ v \in DOMAIN self' <=> v \in DOMAIN self
                /\ v \in DOMAIN self => self'[v] = self[v],
           StageInv(u)', SavedInv(u)', ReportInv(u)',
           \A s \in callsites'[u] : FoundInSource(u, s)
    PROVE  DecorateInv'
<1>1. \A v \in Units : \A s \in callsites'[v] : FoundInSource(v, s)
  BY DEF DecorateInv
<1>2. \A v \in Units : \A s \in callsites'[v] : FoundInSource(v, s)'
  BY <1>1 DEF FoundInSource
<1>3. \A v \in Units \ {u} : StageInv(v)' /\ SavedInv(v)' /\ ReportInv(v)'
  BY DEF DecorateInv, StageInv, SavedInv, Saved, ReportInv,
         TargetDefinitions, TargetFunctions
<1> QED BY <1>2, <1>3 DEF DecorateInv

(* The steps that only go on, or stop.                                     *)
LEMMA Proceeds ==
    ASSUME DecorateInv, NEW u \in Units, NEW next \in Stages,
           Advance(u, next), UNCHANGED <<source, module, self, callsites>>,
           report' \in [Units -> {"none", "unchanged", "changed"}],
           \A v \in Units \ {u} : report'[v] = report[v],
           stage'[u] = next,
           StageInv(u)', ReportInv(u)'
    PROVE  DecorateInv'
<1>1. TypeInv'
  BY DEF DecorateInv, TypeInv, Advance
<1>2. SavedInv(u)'
  BY DEF DecorateInv, SavedInv, Saved, TargetDefinitions, TargetFunctions
<1>3. \A s \in callsites'[u] : FoundInSource(u, s)
  BY DEF DecorateInv
<1>4. \A v \in Units \ {u} : stage'[v] = stage[v]
  BY DEF DecorateInv, TypeInv, Advance
<1> QED BY <1>1, <1>2, <1>3, <1>4, StepOfOne

LEMMA Goes ==
    ASSUME DecorateInv, NEW u \in Units, NEW next \in Stages,
           stage[u] # "done",
           Advance(u, next), UNCHANGED <<source, module, self, callsites, report>>,
           StageInv(u)'
    PROVE  DecorateInv'
<1>1. stage'[u] = next
  BY DEF DecorateInv, TypeInv, Advance
<1>2. report[u] # "unchanged"
  BY DEF DecorateInv, ReportInv
<1>3. ReportInv(u)'
  BY <1>2 DEF ReportInv
<1>4. report' \in [Units -> {"none", "unchanged", "changed"}]
  BY DEF DecorateInv, TypeInv
<1> QED BY <1>1, <1>3, <1>4, Proceeds

LEMMA Stops ==
    ASSUME DecorateInv, NEW u \in Units, NEW changed \in BOOLEAN,
           Stop(u, changed), ~changed => module[u] = source[u]
    PROVE  DecorateInv'
<1> USE DEF Stop
<1>1. stage'[u] = "done" /\ "done" \in Stages
  BY DEF DecorateInv, TypeInv, Advance, Stages
<1>2. /\ report' \in [Units -> {"none", "unchanged", "changed"}]
      /\ \A v \in Units \ {u} : report'[v] = report[v]
      /\ report'[u] = IF changed THEN "changed" ELSE "unchanged"
  BY DEF DecorateInv, TypeInv
<1>3. StageInv(u)'
  BY <1>1 DEF StageInv
<1>4. ReportInv(u)'
  BY <1>1, <1>2 DEF ReportInv
<1> QED BY <1>1, <1>2, <1>3, <1>4, Proceeds

-----------------------------------------------------------------------------
(* One lemma for each action that changes more than the stage.             *)

LEMMA AddHelpersOK ==
    ASSUME DecorateInv, NEW u \in Units, AddHelpers(u)
    PROVE  DecorateInv'
<1> USE DEF AddHelpers
<1>1. source[u] \in Module /\ module[u] \in Module /\ module[u] = source[u]
  BY DecorateAssumption DEF DecorateInv, TypeInv, StageInv
<1>2. /\ module'[u] = WithHelpers(source[u])
      /\ \A v \in Units \ {u} : module'[v] = module[v]
      /\ module' = [v \in Units |-> module'[v]]
  <2>1. module = [v \in Units |-> module[v]]
    BY DEF DecorateInv, TypeInv
  <2> DEFINE l == WithHelpers(source[u])
  <2>2. module' = [module EXCEPT ![u] = l]
    BY <1>1
  <2> HIDE DEF l
  <2>3. /\ module'[u] = l
        /\ \A v \in Units \ {u} : module'[v] = module[v]
        /\ module' = [v \in Units |-> module'[v]]
    BY <2>1, <2>2
  <2> QED BY <2>3 DEF l
<1>4. TypeInv'
  BY <1>2 DEF DecorateInv, TypeInv, Advance, Stages
<1>5. stage'[u] = "lookup" /\ \A v \in Units \ {u} : stage'[v] = stage[v]
  BY DEF DecorateInv, TypeInv, Advance
<1>6. StageInv(u)'
  BY <1>2, <1>5 DEF StageInv
<1>7. SavedInv(u)'
  BY DEF DecorateInv, SavedInv, Saved, TargetDefinitions, TargetFunctions
<1>8. ReportInv(u)'
  BY DEF DecorateInv, ReportInv
<1>9. \A s \in callsites'[u] : FoundInSource(u, s)
  BY DEF DecorateInv
<1> QED BY <1>2, <1>4, <1>5, <1>6, <1>7, <1>8, <1>9, StepOfOne

LEMMA CreateSelfOK ==
    ASSUME DecorateInv, NEW u \in Units, CreateSelf(u)
    PROVE  DecorateInv'
<1> USE DEF CreateSelf
<1>1. module[u] = WithHelpers(source[u])
  BY DEF DecorateInv, StageInv
<1>2. /\ DOMAIN self' = DOMAIN self \cup {u}
      /\ self'[u] = Saved(u)
      /\ \A v \in DOMAIN self \ {u} : self'[v] = self[v]
  BY <1>1 DEF DecorateInv, TypeInv, Saved, CollectGlobals
<1>3. TypeInv'
  BY <1>2 DEF DecorateInv, TypeInv, Advance, Stages
<1>4. stage'[u] = "landing" /\ \A v \in Units \ {u} : stage'[v] = stage[v]
  BY DEF DecorateInv, TypeInv, Advance
<1>5. StageInv(u)'
  BY <1>2, <1>4 DEF StageInv
<1>6. SavedInv(u)'
  BY <1>2 DEF DecorateInv, SavedInv, Saved, TargetDefinitions, TargetFunctions
<1>7. ReportInv(u)'
  BY DEF DecorateInv, ReportInv
<1>8. \A s \in callsites'[u] : FoundInSource(u, s)
  BY DEF DecorateInv
<1> QED BY <1>2, <1>3, <1>4, <1>5, <1>6, <1>7, <1>8, StepOfOne

LEMMA AddLandingOK ==
    ASSUME DecorateInv, NEW u \in Units, NEW n \in TargetNames, AddLanding(u, n)
    PROVE  DecorateInv'
<1> USE DEF AddLanding
<1>1. /\ n \in TargetDefinitions(u)
      /\ FunctionNamed(module[u], n).body = FunctionNamed(source[u], n).body
  BY DEF Undecorated
<1>2. \A s \in CollectCalls(u, n) : s \in Callsite /\ s.fn = n /\ FoundInSource(u, s)
  BY <1>1, CollectedFound DEF DecorateInv
<1>3. /\ callsites'[u] = callsites[u] \cup CollectCalls(u, n)
      /\ \A v \in Units \ {u} : callsites'[v] = callsites[v]
      /\ callsites' \in [Units -> SUBSET Callsite]
  BY <1>2 DEF DecorateInv, TypeInv
<1>4. /\ \A v \in Units \ {u} : module'[v] = module[v]
      /\ module' = [v \in Units |-> module'[v]]
  <2>1. \E l : module' = [module EXCEPT ![u] = l]
    OBVIOUS
  <2>2. module = [v \in Units |-> module[v]]
    BY DEF DecorateInv, TypeInv
  <2> QED BY <2>1, <2>2
<1>5. TypeInv'
  BY <1>3, <1>4 DEF DecorateInv, TypeInv
<1>6. StageInv(u)'
  BY DEF DecorateInv, StageInv
<1>7. SavedInv(u)'
  BY <1>1, <1>2, <1>3 DEF DecorateInv, SavedInv, Saved, StageInv,
        TargetDefinitions, TargetFunctions
<1>8. ReportInv(u)'
  BY DEF DecorateInv, ReportInv
<1>9. \A s \in callsites'[u] : FoundInSource(u, s)
  BY <1>2, <1>3 DEF DecorateInv
<1> QED BY <1>3, <1>4, <1>5, <1>6, <1>7, <1>8, <1>9, StepOfOne

-----------------------------------------------------------------------------

LEMMA DecorateInitOK == DecorateInit => DecorateInv
<1> SUFFICES ASSUME DecorateInit PROVE DecorateInv
  OBVIOUS
<1> USE DEF DecorateInit
<1>1. source \in [Units -> Module]
  BY DecorateAssumption
<1>2. TypeInv
  BY <1>1 DEF TypeInv, Stages
<1>3. \A u \in Units : StageInv(u) /\ SavedInv(u) /\ ReportInv(u)
  BY DEF StageInv, SavedInv, ReportInv
<1> QED BY <1>2, <1>3 DEF DecorateInv

LEMMA DecorateStepOK ==
    ASSUME DecorateInv, [DecorateNext]_decorateVars
    PROVE  DecorateInv'
<1>1. CASE UNCHANGED decorateVars
  BY <1>1 DEF decorateVars, DecorateInv, TypeInv, StageInv, SavedInv, Saved, ReportInv,
        FoundInSource, TargetDefinitions, TargetFunctions
<1>2. ASSUME NEW u \in Units, RunOnModule(u)
      PROVE  DecorateInv'
  <2>1. stage[u] \in {"start", "find", "helpers"} => module[u] = source[u]
    BY DEF DecorateInv, StageInv
  <2>2. CASE SkipForeign(u)
    BY <2>1, <2>2, Stops DEF SkipForeign
  <2>3. CASE Begin(u)
    <3>1. stage'[u] = "find"
      BY <2>3 DEF Begin, Advance, DecorateInv, TypeInv
    <3>2. StageInv(u)'
      BY <2>1, <2>3, <3>1 DEF Begin, StageInv
    <3> QED BY <2>3, <3>2, Goes DEF Begin, Stages
  <2>4. CASE FindNothing(u)
    BY <2>1, <2>4, Stops DEF FindNothing
  <2>5. CASE FindTargets(u)
    <3>1. stage'[u] = "helpers"
      BY <2>5 DEF FindTargets, Advance, DecorateInv, TypeInv
    <3>2. StageInv(u)'
      BY <2>1, <2>5, <3>1 DEF FindTargets, StageInv
    <3> QED BY <2>5, <3>2, Goes DEF FindTargets, Stages
  <2>6. CASE AddHelpers(u)
    BY <2>6, AddHelpersOK
  <2>7. CASE AddHelpersFails(u)
    BY <2>1, <2>7, Stops DEF AddHelpersFails
  <2>8. CASE LookupHelpers(u)
    <3>1. stage'[u] = "self"
      BY <2>8 DEF LookupHelpers, Advance, DecorateInv, TypeInv
    <3>2. StageInv(u)'
      BY <2>8, <3>1 DEF LookupHelpers, DecorateInv, StageInv
    <3> QED BY <2>8, <3>2, Goes DEF LookupHelpers, Stages
  <2>9. CASE LookupFails(u)
    BY <2>9, Stops DEF LookupFails
  <2>10. CASE CreateSelf(u)
    BY <2>10, CreateSelfOK
  <2>11. CASE \E n \in TargetNames : AddLanding(u, n)
    BY <2>11, AddLandingOK
  <2>12. CASE Finish(u)
    BY <2>12, Stops DEF Finish
  <2> QED
    BY <1>2, <2>2, <2>3, <2>4, <2>5, <2>6, <2>7, <2>8, <2>9, <2>10, <2>11, <2>12 DEF RunOnModule
<1> QED BY <1>1, <1>2 DEF DecorateNext

(* The inductive invariant: how far a unit has come decides what of it is  *)
(* still as in the source, the saved bitcode has the target functions as   *)
(* they were, and callsites are found in them.                             *)
THEOREM DecorateInvariance == DecorateSpec => []DecorateInv
<1>1. DecorateInit => DecorateInv
  BY DecorateInitOK
<1>2. DecorateInv /\ [DecorateNext]_decorateVars => DecorateInv'
  BY DecorateStepOK
<1> QED BY <1>1, <1>2, PTL DEF DecorateSpec

(* A callsite that is found in the source is found in the saved bitcode.   *)
LEMMA SavedAsCounted ==
    ASSUME DecorateInv
    PROVE  CallsitesFoundInSelf
<1> SUFFICES ASSUME NEW u \in Units, NEW s \in callsites[u]
             PROVE  /\ u \in DOMAIN self
                    /\ LET body == FunctionNamed(self[u].bitcode, s.fn).body
                       IN \E i \in DOMAIN body :
                            /\ body[i].id = s.call
                            /\ body[i].kind # "asm"
                            /\ CallNumber(body, i) = s.number
  BY DEF CallsitesFoundInSelf
<1>1. u \in DOMAIN self /\ TargetsAsInSource(self[u].bitcode, u) /\ s.fn \in TargetDefinitions(u)
  BY SavedTargets DEF DecorateInv, SavedInv
<1>2. FunctionNamed(self[u].bitcode, s.fn) = FunctionNamed(source[u], s.fn)
  BY <1>1 DEF TargetsAsInSource, TargetDefinitions, TargetFunctions, FunctionNamed
<1>3. FoundInSource(u, s)
  BY DEF DecorateInv
<1> QED BY <1>1, <1>2, <1>3 DEF FoundInSource
=============================================================================
