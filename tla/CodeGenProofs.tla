--------------------------- MODULE CodeGenProofs ---------------------------
(***************************************************************************)
(* What holds of the code generator for every function, every layout and   *)
(* every history of libraries: the registry's list and its owners agree;   *)
(* what the emitter makes of a function, rewritten or not, is a behaviour  *)
(* of Stash, so that the theorems about Stash hold for it; and a call that *)
(* a decorated callee recognises has its own node in r14.                  *)
(***************************************************************************)
EXTENDS CodeGen, StashProofs, SelectionProofs

(* No two objects own the same callback, and none owns a callback that has *)
(* not been registered yet.                                                *)
RegistryInv ==
    /\ counter \in Nat
    /\ held \in [Registrars -> Nat \cup {NoObject}]
    /\ constructed \in BOOLEAN
    /\ \A r \in Registrars : held[r] \in Nat => held[r] <= counter
    /\ \A r, q \in Registrars : held[r] \in Nat \ {0} /\ held[r] = held[q] => r = q
    /\ \A e \in extensions :
        /\ e.id \in Nat \ {0}
        /\ e.callback \in Callbacks
        /\ \E r \in Registrars : held[r] = e.id
    /\ ~constructed => extensions = {}

(* At first nothing is registered.                                         *)
LEMMA RegistryInitial == RegistryInit => RegistryInv
<1> SUFFICES ASSUME RegistryInit
             PROVE  RegistryInv
  OBVIOUS
<1>1. \A r \in Registrars : held[r] = NoObject /\ held[r] \notin Nat
  BY RegistryAssumption DEF RegistryInit
<1>2. held \in [Registrars -> Nat \cup {NoObject}]
  BY DEF RegistryInit
<1> QED
  BY <1>1, <1>2 DEF RegistryInit, RegistryInv

(* A registration takes a number that no object owns.                      *)
LEMMA RegisterKeeps ==
    ASSUME RegistryInv, NEW r \in Registrars, NEW c \in Callbacks, Register(r, c)
    PROVE  RegistryInv'
<1> DEFINE new == [callback |-> c, id |-> counter + 1]
<1>1. /\ counter' = counter + 1
      /\ counter' \in Nat \ {0}
      /\ constructed' = TRUE
      /\ extensions' = extensions \cup {new}
      /\ held' = [held EXCEPT ![r] = counter + 1]
      /\ held[r] = NoObject
  BY DEF RegistryInv, Register, AddExtension
<1>2. held' \in [Registrars -> Nat \cup {NoObject}]
  BY <1>1 DEF RegistryInv
<1>3. \A q \in Registrars : held'[q] = IF q = r THEN counter + 1 ELSE held[q]
  BY <1>1 DEF RegistryInv
<1>4. \A q \in Registrars : held[q] # counter + 1
  BY <1>1 DEF RegistryInv
<1>5. \A q, s \in Registrars : held'[q] \in Nat \ {0} /\ held'[q] = held'[s] => q = s
  BY <1>3, <1>4 DEF RegistryInv
<1>6. ASSUME NEW e \in extensions
      PROVE  /\ e.id \in Nat \ {0}
             /\ e.callback \in Callbacks
             /\ \E q \in Registrars : held'[q] = e.id
  <2>1. PICK q \in Registrars : held[q] = e.id
    BY DEF RegistryInv
  <2>2. q # r
    BY <1>1, <2>1, RegistryAssumption DEF RegistryInv
  <2> QED
    BY <1>3, <2>1, <2>2 DEF RegistryInv
<1>7. new.id = counter + 1 /\ new.callback = c
  OBVIOUS
<1>8. (\A e \in extensions : /\ e.id \in Nat \ {0}
                             /\ e.callback \in Callbacks
                             /\ \E q \in Registrars : held[q] = e.id)'
  <2> HIDE DEF new
  <2> QED
    BY <1>1, <1>3, <1>6, <1>7
<1>9. \A q \in Registrars : held'[q] \in Nat => held'[q] <= counter'
  BY <1>1, <1>3 DEF RegistryInv
<1> QED
  BY <1>1, <1>2, <1>5, <1>8, <1>9 DEF RegistryInv

(* A move leaves the number with one of the two objects.                   *)
LEMMA MoveKeeps ==
    ASSUME RegistryInv, NEW r \in Registrars, NEW q \in Registrars, Move(r, q)
    PROVE  RegistryInv'
<1>1. /\ UNCHANGED <<counter, constructed, extensions>>
      /\ held' = [held EXCEPT ![q] = held[r], ![r] = 0]
      /\ held[r] # NoObject
      /\ held[q] = NoObject
      /\ r # q
  BY DEF Move, Moved
<1>2. \A s \in Registrars :
        held'[s] = IF s = r THEN 0 ELSE IF s = q THEN held[r] ELSE held[s]
  BY <1>1 DEF RegistryInv
<1>3. held' \in [Registrars -> Nat \cup {NoObject}]
  BY <1>1 DEF RegistryInv
<1>4. \A s \in Registrars : held'[s] \in Nat => held'[s] <= counter
  BY <1>1, <1>2 DEF RegistryInv
<1>5. \A s, t \in Registrars : held'[s] \in Nat \ {0} /\ held'[s] = held'[t] => s = t
  BY <1>1, <1>2, RegistryAssumption DEF RegistryInv
<1>6. ASSUME NEW e \in extensions
      PROVE  \E s \in Registrars : held'[s] = e.id
  <2>1. PICK s \in Registrars : held[s] = e.id /\ e.id \in Nat \ {0}
    BY DEF RegistryInv
  <2>2. CASE s = r
    BY <1>1, <1>2, <2>1, <2>2
  <2>3. CASE s # r
    BY <1>1, <1>2, <2>1, <2>3, RegistryAssumption
  <2> QED
    BY <2>2, <2>3
<1> QED
  BY <1>1, <1>3, <1>4, <1>5, <1>6 DEF RegistryInv

(* A destruction takes the callback of its own object.                     *)
LEMMA DestroyKeeps ==
    ASSUME RegistryInv, NEW r \in Registrars, Destroy(r)
    PROVE  RegistryInv'
<1>1. /\ UNCHANGED <<counter, constructed>>
      /\ held' = [held EXCEPT ![r] = NoObject]
      /\ held[r] # NoObject
  BY DEF Destroy
<1>2. \A s \in Registrars : held'[s] = IF s = r THEN NoObject ELSE held[s]
  BY <1>1 DEF RegistryInv
<1>3. held' \in [Registrars -> Nat \cup {NoObject}]
  BY <1>1 DEF RegistryInv
<1>4. extensions' \subseteq {e \in extensions : e.id # held[r]}
  BY DEF Destroy, RemoveExtension, RegistryInv
<1>5. ASSUME NEW e \in extensions'
      PROVE  /\ e.id \in Nat \ {0}
             /\ e.callback \in Callbacks
             /\ \E s \in Registrars : held'[s] = e.id
  BY <1>2, <1>4 DEF RegistryInv
<1>6. \A s \in Registrars : held'[s] \in Nat => held'[s] <= counter
  BY <1>2, RegistryAssumption DEF RegistryInv
<1>7. \A s, t \in Registrars : held'[s] \in Nat \ {0} /\ held'[s] = held'[t] => s = t
  BY <1>2, RegistryAssumption DEF RegistryInv
<1> QED
  BY <1>1, <1>3, <1>4, <1>5, <1>6, <1>7 DEF RegistryInv

(* So whatever happens to the registry keeps its invariant.                *)
LEMMA RegistryStep == RegistryInv /\ [RegistryNext]_registryVars => RegistryInv'
<1> SUFFICES ASSUME RegistryInv, [RegistryNext]_registryVars
             PROVE  RegistryInv'
  OBVIOUS
<1>1. ASSUME NEW r \in Registrars, NEW c \in Callbacks, Register(r, c)
      PROVE  RegistryInv'
  BY <1>1, RegisterKeeps
<1>2. ASSUME NEW r \in Registrars, NEW q \in Registrars, Move(r, q)
      PROVE  RegistryInv'
  BY <1>2, MoveKeeps
<1>3. ASSUME NEW r \in Registrars, Destroy(r)
      PROVE  RegistryInv'
  BY <1>3, DestroyKeeps
<1>4. ASSUME Shutdown
      PROVE  RegistryInv'
  BY <1>4 DEF Shutdown, RegistryInv
<1>5. CASE UNCHANGED registryVars
  BY <1>5 DEF registryVars, RegistryInv
<1> QED
  BY <1>1, <1>2, <1>3, <1>4, <1>5 DEF RegistryNext

-----------------------------------------------------------------------------
(* Every step of the compiler is a step of the registry or leaves it.      *)
LEMMA RegistryOfStep == [Next]_vars => [RegistryNext]_registryVars
BY DEF Next, vars, Library, StartCompiler, AddMachinePasses, StartPasses,
       RunOnMachineFunction, FinishPass, RunOtherPass, StartEmitter, EmitInstruction,
       EmitPlainCall, EmitSink, EmitterFails, NextBlock, FinishEmitter,
       EmitterStep

(* The lengths are those of a layout, whatever the function.               *)
LayoutOK == layout \in Layouts

(* Each length in a layout is one that Stash knows.                        *)
LEMMA LayoutLengths ==
    ASSUME LayoutOK
    PROVE  /\ layout.plain \in Lengths /\ layout.call \in Lengths
           /\ layout.decorated \in Lengths /\ layout.jump \in Lengths
BY CodeGenAssumption DEF LayoutOK

(* The layout is chosen at the beginning and stays.                        *)
LEMMA LayoutStep == LayoutOK /\ [Next]_vars => LayoutOK'
BY DEF LayoutOK, Next, vars, codeGenVars, Library, StartCompiler, AddMachinePasses, StartPasses,
       RunOnMachineFunction, FinishPass, RunOtherPass, StartEmitter, EmitInstruction,
       EmitPlainCall, EmitSink, EmitterFails, NextBlock, FinishEmitter,
       EmitterStep

(* And it is a step of the assembler or leaves the code alone.             *)
LEMMA StashOfStep == LayoutOK /\ [Next]_vars => [StashNext]_stashVars
<1> SUFFICES ASSUME LayoutOK, [Next]_vars
             PROVE  [StashNext]_stashVars
  OBVIOUS
<1>1. ASSUME EmitInstruction
      PROVE  StashNext
  BY <1>1, LayoutLengths DEF EmitInstruction, StashNext
<1>2. ASSUME EmitPlainCall
      PROVE  StashNext
  BY <1>2, LayoutLengths DEF EmitPlainCall, StashNext
<1>3. ASSUME EmitSink
      PROVE  StashNext
  BY <1>3, LayoutLengths DEF EmitSink, StashNext
<1>4. ASSUME EmitterFails
      PROVE  StashNext
  BY <1>4, LayoutLengths DEF EmitterFails, StashNext
<1>5. ASSUME \/ Library
             \/ \E f \in Functions : StartCompiler(f)
             \/ AddMachinePasses \/ StartPasses
             \/ RunOnMachineFunction \/ FinishPass \/ RunOtherPass
             \/ StartEmitter \/ NextBlock \/ FinishEmitter
             \/ UNCHANGED vars
      PROVE  UNCHANGED stashVars
  BY <1>5 DEF vars, Library, StartCompiler, AddMachinePasses, StartPasses,
              RunOnMachineFunction, FinishPass, RunOtherPass, StartEmitter, NextBlock,
              FinishEmitter
<1> QED
  BY <1>1, <1>2, <1>3, <1>4, <1>5 DEF Next

-----------------------------------------------------------------------------
(* Each callback in the list has exactly one owner, after any sequence of  *)
(* registrations, moves, destructions and shutdowns.                       *)
THEOREM OwnersExact == Spec => []OneOwner
<1>1. Init => RegistryInv
  BY RegistryInitial DEF Init
<1>2. RegistryInv /\ [Next]_vars => RegistryInv'
  BY RegistryStep, RegistryOfStep
<1>3. RegistryInv => OneOwner
  BY DEF RegistryInv, OneOwner
<1> QED
  BY <1>1, <1>2, <1>3, PTL DEF Spec

(* What leaves the list goes with its owner, or with the whole list: no    *)
(* library that is unloaded takes away the callback of another.            *)
THEOREM RemovalsOwned == Spec => RemovedByOwner
<1> DEFINE Owned == \A e \in extensions : e \notin extensions' =>
                        \/ constructed /\ ~constructed'
                        \/ \E r \in Registrars : held[r] = e.id /\ held'[r] = NoObject
<1>1. Init => RegistryInv
  BY RegistryInitial DEF Init
<1>2. RegistryInv /\ [Next]_vars => RegistryInv'
  BY RegistryStep, RegistryOfStep
<1>3. ASSUME RegistryInv, RegistryNext
      PROVE  Owned
  <2>1. ASSUME NEW r \in Registrars, Destroy(r), NEW e \in extensions, e \notin extensions'
        PROVE  held[r] = e.id /\ held'[r] = NoObject
    BY <1>3, <2>1 DEF RegistryInv, Destroy, RemoveExtension
  <2>2. ASSUME NEW r \in Registrars, Destroy(r)
        PROVE  Owned
    BY <2>1, <2>2
  <2>3. CASE Shutdown
    BY <2>3 DEF Shutdown
  <2>4. CASE \E r \in Registrars, c \in Callbacks : Register(r, c)
    BY <2>4 DEF Register, AddExtension
  <2>5. CASE \E r, q \in Registrars : Move(r, q)
    BY <2>5 DEF Move
  <2> QED
    BY <1>3, <2>2, <2>3, <2>4, <2>5 DEF RegistryNext
<1>4. RegistryInv /\ [Next]_vars => [Owned]_registryVars
  BY <1>3, RegistryOfStep
<1> QED
  BY <1>1, <1>2, <1>4, PTL DEF Spec, RemovedByOwner

(* The code generator is an implementation of Stash.                       *)
THEOREM EmitsAsStash == Spec => StashSpec
<1>1. Init => LayoutOK /\ StashInit
  BY DEF Init, LayoutOK
<1>2. LayoutOK /\ [Next]_vars => LayoutOK'
  BY LayoutStep
<1>3. LayoutOK /\ [Next]_vars => [StashNext]_stashVars
  BY StashOfStep
<1> QED
  BY <1>1, <1>2, <1>3, PTL DEF Spec, StashSpec

(* In the code of any function the prologue of a callee recognises the     *)
(* decorated calls and no others.                                          *)
THEOREM CallsRecognised == Spec => []MagicExact
BY EmitsAsStash, RecognitionExact, PTL

(* Whoever calls a decorated function, its prologue reads mapped memory.   *)
THEOREM PrologueSafe == Spec => []MagicReadable
BY EmitsAsStash, ReadingSafe, PTL

-----------------------------------------------------------------------------
(* The inductive invariant.  A block between two steps of the pass is like *)
(* one that decoration has made, with some of its pseudo calls resolved:   *)
(* what a later call is given is still to be found by going back from it.  *)

(* The pass of DRTI is never behind allocation in the list of passes, and  *)
(* gone from it once registers are allocated.                              *)
NoneAfterAlloc(ps) ==
    \A i, j \in DOMAIN ps : ps[i] = "regalloc" /\ ps[j] = "drti" => j < i

PipelineInv ==
    /\ phase = "configure" =>
           /\ ~allocated
           /\ item \in Nat \ {0}
           /\ item <= 3 => \A i \in DOMAIN passes : passes[i] # "regalloc"
    /\ NoneAfterAlloc(passes)
    /\ allocated \in BOOLEAN
    /\ allocated => \A i \in DOMAIN passes : passes[i] # "drti"
    /\ passes \in Seq(Passes \cup {"regalloc"})

(* Instructions that leave r14 as the copy has set it, and in the way of   *)
(* no call.                                                                *)
Silent == {"arg", "use", "other", "erased"}

AllSilent(block, i, j) == \A h \in i + 1 .. j - 1 : block[h].op \in Silent

(* What comes right before i puts a node in rdi.                           *)
ArgAt(block, i) == i > 1 /\ block[i - 1].op = "arg" /\ block[i - 1].node \in Nodes

(* The _drti_set_caller at i has its argument, and the next call may take  *)
(* it.                                                                     *)
SetOK(block, i) ==
    /\ ArgAt(block, i)
    /\ \E j \in DOMAIN block :
           i < j /\ AllSilent(block, i, j) /\ MayTake(block[j], block[i - 1].node)

(* The call after the stash at s may take the node that was copied.        *)
StashOK(block, s) ==
    /\ s + 1 \in DOMAIN block
    /\ \E c \in 1 .. s - 1 :
           /\ block[c] = Copy /\ ArgAt(block, c)
           /\ AllSilent(block, c, s)
           /\ MayTake(block[s + 1], block[c - 1].node)

(* A use of rax belongs to a call of _drti_caller, as its first use.       *)
UseOK(block, j) ==
    \E g \in 1 .. j - 1 : /\ block[g] = GetCaller
                          /\ \A h \in g + 1 .. j - 1 : block[h] # Use("rax")

BlockOK(block) ==
    /\ block \in Seq(Instr)
    /\ \A i \in DOMAIN block :
        /\ block[i].op = "arg" => block[i].node \in Nodes
        /\ block[i] = SetCaller => SetOK(block, i)
        /\ block[i].op = "stash" => StashOK(block, i)
        /\ block[i] = Use("rax") => UseOK(block, i)

(* The call for node k is given it, or will be.                            *)
GivenOK(block, k) ==
    \A j \in DOMAIN block : block[j].op = "call" /\ block[j].node = k =>
        \/ j > 1 /\ block[j - 1].op = "stash"
        \/ \E i \in 1 .. j - 1 : block[i] = SetCaller /\ NoCall(block, i, j)

(* The function, and how many calls of _drti_caller are left of those that *)
(* there were.                                                             *)
FuncInv ==
    /\ func \in Seq(Seq(Instr)) /\ source.blocks \in Seq(Seq(Instr))
    /\ liveIn \in BOOLEAN /\ ran \in BOOLEAN
    /\ \A b \in DOMAIN func :
        /\ BlockOK(func[b])
        /\ ~liveIn => \A i \in DOMAIN func[b] :
               func[b][i] = GetCaller => UsesAfter(func[b], i) # {}
        /\ \A k \in Nodes : SetImmediately(k) => GivenOK(func[b], k)
    /\ Cardinality(GetCallers(func)) + (IF liveIn THEN 1 ELSE 0)
          <= Cardinality(GetCallers(source.blocks))
    /\ ran => \A b \in DOMAIN func : \A i \in DOMAIN func[b] :
                  func[b][i] \notin {SetCaller, GetCaller, Use("rax"), Erased}

(* What the registers hold when the emitter is at position p of the block. *)
EmitterAtOK(block, p) ==
    /\ p <= Len(block) + 1
    /\ p > 1 => block[p - 1].op # "stash"
    /\ p > 1 /\ block[p - 1].op = "arg" => rdi = block[p - 1].node
    /\ \A c \in 1 .. p - 1 : block[c] = Copy /\ ArgAt(block, c) /\ AllSilent(block, c, p)
           => r14 = block[c - 1].node

EmitterOK ==
    phase = "emit" => /\ bb \in Nat \ {0} /\ at \in Nat \ {0}
                      /\ bb <= Len(func) => EmitterAtOK(func[bb], at)

(* A call arrives with the magic value and a node, its own unless it was   *)
(* put before a decorated call; or without, and was to have none.          *)
ArrivalOK(a) ==
    \/ /\ [ret |-> a.ret, decorated |-> TRUE] \in returns
       /\ a.given \in Nodes
       /\ a.meant \in {a.given, None}
       /\ a.callee \in Decorated => a.meant = a.given
    \/ /\ [ret |-> a.ret, decorated |-> FALSE] \in returns
       /\ ran /\ a.meant # None => ~SetImmediately(a.meant)

ArrivalsOK == \A a \in arrivals : ArrivalOK(a)

(* What is still as at the beginning, and when the compiler gives up.      *)
PhaseInv ==
    /\ phase \notin {"emit", "done", "failed"} => bb = 1 /\ at = 1 /\ arrivals = {}
    /\ phase \in {"idle", "configure"} => ~ran
    /\ phase = "idle" => item = 1 /\ passes = <<>> /\ ~allocated /\ ~liveIn
    /\ fatal => phase = "failed"
    /\ GivesUpOnlyWhen

Inv ==
    /\ RegistryInv
    /\ PhaseInv
    /\ PipelineInv
    /\ FuncInv
    /\ EmitterOK
    /\ ArrivalsOK

-----------------------------------------------------------------------------
(* What the pass makes of a block: first _drti_set_caller.                 *)

(* What tells the instructions apart.                                      *)
LEMMA Instructions ==
    /\ SetCaller \in Instr /\ GetCaller \in Instr /\ Copy \in Instr /\ StashCode \in Instr
    /\ Erased \in Instr /\ Use("rax") \in Instr /\ Use("r14") \in Instr
    /\ SetCaller.op = "call" /\ GetCaller.op = "call" /\ Copy.op = "copy"
    /\ StashCode.op = "stash" /\ Erased.op = "erased"
    /\ Use("rax").op = "use" /\ Use("r14").op = "use"
    /\ SetCaller.node = None /\ GetCaller.node = None /\ SetCaller # GetCaller
    /\ SetCaller.sym \notin Callees /\ GetCaller.sym \notin Callees
    /\ Use("r14") # Use("rax")
BY MachineAssumption
   DEF SetCaller, GetCaller, Copy, StashCode, Erased, Use, CallOf, Instr, Ops

(* Given, position by position.                                            *)
LEMMA GivenAt ==
    ASSUME NEW block \in Seq(Instr), NEW i \in Nat, NEW sink \in Nat,
           1 <= i, i < sink, sink <= Len(block)
    PROVE  LET r == Given(block, i, sink)
           IN /\ r \in Seq(Instr)
              /\ Len(r) = Len(block) + 2
              /\ \A p \in 1 .. i - 1 : r[p] = block[p]
              /\ r[i] = Copy /\ r[i + 1] = Erased
              /\ \A p \in i + 1 .. sink - 1 : r[p + 1] = block[p]
              /\ r[sink + 1] = StashCode
              /\ \A p \in sink .. Len(block) : r[p + 2] = block[p]
<1> DEFINE a == SubSeq(block, 1, i - 1)
           b == <<Copy, Erased>>
           c == SubSeq(block, i + 1, sink - 1)
           d == <<StashCode>>
           e == SubSeq(block, sink, Len(block))
<1>1. Len(block) \in Nat /\ i \in 1 .. Len(block) /\ sink \in 1 .. Len(block)
  OBVIOUS
<1>2. a \in Seq(Instr) /\ Len(a) = i - 1 /\ \A p \in 1 .. i - 1 : a[p] = block[p]
  BY <1>1
<1>3. /\ c \in Seq(Instr) /\ Len(c) = sink - 1 - i
      /\ \A p \in 1 .. sink - 1 - i : c[p] = block[p + i]
  BY <1>1
<1>4. /\ e \in Seq(Instr) /\ Len(e) = Len(block) - sink + 1
      /\ \A p \in 1 .. Len(block) - sink + 1 : e[p] = block[p + sink - 1]
  BY <1>1
<1>5. b \in Seq(Instr) /\ Len(b) = 2 /\ b[1] = Copy /\ b[2] = Erased
  BY Instructions
<1>6. d \in Seq(Instr) /\ Len(d) = 1 /\ d[1] = StashCode
  BY Instructions
<1> HIDE DEF a, b, c, d, e
<1> DEFINE ab == a \o b
           abc == ab \o c
           abcd == abc \o d
           r == abcd \o e
<1>7. /\ ab \in Seq(Instr) /\ Len(ab) = i + 1
      /\ \A p \in 1 .. i - 1 : ab[p] = block[p]
      /\ ab[i] = Copy /\ ab[i + 1] = Erased
  <2>0. a \in Seq(Instr) /\ b \in Seq(Instr)
    BY <1>2, <1>5
  <2>1. /\ ab \in Seq(Instr) /\ Len(ab) = Len(a) + Len(b)
        /\ \A p \in 1 .. Len(a) : ab[p] = a[p]
        /\ \A p \in 1 .. Len(b) : ab[Len(a) + p] = b[p]
    BY <2>0
  <2> HIDE DEF ab
  <2>2. Len(a) + 1 = i /\ Len(a) + 2 = i + 1 /\ 1 \in 1 .. Len(b) /\ 2 \in 1 .. Len(b)
    BY <1>1, <1>2, <1>5
  <2>3. ab[i] = Copy /\ ab[i + 1] = Erased
    BY <1>5, <2>1, <2>2
  <2> QED
    BY <1>1, <1>2, <1>5, <2>1, <2>3
<1> HIDE DEF ab
<1>8. /\ abc \in Seq(Instr) /\ Len(abc) = sink
      /\ \A p \in 1 .. i + 1 : abc[p] = ab[p]
      /\ \A p \in i + 1 .. sink - 1 : abc[p + 1] = block[p]
  <2>0. ab \in Seq(Instr) /\ c \in Seq(Instr)
    BY <1>3, <1>7
  <2>1. /\ abc \in Seq(Instr) /\ Len(abc) = Len(ab) + Len(c)
        /\ \A p \in 1 .. Len(ab) : abc[p] = ab[p]
        /\ \A p \in 1 .. Len(c) : abc[Len(ab) + p] = c[p]
    BY <2>0
  <2> HIDE DEF abc
  <2>2. ASSUME NEW p \in i + 1 .. sink - 1 PROVE abc[p + 1] = block[p]
    <3>1. p - i \in 1 .. Len(c) /\ p - i + i = p /\ Len(ab) + (p - i) = p + 1
      <4>1. Len(ab) = i + 1 /\ Len(c) = sink - 1 - i
        BY <1>3, <1>7
      <4> QED
        BY <1>1, <4>1
    <3>2. c[p - i] = block[p]
      BY <1>3, <3>1
    <3> QED
      BY <2>1, <3>1, <3>2
  <2> QED
    BY <1>1, <1>3, <1>7, <2>1, <2>2
<1> HIDE DEF abc
<1>9. /\ abcd \in Seq(Instr) /\ Len(abcd) = sink + 1
      /\ \A p \in 1 .. sink : abcd[p] = abc[p]
      /\ abcd[sink + 1] = StashCode
  <2>0. abc \in Seq(Instr) /\ d \in Seq(Instr)
    BY <1>6, <1>8
  <2>1. /\ abcd \in Seq(Instr) /\ Len(abcd) = Len(abc) + Len(d)
        /\ \A p \in 1 .. Len(abc) : abcd[p] = abc[p]
        /\ \A p \in 1 .. Len(d) : abcd[Len(abc) + p] = d[p]
    BY <2>0
  <2> HIDE DEF abcd
  <2> QED
    BY <1>1, <1>6, <1>8, <2>1
<1> HIDE DEF abcd
<1>10. /\ r \in Seq(Instr) /\ Len(r) = Len(block) + 2
       /\ \A p \in 1 .. sink + 1 : r[p] = abcd[p]
       /\ \A p \in sink .. Len(block) : r[p + 2] = block[p]
  <2>0. abcd \in Seq(Instr) /\ e \in Seq(Instr)
    BY <1>4, <1>9
  <2>1. /\ r \in Seq(Instr) /\ Len(r) = Len(abcd) + Len(e)
        /\ \A p \in 1 .. Len(abcd) : r[p] = abcd[p]
        /\ \A p \in 1 .. Len(e) : r[Len(abcd) + p] = e[p]
    BY <2>0
  <2> HIDE DEF r
  <2>2. ASSUME NEW p \in sink .. Len(block) PROVE r[p + 2] = block[p]
    <3>1. /\ p - sink + 1 \in 1 .. Len(e) /\ p - sink + 1 + sink - 1 = p
          /\ Len(abcd) + (p - sink + 1) = p + 2
      <4>1. Len(abcd) = sink + 1 /\ Len(e) = Len(block) - sink + 1
        BY <1>4, <1>9
      <4> QED
        BY <1>1, <4>1
    <3>2. e[p - sink + 1] = block[p]
      BY <1>4, <3>1
    <3> QED
      BY <2>1, <3>1, <3>2
  <2> QED
    BY <1>1, <1>4, <1>9, <2>1, <2>2
<1> HIDE DEF r
<1>11. r = Given(block, i, sink)
  BY DEF Given, r, abcd, abc, ab, a, b, c, d, e
<1>12. \A p \in 1 .. i + 1 : r[p] = ab[p]
  <2> SUFFICES ASSUME NEW p \in 1 .. i + 1 PROVE r[p] = ab[p]
    OBVIOUS
  <2>1. p \in 1 .. sink /\ p \in 1 .. sink + 1
    BY <1>1
  <2> QED
    BY <2>1, <1>8, <1>9, <1>10
<1>13. \A p \in i + 1 .. sink - 1 : r[p + 1] = block[p]
  <2> SUFFICES ASSUME NEW p \in i + 1 .. sink - 1 PROVE r[p + 1] = block[p]
    OBVIOUS
  <2>1. p + 1 \in 1 .. sink /\ p + 1 \in 1 .. sink + 1
    BY <1>1
  <2> QED
    BY <2>1, <1>8, <1>9, <1>10
<1> QED
  BY <1>1, <1>7, <1>9, <1>10, <1>11, <1>12, <1>13

(* Where Given moves the instruction at position p of the block.           *)
To(i, sink, p) == IF p < i THEN p ELSE IF p < sink THEN p + 1 ELSE p + 2

(* r is the block after Given, new instructions and old ones.              *)
GivenTo(block, r, i, sink) ==
    /\ r \in Seq(Instr)
    /\ r[i] = Copy /\ r[i + 1] = Erased /\ r[sink + 1] = StashCode
    /\ \A p \in DOMAIN block \ {i} : /\ To(i, sink, p) \in DOMAIN r
                                     /\ r[To(i, sink, p)] = block[p]
    /\ \A q \in DOMAIN r : \/ q \in {i, i + 1, sink + 1}
                           \/ \E p \in DOMAIN block \ {i} : q = To(i, sink, p)

(* The same by where an instruction comes from.                            *)
LEMMA GivenMoves ==
    ASSUME NEW block \in Seq(Instr), NEW i \in Nat, NEW sink \in Nat,
           1 <= i, i < sink, sink <= Len(block)
    PROVE  GivenTo(block, Given(block, i, sink), i, sink)
<1> DEFINE r == Given(block, i, sink)
<1>1. /\ r \in Seq(Instr)
      /\ Len(r) = Len(block) + 2
      /\ \A p \in 1 .. i - 1 : r[p] = block[p]
      /\ r[i] = Copy /\ r[i + 1] = Erased
      /\ \A p \in i + 1 .. sink - 1 : r[p + 1] = block[p]
      /\ r[sink + 1] = StashCode
      /\ \A p \in sink .. Len(block) : r[p + 2] = block[p]
  BY GivenAt
<1>2. DOMAIN block = 1 .. Len(block) /\ Len(block) \in Nat /\ DOMAIN r = 1 .. Len(block) + 2
  BY <1>1
<1> HIDE DEF r
<1>3. ASSUME NEW p \in DOMAIN block \ {i}
      PROVE  To(i, sink, p) \in DOMAIN r /\ r[To(i, sink, p)] = block[p]
  <2>1. CASE p < i
    BY <1>1, <1>2, <2>1 DEF To
  <2>2. CASE i < p /\ p < sink
    <3>1. To(i, sink, p) = p + 1 /\ p + 1 \in DOMAIN r /\ p \in i + 1 .. sink - 1
      BY <1>2, <2>2 DEF To
    <3> QED
      BY <1>1, <3>1
  <2>3. CASE sink <= p
    <3>1. To(i, sink, p) = p + 2 /\ p + 2 \in DOMAIN r /\ p \in sink .. Len(block)
      BY <1>2, <2>3 DEF To
    <3> QED
      BY <1>1, <3>1
  <2> QED
    BY <1>2, <2>1, <2>2, <2>3
<1>4. ASSUME NEW q \in DOMAIN r, q \notin {i, i + 1, sink + 1}
      PROVE  \E p \in DOMAIN block \ {i} : q = To(i, sink, p)
  <2>1. CASE q < i
    <3>1. q \in DOMAIN block \ {i} /\ q = To(i, sink, q)
      BY <1>2, <2>1 DEF To
    <3> QED
      BY <3>1
  <2>2. CASE i + 1 < q /\ q <= sink
    <3>1. q - 1 \in DOMAIN block \ {i} /\ q = To(i, sink, q - 1)
      BY <1>2, <2>2 DEF To
    <3> QED
      BY <3>1
  <2>3. CASE sink + 1 < q
    <3>1. q - 2 \in DOMAIN block \ {i} /\ q = To(i, sink, q - 2)
      BY <1>2, <2>3 DEF To
    <3> QED
      BY <3>1
  <2> QED
    BY <1>2, <1>4, <2>1, <2>2, <2>3
<1> QED
  BY <1>1, <1>3, <1>4 DEF GivenTo, r

(* The order stays, and so do neighbours that nothing is put between.      *)
LEMMA ToOrder ==
    ASSUME NEW i \in Nat, NEW sink \in Nat, i < sink
    PROVE  /\ \A p \in Nat, q \in Nat :
                  p # i /\ q # i => (To(i, sink, p) < To(i, sink, q) <=> p < q)
           /\ \A p \in Nat : /\ To(i, sink, p) \in Nat
                             /\ p # i => /\ To(i, sink, p) < i <=> p < i
                                         /\ To(i, sink, p) < sink + 1 <=> p < sink
                                         /\ i < To(i, sink, p) <=> i < p
                                         /\ sink + 1 < To(i, sink, p) <=> sink <= p
                             /\ p # i /\ p + 1 # i /\ p + 1 # sink
                                    => To(i, sink, p + 1) = To(i, sink, p) + 1
           /\ To(i, sink, sink) = sink + 2
BY DEF To

(* A _drti_set_caller at i of the block, and the next call after it.       *)
Pending(block, i, sink) ==
    /\ BlockOK(block)
    /\ i \in DOMAIN block /\ block[i] = SetCaller
    /\ sink \in DOMAIN block /\ i < sink /\ block[sink].op = "call"
    /\ NoCall(block, i, sink)

(* The next call may take the node.                                        *)
LEMMA SinkTakes ==
    ASSUME NEW block, NEW i, NEW sink, Pending(block, i, sink)
    PROVE  /\ block \in Seq(Instr)
           /\ i \in Nat /\ sink \in Nat /\ 1 <= i /\ i < sink /\ sink <= Len(block)
           /\ ArgAt(block, i)
           /\ AllSilent(block, i, sink)
           /\ MayTake(block[sink], block[i - 1].node)
<1>1. block \in Seq(Instr) /\ DOMAIN block = 1 .. Len(block) /\ Len(block) \in Nat
  BY DEF Pending, BlockOK
<1>2. SetOK(block, i)
  BY DEF Pending, BlockOK
<1>3. PICK j \in DOMAIN block :
          i < j /\ AllSilent(block, i, j) /\ MayTake(block[j], block[i - 1].node)
  BY <1>2 DEF SetOK
<1>4. i \in Nat /\ sink \in Nat /\ j \in Nat /\ 1 <= i /\ i < sink /\ sink <= Len(block)
  BY <1>1 DEF Pending
<1>5. block[j].op = "call"
  BY <1>3 DEF MayTake
<1>6. ~(j < sink)
  <2>1. j < sink => j \in i + 1 .. sink - 1
    BY <1>3, <1>4
  <2> QED
    BY <1>5, <2>1 DEF Pending, NoCall
<1>7. ~(sink < j)
  <2>1. sink < j => sink \in i + 1 .. j - 1
    BY <1>4 DEF Pending
  <2> QED
    BY <1>3, <2>1 DEF Pending, AllSilent, Silent
<1>8. j = sink
  BY <1>4, <1>6, <1>7
<1> QED
  BY <1>1, <1>2, <1>3, <1>4, <1>8 DEF SetOK

(* Between old instructions are those that were between them, and new ones *)
(* where something was put.                                                *)
LEMMA BetweenMoves ==
    ASSUME NEW block, NEW i, NEW sink, Pending(block, i, sink),
           NEW r, GivenTo(block, r, i, sink),
           NEW p \in DOMAIN block \ {i}, NEW q \in DOMAIN block \ {i}, p < q
    PROVE  LET P == To(i, sink, p)
               Q == To(i, sink, q)
           IN /\ P \in 1 .. Q - 1 /\ Q \in DOMAIN r /\ r[P] = block[p] /\ r[Q] = block[q]
              /\ \A h \in P + 1 .. Q - 1 :
                     \/ \E x \in p + 1 .. q - 1 : r[h] = block[x]
                     \/ h = i /\ p < i /\ i < q
                     \/ h = i + 1
                     \/ h = sink + 1 /\ p < sink /\ sink <= q
<1>1. /\ block \in Seq(Instr)
      /\ i \in Nat /\ sink \in Nat /\ 1 <= i /\ i < sink /\ sink <= Len(block)
  BY SinkTakes
<1>2. DOMAIN block = 1 .. Len(block) /\ Len(block) \in Nat /\ p \in Nat /\ q \in Nat
  BY <1>1
<1> DEFINE P == To(i, sink, p)
           Q == To(i, sink, q)
<1>3. /\ P \in Nat /\ Q \in Nat /\ P < Q /\ Q \in DOMAIN r /\ P \in DOMAIN r
      /\ r[P] = block[p] /\ r[Q] = block[q]
      /\ P < i <=> p < i
      /\ P < sink + 1 <=> p < sink
      /\ i < Q <=> i < q
      /\ sink + 1 < Q <=> sink <= q
  BY <1>1, <1>2, ToOrder DEF GivenTo
<1>4. DOMAIN r = 1 .. Len(r) /\ Len(r) \in Nat
  BY DEF GivenTo
<1>5. ASSUME NEW h \in P + 1 .. Q - 1
      PROVE  \/ \E x \in p + 1 .. q - 1 : r[h] = block[x]
             \/ h = i /\ p < i /\ i < q
             \/ h = i + 1
             \/ h = sink + 1 /\ p < sink /\ sink <= q
  <2>1. h \in DOMAIN r /\ P < h /\ h < Q
    BY <1>3, <1>4
  <2>2. ASSUME NEW x \in DOMAIN block \ {i}, h = To(i, sink, x)
        PROVE  \E y \in p + 1 .. q - 1 : r[h] = block[y]
    <3>1. x \in Nat /\ p # i /\ q # i /\ x # i
      BY <1>2
    <3>2. (P < h <=> p < x) /\ (h < Q <=> x < q)
      BY <1>1, <1>2, <2>2, <3>1, ToOrder
    <3>3. x \in p + 1 .. q - 1
      BY <1>2, <2>1, <3>1, <3>2
    <3>4. r[h] = block[x]
      BY <2>2 DEF GivenTo
    <3> QED
      BY <3>3, <3>4
  <2> QED
    BY <1>3, <2>1, <2>2 DEF GivenTo
<1>6. P \in 1 .. Q - 1
  BY <1>3, <1>4
<1> QED
  BY <1>3, <1>5, <1>6

(* What is silent stays so, unless something was put there.                *)
LEMMA SilentMoves ==
    ASSUME NEW block, NEW i, NEW sink, Pending(block, i, sink),
           NEW r, GivenTo(block, r, i, sink),
           NEW p \in DOMAIN block \ {i}, NEW q \in DOMAIN block \ {i}, p < q,
           AllSilent(block, p, q), p \notin i .. sink - 1
    PROVE  AllSilent(r, To(i, sink, p), To(i, sink, q))
<1>1. /\ block \in Seq(Instr)
      /\ i \in Nat /\ sink \in Nat /\ 1 <= i /\ i < sink /\ sink <= Len(block)
  BY SinkTakes
<1>2. DOMAIN block = 1 .. Len(block) /\ Len(block) \in Nat /\ p \in Nat /\ q \in Nat
  BY <1>1
<1>3. ~(p < i /\ i < q)
  <2>1. p < i /\ i < q => i \in p + 1 .. q - 1
    BY <1>1, <1>2
  <2> QED
    BY <2>1, Instructions DEF AllSilent, Silent, Pending
<1>4. ~(p < sink /\ sink <= q)
  BY <1>1, <1>2, <1>3
<1> SUFFICES ASSUME NEW h \in To(i, sink, p) + 1 .. To(i, sink, q) - 1
             PROVE  r[h].op \in Silent
  BY DEF AllSilent
<1>5. \/ \E x \in p + 1 .. q - 1 : r[h] = block[x]
      \/ h = i + 1
  BY <1>3, <1>4, BetweenMoves
<1> QED
  BY <1>5, Instructions DEF GivenTo, AllSilent, Silent

(* No call appears between two old instructions.                           *)
LEMMA NoCallMoves ==
    ASSUME NEW block, NEW i, NEW sink, Pending(block, i, sink),
           NEW r, GivenTo(block, r, i, sink),
           NEW p \in DOMAIN block \ {i}, NEW q \in DOMAIN block \ {i}, p < q,
           NoCall(block, p, q)
    PROVE  NoCall(r, To(i, sink, p), To(i, sink, q))
<1> SUFFICES ASSUME NEW h \in To(i, sink, p) + 1 .. To(i, sink, q) - 1
             PROVE  r[h].op # "call"
  BY DEF NoCall
<1>1. \/ \E x \in p + 1 .. q - 1 : r[h] = block[x]
      \/ h \in {i, i + 1, sink + 1}
  BY BetweenMoves
<1> QED
  BY <1>1, Instructions DEF GivenTo, NoCall

(* An argument stays right before what it was before.                      *)
LEMMA ArgMoves ==
    ASSUME NEW block, NEW i, NEW sink, Pending(block, i, sink),
           NEW r, GivenTo(block, r, i, sink),
           NEW p \in DOMAIN block \ {i, sink}, ArgAt(block, p)
    PROVE  ArgAt(r, To(i, sink, p)) /\ r[To(i, sink, p) - 1] = block[p - 1]
<1>1. /\ block \in Seq(Instr)
      /\ i \in Nat /\ sink \in Nat /\ 1 <= i /\ i < sink /\ sink <= Len(block)
  BY SinkTakes
<1>2. DOMAIN block = 1 .. Len(block) /\ Len(block) \in Nat /\ p \in Nat
  BY <1>1
<1>3. p > 1 /\ p - 1 \in DOMAIN block /\ p - 1 \in Nat /\ p - 1 + 1 = p
  BY <1>2 DEF ArgAt
<1>8. p - 1 # i
  BY Instructions DEF ArgAt, Pending
<1>4. To(i, sink, p) = To(i, sink, p - 1) + 1
  BY <1>1, <1>2, <1>3, <1>8 DEF To
<1>5. To(i, sink, p - 1) \in DOMAIN r /\ r[To(i, sink, p - 1)] = block[p - 1]
  BY <1>3, <1>8 DEF GivenTo
<1>6. To(i, sink, p - 1) \in Nat /\ To(i, sink, p - 1) >= 1
  <2>1. DOMAIN r = 1 .. Len(r) /\ Len(r) \in Nat
    BY DEF GivenTo
  <2> QED
    BY <1>5, <2>1
<1>7. To(i, sink, p) > 1 /\ To(i, sink, p) - 1 = To(i, sink, p - 1)
  BY <1>4, <1>6
<1> QED
  BY <1>5, <1>7 DEF ArgAt

(* The clauses of BlockOK for the block after Given.                       *)
LEMMA GivenSets ==
    ASSUME NEW block, NEW i, NEW sink, Pending(block, i, sink),
           NEW r, GivenTo(block, r, i, sink),
           NEW p \in DOMAIN block \ {i}, block[p] = SetCaller
    PROVE  SetOK(r, To(i, sink, p))
<1>1. /\ block \in Seq(Instr)
      /\ i \in Nat /\ sink \in Nat /\ 1 <= i /\ i < sink /\ sink <= Len(block)
      /\ MayTake(block[sink], block[i - 1].node)
  BY SinkTakes
<1>2. DOMAIN block = 1 .. Len(block) /\ Len(block) \in Nat /\ p \in Nat
  BY <1>1
<1>3. PICK j \in DOMAIN block :
          p < j /\ AllSilent(block, p, j) /\ MayTake(block[j], block[p - 1].node)
  BY DEF Pending, BlockOK, SetOK
<1>4. ArgAt(block, p)
  BY DEF Pending, BlockOK, SetOK
<1>5. p # sink /\ j # i
  BY <1>1, <1>3, Instructions DEF MayTake, Pending
<1>6. p \notin i .. sink - 1
  <2>1. p \in i .. sink - 1 => p \in i + 1 .. sink - 1
    BY <1>1, <1>2
  <2> QED
    BY <2>1, Instructions DEF Pending, NoCall
<1>7. ArgAt(r, To(i, sink, p)) /\ r[To(i, sink, p) - 1] = block[p - 1]
  BY <1>4, <1>5, ArgMoves
<1>8. AllSilent(r, To(i, sink, p), To(i, sink, j))
  BY <1>3, <1>5, <1>6, SilentMoves
<1>9. To(i, sink, j) \in DOMAIN r /\ r[To(i, sink, j)] = block[j]
  BY <1>5 DEF GivenTo
<1>10. To(i, sink, p) \in 1 .. To(i, sink, j) - 1 /\ To(i, sink, j) \in DOMAIN r
  BY <1>3, <1>5, BetweenMoves
<1>11. To(i, sink, p) < To(i, sink, j)
  BY <1>10 DEF GivenTo
<1> QED
  BY <1>3, <1>7, <1>8, <1>9, <1>11 DEF SetOK

(* A call that has its stash keeps it.                                     *)
LEMMA GivenStashes ==
    ASSUME NEW block, NEW i, NEW sink, Pending(block, i, sink),
           NEW r, GivenTo(block, r, i, sink),
           NEW p \in DOMAIN block \ {i}, block[p].op = "stash"
    PROVE  StashOK(r, To(i, sink, p))
<1>1. /\ block \in Seq(Instr)
      /\ i \in Nat /\ sink \in Nat /\ 1 <= i /\ i < sink /\ sink <= Len(block)
      /\ AllSilent(block, i, sink)
  BY SinkTakes
<1>2. DOMAIN block = 1 .. Len(block) /\ Len(block) \in Nat /\ p \in Nat
  BY <1>1
<1>3. StashOK(block, p)
  BY DEF Pending, BlockOK
<1>4. PICK c \in 1 .. p - 1 :
           /\ block[c] = Copy /\ ArgAt(block, c)
           /\ AllSilent(block, c, p)
           /\ MayTake(block[p + 1], block[c - 1].node)
  BY <1>3 DEF StashOK
<1>5. p + 1 \in DOMAIN block
  BY <1>3 DEF StashOK
<1>6. c \in Nat /\ c \in DOMAIN block /\ c < p
  BY <1>2, <1>4
<1>7. p + 1 # i /\ c # i /\ c # sink /\ p # sink
  BY <1>4, Instructions DEF Pending, MayTake
<1>8. p + 1 # sink
  <2>1. p + 1 = sink => p \in i + 1 .. sink - 1
    BY <1>1, <1>2
  <2> QED
    BY <1>1, <2>1 DEF AllSilent, Silent
<1>9. c \notin i .. sink - 1
  <2>1. c \in i .. sink - 1 => c \in i + 1 .. sink - 1
    BY <1>1, <1>6, <1>7
  <2> QED
    BY <1>1, <1>4, <2>1, Instructions DEF AllSilent, Silent
<1>10. To(i, sink, p + 1) = To(i, sink, p) + 1
  BY <1>1, <1>2, <1>7, <1>8, ToOrder
<1>11. To(i, sink, p + 1) \in DOMAIN r /\ r[To(i, sink, p + 1)] = block[p + 1]
  BY <1>5, <1>7 DEF GivenTo
<1>12. ArgAt(r, To(i, sink, c)) /\ r[To(i, sink, c) - 1] = block[c - 1]
  BY <1>4, <1>6, <1>7, ArgMoves
<1>13. AllSilent(r, To(i, sink, c), To(i, sink, p))
  BY <1>4, <1>6, <1>7, <1>9, SilentMoves
<1>14. r[To(i, sink, c)] = Copy
  BY <1>4, <1>6, <1>7 DEF GivenTo
<1>15. To(i, sink, c) \in 1 .. To(i, sink, p) - 1
  BY <1>6, <1>7, BetweenMoves
<1> QED
  BY <1>4, <1>10, <1>11, <1>12, <1>13, <1>14, <1>15 DEF StashOK

(* The next call has its stash.                                            *)
LEMMA GivenSink ==
    ASSUME NEW block, NEW i, NEW sink, Pending(block, i, sink),
           NEW r, GivenTo(block, r, i, sink)
    PROVE  StashOK(r, sink + 1)
<1>1. /\ block \in Seq(Instr)
      /\ i \in Nat /\ sink \in Nat /\ 1 <= i /\ i < sink /\ sink <= Len(block)
      /\ ArgAt(block, i)
      /\ AllSilent(block, i, sink)
      /\ MayTake(block[sink], block[i - 1].node)
  BY SinkTakes
<1>2. DOMAIN block = 1 .. Len(block) /\ Len(block) \in Nat
  BY <1>1
<1>3. DOMAIN r = 1 .. Len(r) /\ Len(r) \in Nat
  BY DEF GivenTo
<1>4. sink + 2 \in DOMAIN r /\ r[sink + 2] = block[sink]
  <2>1. sink \in DOMAIN block \ {i} /\ To(i, sink, sink) = sink + 2
    BY <1>1, <1>2, ToOrder
  <2> QED
    BY <2>1 DEF GivenTo
<1>5. i > 1 /\ r[i - 1] = block[i - 1]
  <2>1. i > 1
    BY <1>1 DEF ArgAt
  <2>2. i - 1 \in DOMAIN block \ {i} /\ To(i, sink, i - 1) = i - 1
    BY <1>1, <1>2, <2>1 DEF To
  <2> QED
    BY <2>1, <2>2 DEF GivenTo
<1>6. r[i] = Copy /\ ArgAt(r, i)
  BY <1>1, <1>5 DEF GivenTo, ArgAt
<1>7. ASSUME NEW h \in i + 1 .. sink
      PROVE  r[h].op \in Silent
  <2>1. CASE h = i + 1
    BY <2>1, Instructions DEF GivenTo, Silent
  <2>2. CASE h # i + 1
    <3>1. h - 1 \in DOMAIN block \ {i} /\ To(i, sink, h - 1) = h /\ h - 1 \in i + 1 .. sink - 1
      BY <1>1, <1>2, <2>2 DEF To
    <3>2. r[h] = block[h - 1]
      BY <3>1 DEF GivenTo
    <3> QED
      BY <1>1, <3>1, <3>2 DEF AllSilent
  <2> QED
    BY <2>1, <2>2
<1>8. AllSilent(r, i, sink + 1)
  <2>1. \A n \in Nat : n = sink + 1 => \A h \in i + 1 .. n - 1 : h \in i + 1 .. sink
    BY <1>1
  <2>2. \A n \in Nat : n = sink + 1 => AllSilent(r, i, n)
    BY <1>7, <2>1 DEF AllSilent
  <2>3. sink + 1 \in Nat
    BY <1>1
  <2> QED
    BY <2>2, <2>3
<1>9. sink + 1 + 1 = sink + 2 /\ i \in 1 .. sink + 1 - 1
  BY <1>1
<1> QED
  BY <1>1, <1>4, <1>5, <1>6, <1>8, <1>9 DEF StashOK

(* A use of rax keeps the call whose value it is.                          *)
LEMMA GivenUses ==
    ASSUME NEW block, NEW i, NEW sink, Pending(block, i, sink),
           NEW r, GivenTo(block, r, i, sink),
           NEW p \in DOMAIN block \ {i}, block[p] = Use("rax")
    PROVE  UseOK(r, To(i, sink, p))
<1>1. block \in Seq(Instr) /\ DOMAIN block = 1 .. Len(block) /\ Len(block) \in Nat
  BY DEF Pending, BlockOK
<1>2. PICK g \in 1 .. p - 1 : /\ block[g] = GetCaller
                              /\ \A h \in g + 1 .. p - 1 : block[h] # Use("rax")
  BY DEF Pending, BlockOK, UseOK
<1>3. g \in DOMAIN block \ {i} /\ g < p
  <2>1. g \in DOMAIN block /\ g < p
    BY <1>1, <1>2
  <2> QED
    BY <1>2, <2>1, Instructions DEF Pending
<1>4. /\ To(i, sink, g) \in 1 .. To(i, sink, p) - 1
      /\ r[To(i, sink, g)] = block[g]
      /\ \A h \in To(i, sink, g) + 1 .. To(i, sink, p) - 1 :
             \/ \E x \in g + 1 .. p - 1 : r[h] = block[x]
             \/ h \in {i, i + 1, sink + 1}
  BY <1>3, BetweenMoves
<1>5. \A h \in {i, i + 1, sink + 1} : r[h] # Use("rax")
  BY Instructions DEF GivenTo
<1> QED
  BY <1>2, <1>4, <1>5 DEF UseOK

(* The call of _drti_set_caller done, the block is as it should be.        *)
LEMMA GivenBlock ==
    ASSUME NEW block, NEW i, NEW sink, Pending(block, i, sink),
           NEW r, GivenTo(block, r, i, sink)
    PROVE  BlockOK(r)
<1>1. r \in Seq(Instr)
  BY DEF GivenTo
<1> SUFFICES ASSUME NEW q \in DOMAIN r
             PROVE  /\ r[q].op = "arg" => r[q].node \in Nodes
                    /\ r[q] = SetCaller => SetOK(r, q)
                    /\ r[q].op = "stash" => StashOK(r, q)
                    /\ r[q] = Use("rax") => UseOK(r, q)
  BY <1>1 DEF BlockOK
<1>2. CASE q \in {i, i + 1}
  BY <1>2, Instructions DEF GivenTo
<1>3. CASE q = sink + 1
  BY <1>3, GivenSink, Instructions DEF GivenTo
<1>4. CASE \E p \in DOMAIN block \ {i} : q = To(i, sink, p)
  <2>1. PICK p \in DOMAIN block \ {i} : q = To(i, sink, p)
    BY <1>4
  <2>2. r[q] = block[p]
    BY <2>1 DEF GivenTo
  <2>3. block[p].op = "arg" => block[p].node \in Nodes
    BY DEF Pending, BlockOK
  <2> QED
    BY <2>1, <2>2, <2>3, GivenSets, GivenStashes, GivenUses
<1> QED
  BY <1>2, <1>3, <1>4 DEF GivenTo

(* The value of _drti_caller is still used.                                *)
LEMMA GivenUsesAfter ==
    ASSUME NEW block, NEW i, NEW sink, Pending(block, i, sink),
           NEW r, GivenTo(block, r, i, sink),
           \A p \in DOMAIN block : block[p] = GetCaller => UsesAfter(block, p) # {},
           NEW q \in DOMAIN r, r[q] = GetCaller
    PROVE  UsesAfter(r, q) # {}
<1>1. q \notin {i, i + 1, sink + 1}
  BY Instructions DEF GivenTo
<1>2. PICK p \in DOMAIN block \ {i} : q = To(i, sink, p)
  BY <1>1 DEF GivenTo
<1>3. block[p] = GetCaller
  BY <1>2 DEF GivenTo
<1>4. PICK j \in DOMAIN block : j > p /\ block[j] = Use("rax")
  BY <1>3 DEF UsesAfter
<1>5. j # i
  BY <1>4, Instructions DEF Pending
<1>6. To(i, sink, j) \in DOMAIN r /\ r[To(i, sink, j)] = Use("rax")
  BY <1>4, <1>5 DEF GivenTo
<1>7. To(i, sink, j) > q
  <2>1. i \in Nat /\ sink \in Nat /\ i < sink /\ block \in Seq(Instr)
    BY SinkTakes
  <2>2. p \in Nat /\ j \in Nat /\ p < j
    BY <1>4, <2>1
  <2> QED
    BY <1>2, <1>5, <2>1, <2>2 DEF To
<1> QED
  BY <1>6, <1>7 DEF UsesAfter

(* And each call for a node is given it, or will be.                       *)
LEMMA GivenGiven ==
    ASSUME NEW block, NEW i, NEW sink, Pending(block, i, sink),
           NEW r, GivenTo(block, r, i, sink),
           NEW k \in Nodes, GivenOK(block, k)
    PROVE  GivenOK(r, k)
<1> SUFFICES ASSUME NEW q \in DOMAIN r, r[q].op = "call", r[q].node = k
             PROVE  \/ q > 1 /\ r[q - 1].op = "stash"
                    \/ \E g \in 1 .. q - 1 : r[g] = SetCaller /\ NoCall(r, g, q)
  BY DEF GivenOK
<1>1. /\ block \in Seq(Instr)
      /\ i \in Nat /\ sink \in Nat /\ 1 <= i /\ i < sink /\ sink <= Len(block)
      /\ AllSilent(block, i, sink)
  BY SinkTakes
<1>2. DOMAIN block = 1 .. Len(block) /\ Len(block) \in Nat
  BY <1>1
<1>3. q \notin {i, i + 1, sink + 1}
  BY Instructions DEF GivenTo
<1>4. PICK j \in DOMAIN block \ {i} : q = To(i, sink, j)
  BY <1>3 DEF GivenTo
<1>5. r[q] = block[j]
  BY <1>4 DEF GivenTo
<1>6. j \in Nat
  BY <1>2
<1>7. CASE j > 1 /\ block[j - 1].op = "stash"
  <2>1. j # sink
    <3>1. j = sink => j - 1 = i \/ j - 1 \in i + 1 .. sink - 1
      BY <1>1
    <3> QED
      BY <1>1, <1>7, <3>1, Instructions DEF AllSilent, Silent, Pending
  <2>2. j - 1 \in DOMAIN block /\ j - 1 \in Nat
    BY <1>2, <1>6, <1>7
  <2>3. j - 1 # i
    BY <1>7, Instructions DEF Pending
  <2>4. q = To(i, sink, j - 1) + 1
    BY <1>1, <1>4, <1>6, <2>1, <2>2, <2>3 DEF To
  <2>5. r[To(i, sink, j - 1)].op = "stash" /\ To(i, sink, j - 1) \in DOMAIN r
    BY <1>7, <2>2, <2>3 DEF GivenTo
  <2>6. DOMAIN r = 1 .. Len(r) /\ Len(r) \in Nat
    BY DEF GivenTo
  <2>7. q > 1 /\ q - 1 = To(i, sink, j - 1)
    BY <2>4, <2>5, <2>6
  <2> QED
    BY <2>5, <2>7
<1>8. CASE \E g \in 1 .. j - 1 : block[g] = SetCaller /\ NoCall(block, g, j)
  <2>1. PICK g \in 1 .. j - 1 : block[g] = SetCaller /\ NoCall(block, g, j)
    BY <1>8
  <2>2. g \in DOMAIN block /\ g \in Nat /\ g < j
    BY <1>2, <1>6
  <2>3. CASE g = i
    <3>1. ~(j < sink)
      <4>1. j < sink => j \in i + 1 .. sink - 1
        BY <1>1, <1>6, <2>2, <2>3
      <4> QED
        BY <1>5, <4>1 DEF Pending, NoCall
    <3>2. ~(sink < j)
      <4>1. sink < j => sink \in g + 1 .. j - 1
        BY <1>1, <1>6, <2>3
      <4> QED
        BY <2>1, <4>1 DEF Pending, NoCall
    <3>3. j = sink
      BY <1>1, <1>6, <3>1, <3>2
    <3>4. q = sink + 2
      BY <1>1, <1>4, <3>3, ToOrder
    <3>5. q > 1 /\ q - 1 = sink + 1
      BY <1>1, <3>4
    <3> QED
      BY <3>5, Instructions DEF GivenTo
  <2>4. CASE g # i
    <3>1. NoCall(r, To(i, sink, g), q)
      BY <1>4, <2>1, <2>2, <2>4, NoCallMoves
    <3>2. To(i, sink, g) \in 1 .. q - 1 /\ r[To(i, sink, g)] = SetCaller
      BY <1>4, <2>1, <2>2, <2>4, BetweenMoves
    <3> QED
      BY <3>1, <3>2
  <2> QED
    BY <2>3, <2>4
<1> QED
  BY <1>5, <1>7, <1>8 DEF GivenOK

-----------------------------------------------------------------------------
(* Then _drti_caller, and the erasures.                                    *)

(* Min of numbers is the least of them.                                    *)
LEMMA MinIs ==
    ASSUME NEW S \in SUBSET Nat, S # {}
    PROVE  Min(S) \in S /\ \A n \in S : Min(S) <= n
<1>1. \E m \in S : \A n \in S : m <= n
  BY LeastNumber
<1> QED
  BY <1>1 DEF Min

(* The call that a _drti_set_caller is given is the next one.              *)
LEMMA NextCallPending ==
    ASSUME NEW block, BlockOK(block), NEW i \in DOMAIN block, block[i] = SetCaller,
           NEW sink \in NextCall(block, i)
    PROVE  Pending(block, i, sink)
<1> DEFINE calls == {j \in DOMAIN block : j > i /\ block[j].op = "call"}
<1>1. DOMAIN block = 1 .. Len(block) /\ Len(block) \in Nat
  BY DEF BlockOK
<1>2. calls \in SUBSET Nat /\ calls # {} /\ sink = Min(calls)
  BY <1>1 DEF NextCall
<1>3. sink \in calls /\ \A n \in calls : sink <= n
  <2> HIDE DEF calls
  <2> QED
    BY <1>2, MinIs
<1>4. NoCall(block, i, sink)
  <2> SUFFICES ASSUME NEW h \in i + 1 .. sink - 1, block[h].op = "call"
               PROVE  FALSE
    BY DEF NoCall
  <2>1. h \in DOMAIN block /\ h > i /\ h < sink
    BY <1>1, <1>3
  <2> QED
    BY <1>1, <1>3, <2>1
<1>5. sink \in DOMAIN block /\ i < sink /\ block[sink].op = "call"
  BY <1>1, <1>3
<1> QED
  BY <1>4, <1>5 DEF Pending

-----------------------------------------------------------------------------
(* r is the block after the call of _drti_caller at g and the use of its   *)
(* value at m have been replaced.                                          *)
ReplacedTo(block, r, g, m) ==
    /\ BlockOK(block)
    /\ g \in DOMAIN block /\ block[g] = GetCaller
    /\ m \in DOMAIN block /\ block[m] = Use("rax") /\ g < m
    /\ \A j \in DOMAIN block : j > g /\ block[j] = Use("rax") => m <= j
    /\ r \in Seq(Instr)
    /\ DOMAIN r = DOMAIN block
    /\ r[g] = Erased /\ r[m] = Use("r14")
    /\ \A q \in DOMAIN block \ {g, m} : r[q] = block[q]

(* What ResolveCaller does to a block is that.                             *)
LEMMA ReplacedIs ==
    ASSUME NEW block, BlockOK(block), NEW g \in DOMAIN block, block[g] = GetCaller,
           UsesAfter(block, g) # {}
    PROVE  LET m == Min(UsesAfter(block, g))
           IN ReplacedTo(block, [block EXCEPT ![g] = Erased, ![m] = Use("r14")], g, m)
<1> DEFINE m == Min(UsesAfter(block, g))
           r == [block EXCEPT ![g] = Erased, ![m] = Use("r14")]
<1>1. block \in Seq(Instr) /\ DOMAIN block = 1 .. Len(block) /\ Len(block) \in Nat
  BY DEF BlockOK
<1>2. m \in UsesAfter(block, g) /\ \A j \in UsesAfter(block, g) : m <= j
  <2> DEFINE U == UsesAfter(block, g)
  <2>1. U \in SUBSET Nat /\ U # {}
    BY <1>1 DEF UsesAfter
  <2> HIDE DEF U
  <2>2. Min(U) \in U /\ \A j \in U : Min(U) <= j
    BY <2>1, MinIs
  <2> QED
    BY <2>2 DEF U
<1> HIDE DEF m
<1>3. /\ m \in DOMAIN block /\ block[m] = Use("rax") /\ g < m
      /\ \A j \in DOMAIN block : j > g /\ block[j] = Use("rax") => m <= j
  BY <1>1, <1>2 DEF UsesAfter
<1>4. /\ r \in Seq(Instr)
      /\ DOMAIN r = DOMAIN block
      /\ r[g] = Erased /\ r[m] = Use("r14")
      /\ \A q \in DOMAIN block \ {g, m} : r[q] = block[q]
  <2>1. Erased \in Instr /\ Use("r14") \in Instr
    BY Instructions
  <2>2. g # m
    BY <1>1, <1>3
  <2>3. [block EXCEPT ![g] = Erased] \in Seq(Instr)
    BY <1>1, <2>1
  <2> QED
    BY <1>1, <1>3, <2>1, <2>2, <2>3
<1> HIDE DEF r
<1>5. ReplacedTo(block, r, g, m)
  BY <1>3, <1>4 DEF ReplacedTo
<1> QED
  BY <1>5 DEF r, m

(* What was silent, or no call, still is.                                  *)
LEMMA ReplacedOps ==
    ASSUME NEW block, NEW g, NEW m, NEW r, ReplacedTo(block, r, g, m)
    PROVE  /\ \A q \in DOMAIN block : /\ block[q].op \in Silent => r[q].op \in Silent
                                      /\ block[q].op # "call" => r[q].op # "call"
                                      /\ block[q].op \notin {"use", "call"} => r[q] = block[q]
                                      /\ block[q] \in {SetCaller, Copy} => r[q] = block[q]
                                      /\ block[q].sym \in Callees /\ block[q].op = "call"
                                             => r[q] = block[q]
           /\ \A p \in Nat, q \in DOMAIN block :
                  /\ AllSilent(block, p, q) => AllSilent(r, p, q)
                  /\ NoCall(block, p, q) => NoCall(r, p, q)
           /\ \A p \in DOMAIN block : ArgAt(block, p) => ArgAt(r, p) /\ r[p - 1] = block[p - 1]
<1>1. /\ DOMAIN block = 1 .. Len(block) /\ Len(block) \in Nat
  BY DEF ReplacedTo, BlockOK
<1>2. \A q \in DOMAIN block : /\ block[q].op \in Silent => r[q].op \in Silent
                              /\ block[q].op # "call" => r[q].op # "call"
                              /\ block[q].op \notin {"use", "call"} => r[q] = block[q]
                              /\ block[q] \in {SetCaller, Copy} => r[q] = block[q]
                              /\ block[q].sym \in Callees /\ block[q].op = "call"
                                     => r[q] = block[q]
  <2> SUFFICES ASSUME NEW q \in DOMAIN block
               PROVE  /\ block[q].op \in Silent => r[q].op \in Silent
                      /\ block[q].op # "call" => r[q].op # "call"
                      /\ block[q].op \notin {"use", "call"} => r[q] = block[q]
                      /\ block[q] \in {SetCaller, Copy} => r[q] = block[q]
                      /\ block[q].sym \in Callees /\ block[q].op = "call"
                             => r[q] = block[q]
    OBVIOUS
  <2>1. CASE q = g
    BY <2>1, Instructions DEF ReplacedTo, Silent
  <2>2. CASE q = m
    BY <2>2, Instructions DEF ReplacedTo, Silent
  <2>3. CASE q \notin {g, m}
    BY <2>3 DEF ReplacedTo
  <2> QED
    BY <2>1, <2>2, <2>3
<1>3. ASSUME NEW p \in Nat, NEW q \in DOMAIN block
      PROVE  /\ AllSilent(block, p, q) => AllSilent(r, p, q)
             /\ NoCall(block, p, q) => NoCall(r, p, q)
  <2>1. \A h \in p + 1 .. q - 1 : h \in DOMAIN block
    BY <1>1
  <2> QED
    BY <1>2, <2>1 DEF AllSilent, NoCall
<1>4. ASSUME NEW p \in DOMAIN block, ArgAt(block, p)
      PROVE  ArgAt(r, p) /\ r[p - 1] = block[p - 1]
  <2>1. p > 1 /\ block[p - 1].op = "arg"
    BY <1>4 DEF ArgAt
  <2>2. p - 1 \in DOMAIN block
    BY <1>1, <2>1
  <2>3. r[p - 1] = block[p - 1]
    BY <1>2, <2>1, <2>2
  <2> QED
    BY <1>4, <2>3 DEF ArgAt
<1> QED
  BY <1>2, <1>3, <1>4

(* The block is as it should be, with one pseudo call less.                *)
LEMMA ReplacedBlock ==
    ASSUME NEW block, NEW g, NEW m, NEW r, ReplacedTo(block, r, g, m)
    PROVE  /\ BlockOK(r)
           /\ \A k \in Nodes : GivenOK(block, k) => GivenOK(r, k)
           /\ \A q \in DOMAIN r : r[q] = GetCaller <=> block[q] = GetCaller /\ q # g
<1>1. /\ DOMAIN block = 1 .. Len(block) /\ Len(block) \in Nat
      /\ DOMAIN r = DOMAIN block
  BY DEF ReplacedTo, BlockOK
<1>2. ASSUME NEW q \in DOMAIN block
      PROVE  r[q] = block[q] \/ r[q] = Erased \/ r[q] = Use("r14")
  BY DEF ReplacedTo
<1>3. ASSUME NEW q \in DOMAIN block, r[q] = SetCaller
      PROVE  SetOK(r, q)
  <2>1. block[q] = SetCaller
    BY <1>2, <1>3, Instructions
  <2>2. SetOK(block, q)
    BY <2>1 DEF ReplacedTo, BlockOK
  <2>3. PICK j \in DOMAIN block :
            q < j /\ AllSilent(block, q, j) /\ MayTake(block[j], block[q - 1].node)
    BY <2>2 DEF SetOK
  <2>4. AllSilent(r, q, j) /\ r[j] = block[j]
    BY <1>1, <2>3, ReplacedOps DEF MayTake
  <2>5. ArgAt(r, q) /\ r[q - 1] = block[q - 1]
    BY <2>2, ReplacedOps DEF SetOK
  <2> QED
    BY <1>1, <2>3, <2>4, <2>5 DEF SetOK
<1>4. ASSUME NEW q \in DOMAIN block, r[q].op = "stash"
      PROVE  StashOK(r, q)
  <2>1. block[q].op = "stash"
    BY <1>2, <1>4, Instructions
  <2>2. StashOK(block, q)
    BY <2>1 DEF ReplacedTo, BlockOK
  <2>3. q + 1 \in DOMAIN block
    BY <2>2 DEF StashOK
  <2>4. PICK c \in 1 .. q - 1 :
           /\ block[c] = Copy /\ ArgAt(block, c)
           /\ AllSilent(block, c, q)
           /\ MayTake(block[q + 1], block[c - 1].node)
    BY <2>2 DEF StashOK
  <2>5. c \in DOMAIN block /\ c \in Nat
    BY <1>1, <2>4
  <2>6. r[q + 1] = block[q + 1] /\ r[c] = block[c] /\ AllSilent(r, c, q)
    BY <2>3, <2>4, <2>5, ReplacedOps DEF MayTake
  <2>7. ArgAt(r, c) /\ r[c - 1] = block[c - 1]
    BY <2>4, <2>5, ReplacedOps
  <2> QED
    BY <1>1, <2>3, <2>4, <2>6, <2>7 DEF StashOK
<1>5. ASSUME NEW q \in DOMAIN block, r[q] = Use("rax")
      PROVE  UseOK(r, q)
  <2>1. block[q] = Use("rax") /\ q # m /\ q # g
    BY <1>2, <1>5, Instructions DEF ReplacedTo
  <2>2. PICK f \in 1 .. q - 1 : /\ block[f] = GetCaller
                                /\ \A h \in f + 1 .. q - 1 : block[h] # Use("rax")
    BY <2>1 DEF ReplacedTo, BlockOK, UseOK
  <2>3. f # g
    <3>1. SUFFICES ASSUME f = g
                   PROVE  FALSE
      OBVIOUS
    <3>2. m <= q
      BY <1>1, <2>1, <2>2, <3>1 DEF ReplacedTo
    <3>3. m \in f + 1 .. q - 1
      BY <1>1, <2>1, <3>1, <3>2 DEF ReplacedTo
    <3> QED
      BY <2>2, <3>3 DEF ReplacedTo
  <2>4. f \in DOMAIN block /\ f # m
    BY <1>1, <2>2, Instructions DEF ReplacedTo
  <2>5. r[f] = GetCaller
    BY <2>2, <2>3, <2>4 DEF ReplacedTo
  <2>6. ASSUME NEW h \in f + 1 .. q - 1
        PROVE  r[h] # Use("rax")
    <3>1. h \in DOMAIN block
      BY <1>1, <2>2
    <3> QED
      BY <1>2, <2>2, <3>1, Instructions
  <2> QED
    BY <2>2, <2>5, <2>6 DEF UseOK
<1>6. BlockOK(r)
  <2>1. ASSUME NEW q \in DOMAIN r, r[q].op = "arg"
        PROVE  r[q].node \in Nodes
    BY <1>1, <1>2, <2>1, Instructions DEF ReplacedTo, BlockOK
  <2> QED
    BY <1>1, <1>3, <1>4, <1>5, <2>1 DEF BlockOK, ReplacedTo
<1>7. ASSUME NEW k \in Nodes, GivenOK(block, k)
      PROVE  GivenOK(r, k)
  <2> SUFFICES ASSUME NEW q \in DOMAIN block, r[q].op = "call", r[q].node = k
               PROVE  \/ q > 1 /\ r[q - 1].op = "stash"
                      \/ \E i \in 1 .. q - 1 : r[i] = SetCaller /\ NoCall(r, i, q)
    BY <1>1 DEF GivenOK
  <2>1. r[q] = block[q]
    BY <1>2, Instructions
  <2>2. CASE q > 1 /\ block[q - 1].op = "stash"
    <3>1. q - 1 \in DOMAIN block
      BY <1>1, <2>2
    <3> QED
      BY <2>2, <3>1, ReplacedOps
  <2>3. CASE \E i \in 1 .. q - 1 : block[i] = SetCaller /\ NoCall(block, i, q)
    <3>1. PICK i \in 1 .. q - 1 : block[i] = SetCaller /\ NoCall(block, i, q)
      BY <2>3
    <3>2. i \in DOMAIN block /\ i \in Nat
      BY <1>1
    <3> QED
      BY <3>1, <3>2, ReplacedOps
  <2> QED
    BY <1>7, <2>1, <2>2, <2>3 DEF GivenOK
<1>8. ASSUME NEW q \in DOMAIN r
      PROVE  r[q] = GetCaller <=> block[q] = GetCaller /\ q # g
  BY <1>1, Instructions DEF ReplacedTo
<1> QED
  BY <1>6, <1>7, <1>8

-----------------------------------------------------------------------------
(* A block without pseudo calls, after the erasures.                       *)
NoPseudo(block) == \A i \in DOMAIN block : block[i] \notin {SetCaller, GetCaller}

(* It is as it should be, and nothing is left of the pseudo calls.         *)
LEMMA ErasedBlock ==
    ASSUME NEW block, BlockOK(block), NoPseudo(block)
    PROVE  LET r == WithoutErasures(block)
           IN /\ BlockOK(r)
              /\ \A k \in Nodes : GivenOK(block, k) => GivenOK(r, k)
              /\ \A q \in DOMAIN r :
                     r[q] \notin {SetCaller, GetCaller, Use("rax"), Erased}
<1> DEFINE S == Instr \ {Erased}
           r == WithoutErasures(block)
<1>1. block \in Seq(Instr) /\ DOMAIN block = 1 .. Len(block) /\ Len(block) \in Nat
  BY DEF BlockOK
<1>2. r \in Seq(Instr) /\ \E f : Places(block, S, Len(block), r, f)
  BY <1>1, SelectedPlaces DEF WithoutErasures
<1> HIDE DEF r
<1>3. PICK e : Places(block, S, Len(block), r, e)
  BY <1>2
<1>4. DOMAIN r = 1 .. Len(r) /\ Len(r) \in Nat
  BY <1>2
<1>12. \A k, l \in DOMAIN r : e[l] = e[k] + 1 => l = k + 1
  BY <1>1, <1>3, <1>4, NeighboursKept
<1>13. \A i \in DOMAIN block : block[i] \in S => \E k \in DOMAIN r : e[k] = i
  BY <1>1, <1>3 DEF Places
<1>5. \A q \in DOMAIN r : /\ e[q] \in DOMAIN block
                          /\ r[q] = block[e[q]] /\ r[q] \in S
  BY <1>1, <1>3 DEF Places
<1>6. \A p, q \in DOMAIN r : e[p] < e[q] => p < q
  <2> SUFFICES ASSUME NEW p \in DOMAIN r, NEW q \in DOMAIN r, e[p] < e[q]
               PROVE  p < q
    OBVIOUS
  <2>1. e[p] \in Nat /\ e[q] \in Nat /\ p \in Nat /\ q \in Nat
    BY <1>1, <1>4, <1>5
  <2>2. ~(q < p) /\ p # q
    <3>1. q < p => e[q] < e[p]
      BY <1>3 DEF Places
    <3> QED
      BY <2>1, <3>1
  <2> QED
    BY <2>1, <2>2
<1>7. \A q \in DOMAIN block : block[q] # Use("rax")
  <2> SUFFICES ASSUME NEW q \in DOMAIN block, block[q] = Use("rax")
               PROVE  FALSE
    OBVIOUS
  <2>1. PICK g \in 1 .. q - 1 : block[g] = GetCaller
    BY DEF BlockOK, UseOK
  <2>2. g \in DOMAIN block
    BY <1>1
  <2> QED
    BY <2>1, <2>2 DEF NoPseudo
<1>8. \A q \in DOMAIN r : r[q] \notin {SetCaller, GetCaller, Use("rax"), Erased}
  BY <1>5, <1>7 DEF NoPseudo
<1>9. ASSUME NEW q \in DOMAIN r, r[q].op = "stash"
      PROVE  StashOK(r, q)
  <2>1. StashOK(block, e[q])
    BY <1>5, <1>9 DEF BlockOK
  <2>2. PICK c \in 1 .. e[q] - 1 :
           /\ block[c] = Copy /\ ArgAt(block, c)
           /\ AllSilent(block, c, e[q])
           /\ MayTake(block[e[q] + 1], block[c - 1].node)
    BY <2>1 DEF StashOK
  <2>3. e[q] + 1 \in DOMAIN block /\ block[e[q] + 1] \in S
    BY <1>1, <2>1, <2>2, Instructions DEF StashOK, MayTake
  <2>4. q + 1 \in DOMAIN r /\ e[q + 1] = e[q] + 1
    BY <1>12, <1>13, <2>3
  <2>5. e[q] \in Nat /\ c \in DOMAIN block /\ c \in Nat /\ c < e[q]
    BY <1>1, <1>5, <2>2
  <2>6. PICK l \in DOMAIN r : e[l] = c
    <3>1. block[c] \in S
      BY <2>2, Instructions
    <3> QED
      BY <1>1, <1>3, <2>5, <3>1 DEF Places
  <2>7. c > 1 /\ c - 1 \in DOMAIN block /\ block[c - 1] \in S
    <3>1. c > 1 /\ block[c - 1].op = "arg"
      BY <2>2 DEF ArgAt
    <3>2. c - 1 \in DOMAIN block
      BY <1>1, <2>5, <3>1
    <3> QED
      BY <1>1, <3>1, <3>2, Instructions
  <2>8. l - 1 \in DOMAIN r /\ e[l - 1] = c - 1
    <3>1. PICK k \in DOMAIN r : e[k] = c - 1
      BY <1>13, <2>7
    <3>2. e[l] = e[k] + 1
      BY <2>5, <2>6, <3>1
    <3>3. l = k + 1
      BY <1>12, <3>1, <3>2
    <3> QED
      BY <1>4, <3>1, <3>3
  <2>9. l \in 1 .. q - 1
    BY <1>4, <1>6, <2>5, <2>6
  <2>10. ArgAt(r, l) /\ r[l - 1] = block[c - 1]
    <3>1. l > 1
      BY <1>4, <2>8
    <3>2. r[l - 1] = block[c - 1]
      BY <1>5, <2>8
    <3> QED
      BY <2>2, <3>1, <3>2 DEF ArgAt
  <2>11. AllSilent(r, l, q)
    <3> SUFFICES ASSUME NEW h \in l + 1 .. q - 1
                 PROVE  r[h].op \in Silent
      BY DEF AllSilent
    <3>1. h \in DOMAIN r /\ l < h /\ h < q
      BY <1>4, <2>9
    <3>2. e[l] < e[h] /\ e[h] < e[q] /\ e[h] \in Nat
      BY <1>1, <1>3, <1>5, <3>1 DEF Places
    <3>3. e[h] \in c + 1 .. e[q] - 1
      BY <2>5, <2>6, <3>2
    <3> QED
      BY <1>5, <2>2, <3>1, <3>3 DEF AllSilent
  <2>12. r[l] = Copy /\ r[q + 1] = block[e[q] + 1]
    BY <1>5, <2>2, <2>4, <2>6
  <2> QED
    BY <2>2, <2>4, <2>9, <2>10, <2>11, <2>12 DEF StashOK
<1>10. BlockOK(r)
  <2>1. ASSUME NEW q \in DOMAIN r, r[q].op = "arg"
        PROVE  r[q].node \in Nodes
    BY <1>5, <2>1 DEF BlockOK
  <2> QED
    BY <1>2, <1>8, <1>9, <2>1 DEF BlockOK
<1>11. ASSUME NEW k \in Nodes, GivenOK(block, k)
       PROVE  GivenOK(r, k)
  <2> SUFFICES ASSUME NEW q \in DOMAIN r, r[q].op = "call", r[q].node = k
               PROVE  q > 1 /\ r[q - 1].op = "stash"
    BY DEF GivenOK
  <2>1. ~\E i \in 1 .. e[q] - 1 : block[i] = SetCaller
    <3>1. \A i \in 1 .. e[q] - 1 : i \in DOMAIN block
      BY <1>1, <1>5
    <3> QED
      BY <3>1 DEF NoPseudo
  <2>2. e[q] > 1 /\ block[e[q] - 1].op = "stash"
    BY <1>5, <1>11, <2>1 DEF GivenOK
  <2>3. e[q] - 1 \in DOMAIN block /\ block[e[q] - 1] \in S
    <3>1. e[q] - 1 \in DOMAIN block
      BY <1>1, <1>5, <2>2
    <3> QED
      BY <1>1, <2>2, <3>1, Instructions
  <2>4. q - 1 \in DOMAIN r /\ e[q - 1] = e[q] - 1
    <3>1. PICK p \in DOMAIN r : e[p] = e[q] - 1
      BY <1>13, <2>3
    <3>2. e[q] = e[p] + 1
      BY <1>1, <1>5, <3>1
    <3>3. q = p + 1
      BY <1>12, <3>1, <3>2
    <3> QED
      BY <1>4, <3>1, <3>3
  <2>5. r[q - 1] = block[e[q] - 1]
    BY <1>5, <2>4
  <2>6. q > 1
    BY <1>4, <2>4
  <2> QED
    BY <2>2, <2>5, <2>6
<1> QED
  BY <1>8, <1>10, <1>11 DEF r

-----------------------------------------------------------------------------
(* The pass on the whole function.                                         *)

(* The places where _drti_caller is called.                                *)
LEMMA CallersAre ==
    ASSUME NEW f
    PROVE  \A p : p \in GetCallers(f) <=>
               \E b \in DOMAIN f : \E i \in DOMAIN f[b] : p = <<b, i>> /\ f[b][i] = GetCaller
BY DEF GetCallers, PseudoCalls

(* There are finitely many of them.                                        *)
LEMMA CallersFinite ==
    ASSUME NEW f \in Seq(Seq(Instr))
    PROVE  IsFiniteSet(GetCallers(f)) /\ Cardinality(GetCallers(f)) \in Nat
<1> DEFINE g == [b \in DOMAIN f |-> {b} \X DOMAIN f[b]]
           S == {g[b] : b \in DOMAIN f}
<1>1. IsFiniteSet(DOMAIN f) /\ \A b \in DOMAIN f : IsFiniteSet(DOMAIN f[b])
  <2>1. DOMAIN f = 1 .. Len(f) /\ Len(f) \in Int
    OBVIOUS
  <2>2. \A b \in DOMAIN f : DOMAIN f[b] = 1 .. Len(f[b]) /\ Len(f[b]) \in Int
    OBVIOUS
  <2> QED
    BY <2>1, <2>2, FS_Interval
<1>2. IsFiniteSet(S)
  <2>1. g \in Surjection(DOMAIN f, S)
    BY DEF Surjection
  <2> HIDE DEF g, S
  <2> QED
    BY <1>1, <2>1, FS_Surjection
<1>3. \A T \in S : IsFiniteSet(T)
  <2> SUFFICES ASSUME NEW b \in DOMAIN f
               PROVE  IsFiniteSet({b} \X DOMAIN f[b])
    OBVIOUS
  <2>1. IsFiniteSet({b})
    BY FS_Singleton
  <2> QED
    BY <1>1, <2>1, FS_Product
<1>4. GetCallers(f) \subseteq UNION S
  BY CallersAre
<1>5. IsFiniteSet(UNION S)
  <2> HIDE DEF S
  <2> QED
    BY <1>2, <1>3, FS_UNION
<1>6. IsFiniteSet(GetCallers(f))
  <2> HIDE DEF S
  <2> QED
    BY <1>4, <1>5, FS_Subset
<1> QED
  BY <1>6, FS_CardinalityType

(* What m reaches from a finite set is not larger.                         *)
LEMMA ImageBound ==
    ASSUME NEW A, IsFiniteSet(A), NEW m, NEW B, \A y \in B : \E x \in A : m[x] = y
    PROVE  Cardinality(B) <= Cardinality(A)
<1> DEFINE D == {x \in A : m[x] \in B}
           g == [x \in D |-> m[x]]
<1>1. IsFiniteSet(D) /\ Cardinality(D) <= Cardinality(A)
  BY FS_Subset
<1>2. g \in Surjection(D, B)
  BY DEF Surjection
<1> HIDE DEF D, g
<1>3. IsFiniteSet(B) /\ Cardinality(B) <= Cardinality(D)
  BY <1>1, <1>2, FS_Surjection
<1> QED
  BY <1>1, <1>3, FS_CardinalityType

-----------------------------------------------------------------------------
(* One block is replaced, the others stay.                                 *)
LEMMA FuncReplaced ==
    ASSUME NEW f \in Seq(Seq(Instr)), NEW b \in DOMAIN f, NEW r \in Seq(Instr)
    PROVE  LET g == [f EXCEPT ![b] = r]
           IN /\ g \in Seq(Seq(Instr)) /\ DOMAIN g = DOMAIN f
              /\ g[b] = r
              /\ \A c \in DOMAIN f \ {b} : g[c] = f[c]
OBVIOUS

(* The steps of the pass, one by one.                                      *)
LEMMA ResolveSetCallerKeeps ==
    ASSUME FuncInv, ~ran, UNCHANGED <<source, ran>>,
           NEW b \in DOMAIN func, NEW i \in DOMAIN func[b], ResolveSetCaller(b, i)
    PROVE  FuncInv'
<1> DEFINE block == func[b]
<1>1. PICK sink \in NextCall(block, i) : func' = [func EXCEPT ![b] = Given(block, i, sink)]
  BY DEF ResolveSetCaller
<1>2. Pending(block, i, sink)
  BY NextCallPending DEF FuncInv, ResolveSetCaller
<1>3. /\ block \in Seq(Instr)
      /\ i \in Nat /\ sink \in Nat /\ 1 <= i /\ i < sink /\ sink <= Len(block)
  BY <1>2, SinkTakes
<1> DEFINE r == Given(block, i, sink)
<1>4. GivenTo(block, r, i, sink)
  BY <1>3, GivenMoves
<1> HIDE DEF r
<1>5. r \in Seq(Instr)
  BY <1>4 DEF GivenTo
<1>6. /\ func' \in Seq(Seq(Instr)) /\ DOMAIN func' = DOMAIN func
      /\ func'[b] = r
      /\ \A c \in DOMAIN func \ {b} : func'[c] = func[c]
  BY <1>1, <1>5, FuncReplaced DEF FuncInv, r
<1>7. liveIn' = liveIn
  BY DEF ResolveSetCaller
<1>8. ASSUME NEW c \in DOMAIN func
      PROVE  /\ BlockOK(func'[c])
             /\ ~liveIn => \A q \in DOMAIN func'[c] :
                    func'[c][q] = GetCaller => UsesAfter(func'[c], q) # {}
             /\ \A k \in Nodes : SetImmediately(k) => GivenOK(func'[c], k)
  <2>1. CASE c # b
    BY <1>6, <2>1 DEF FuncInv
  <2>2. CASE c = b
    <3>1. ~liveIn => \A p \in DOMAIN block : block[p] = GetCaller => UsesAfter(block, p) # {}
      BY DEF FuncInv
    <3>2. \A k \in Nodes : SetImmediately(k) => GivenOK(block, k)
      BY DEF FuncInv
    <3> HIDE DEF block
    <3>3. BlockOK(r) /\ \A k \in Nodes : SetImmediately(k) => GivenOK(r, k)
      BY <1>2, <1>4, <3>2, GivenBlock, GivenGiven
    <3>4. ~liveIn => \A q \in DOMAIN r : r[q] = GetCaller => UsesAfter(r, q) # {}
      BY <1>2, <1>4, <3>1, GivenUsesAfter
    <3> QED
      BY <1>6, <2>2, <3>3, <3>4
  <2> QED
    BY <2>1, <2>2
<1>9. Cardinality(GetCallers(func')) <= Cardinality(GetCallers(func))
  <2> DEFINE m == [x \in GetCallers(func) |->
                      IF x[1] = b THEN <<b, To(i, sink, x[2])>> ELSE x]
  <2>1. ASSUME NEW y \in GetCallers(func')
        PROVE  \E x \in GetCallers(func) : m[x] = y
    <3>9. PICK c \in DOMAIN func' : \E j \in DOMAIN func'[c] :
              y = <<c, j>> /\ func'[c][j] = GetCaller
      BY <2>1, CallersAre
    <3>1. PICK q \in DOMAIN func'[c] : y = <<c, q>> /\ func'[c][q] = GetCaller
      BY <3>9
    <3>2. CASE c # b
      <4>1. y \in GetCallers(func)
        BY <1>6, <3>1, <3>2, CallersAre
      <4>2. m[y] = y
        BY <3>1, <3>2, <4>1
      <4> QED
        BY <4>1, <4>2
    <3>3. CASE c = b
      <4>1. q \in DOMAIN r /\ r[q] = GetCaller
        BY <1>6, <3>1, <3>3
      <4>2. q \notin {i, i + 1, sink + 1}
        BY <1>4, <4>1, Instructions DEF GivenTo
      <4>3. PICK p \in DOMAIN block \ {i} : q = To(i, sink, p)
        BY <1>4, <4>1, <4>2 DEF GivenTo
      <4>4. block[p] = GetCaller
        BY <1>4, <4>1, <4>3 DEF GivenTo
      <4>5. <<b, p>> \in GetCallers(func)
        BY <4>4, CallersAre
      <4>6. m[<<b, p>>] = y
        BY <3>1, <3>3, <4>3, <4>5
      <4> QED
        BY <4>5, <4>6
    <3> QED
      BY <3>2, <3>3
  <2> HIDE DEF m
  <2>2. IsFiniteSet(GetCallers(func))
    BY CallersFinite DEF FuncInv
  <2> QED
    BY <2>1, <2>2, ImageBound
<1>10. (Cardinality(GetCallers(func)) + (IF liveIn THEN 1 ELSE 0)
          <= Cardinality(GetCallers(source.blocks)))'
  <2>1. source' = source
    OBVIOUS
  <2>2. Cardinality(GetCallers(source.blocks)) \in Nat /\ Cardinality(GetCallers(func)) \in Nat
        /\ Cardinality(GetCallers(func')) \in Nat
    BY <1>6, CallersFinite DEF FuncInv
  <2> QED
    BY <1>7, <1>9, <2>1, <2>2 DEF FuncInv
<1>11. \A k \in Nodes : SetImmediately(k)' <=> SetImmediately(k)
  BY DEF SetImmediately
<1> QED
  BY <1>6, <1>7, <1>8, <1>10, <1>11 DEF FuncInv

(* r14 becomes live, and there is a call of _drti_caller less.             *)
LEMMA ResolveCallerKeeps ==
    ASSUME FuncInv, ~ran, UNCHANGED <<source, ran>>,
           NEW b \in DOMAIN func, NEW g \in DOMAIN func[b], ResolveCaller(b, g)
    PROVE  FuncInv'
<1> DEFINE block == func[b]
           m == Min(UsesAfter(block, g))
           r == [block EXCEPT ![g] = Erased, ![m] = Use("r14")]
<1>1. ReplacedTo(block, r, g, m)
  <2>1. /\ BlockOK(block) /\ g \in DOMAIN block /\ block[g] = GetCaller
        /\ UsesAfter(block, g) # {}
    BY DEF FuncInv, ResolveCaller
  <2> HIDE DEF block
  <2> QED
    BY <2>1, ReplacedIs
<1>2. func' = [func EXCEPT ![b] = r]
  BY DEF ResolveCaller
<1> HIDE DEF m, r
<1>3. r \in Seq(Instr)
  BY <1>1 DEF ReplacedTo
<1>4. /\ func' \in Seq(Seq(Instr)) /\ DOMAIN func' = DOMAIN func
      /\ func'[b] = r
      /\ \A c \in DOMAIN func \ {b} : func'[c] = func[c]
  BY <1>2, <1>3, FuncReplaced DEF FuncInv
<1>5. liveIn = FALSE /\ liveIn' = TRUE
  BY DEF ResolveCaller, FuncInv
<1>6. /\ BlockOK(r)
      /\ \A k \in Nodes : GivenOK(block, k) => GivenOK(r, k)
      /\ \A q \in DOMAIN r : r[q] = GetCaller <=> block[q] = GetCaller /\ q # g
      /\ DOMAIN r = DOMAIN block
  <2> HIDE DEF block
  <2> QED
    BY <1>1, ReplacedBlock DEF ReplacedTo
<1>7. \A c \in DOMAIN func :
          /\ BlockOK(func'[c])
          /\ \A k \in Nodes : SetImmediately(k) => GivenOK(func'[c], k)
  <2>1. \A k \in Nodes : SetImmediately(k) => GivenOK(block, k)
    BY DEF FuncInv
  <2> HIDE DEF block
  <2> QED
    BY <1>4, <1>6, <2>1 DEF FuncInv
<1>8. GetCallers(func') = GetCallers(func) \ {<<b, g>>}
  <2> SUFFICES ASSUME NEW p
               PROVE  p \in GetCallers(func') <=> p \in GetCallers(func) \ {<<b, g>>}
    OBVIOUS
  <2>1. ASSUME NEW c \in DOMAIN func, NEW q
        PROVE  q \in DOMAIN func'[c] /\ func'[c][q] = GetCaller
                   <=> q \in DOMAIN func[c] /\ func[c][q] = GetCaller /\ ~(c = b /\ q = g)
    BY <1>4, <1>6
  <2> QED
    BY <1>4, <2>1, CallersAre
<1>9. /\ Cardinality(GetCallers(func)) \in Nat
      /\ Cardinality(GetCallers(func')) = Cardinality(GetCallers(func)) - 1
  <2>1. IsFiniteSet(GetCallers(func)) /\ Cardinality(GetCallers(func)) \in Nat
    BY CallersFinite DEF FuncInv
  <2>2. <<b, g>> \in GetCallers(func)
    BY CallersAre DEF ResolveCaller
  <2> QED
    BY <1>8, <2>1, <2>2, FS_RemoveElement
<1>10. (Cardinality(GetCallers(func)) + (IF liveIn THEN 1 ELSE 0)
          <= Cardinality(GetCallers(source.blocks)))'
  <2>1. Cardinality(GetCallers(source.blocks)) \in Nat
    BY CallersFinite DEF FuncInv
  <2> QED
    BY <1>5, <1>9, <2>1 DEF FuncInv
<1>11. \A k \in Nodes : SetImmediately(k)' <=> SetImmediately(k)
  BY DEF SetImmediately
<1> QED
  BY <1>4, <1>5, <1>7, <1>10, <1>11 DEF FuncInv

(* The pass does not find more decorated functions than there are.         *)
LEMMA ResolveFailsWhen ==
    ASSUME FuncInv, NEW b \in DOMAIN func, NEW i \in DOMAIN func[b], ResolveFails(b, i)
    PROVE  Cardinality(GetCallers(source.blocks)) > 1
<1>1. func[b][i] = GetCaller /\ liveIn
  <2>1. ASSUME func[b][i] = SetCaller
        PROVE  NextCall(func[b], i) # {}
    <3>1. SetOK(func[b], i)
      BY <2>1 DEF FuncInv, BlockOK
    <3>2. PICK j \in DOMAIN func[b] : i < j /\ func[b][j].op = "call"
      BY <3>1 DEF SetOK, MayTake
    <3>3. i \in Nat /\ j \in Nat
      BY DEF FuncInv
    <3> QED
      BY <3>2, <3>3 DEF NextCall
  <2>2. ASSUME func[b][i] = GetCaller, ~liveIn
        PROVE  UsesAfter(func[b], i) # {}
    BY <2>2 DEF FuncInv
  <2> QED
    BY <2>1, <2>2 DEF ResolveFails, FuncInv
<1>2. Cardinality(GetCallers(func)) >= 1
  <2>1. <<b, i>> \in GetCallers(func)
    BY <1>1, CallersAre
  <2>2. IsFiniteSet(GetCallers(func)) /\ Cardinality(GetCallers(func)) \in Nat
    BY CallersFinite DEF FuncInv
  <2>3. Cardinality(GetCallers(func)) # 0
    BY <2>1, <2>2, FS_EmptySet
  <2> QED
    BY <2>2, <2>3
<1>3. /\ Cardinality(GetCallers(source.blocks)) \in Nat
      /\ Cardinality(GetCallers(func)) \in Nat
  BY CallersFinite DEF FuncInv
<1> QED
  BY <1>1, <1>2, <1>3 DEF FuncInv

(* A step that leaves the function alone.                                  *)
LEMMA FuncInvUnchanged ==
    ASSUME FuncInv, UNCHANGED <<func, liveIn, source, ran>>
    PROVE  FuncInv'
<1>1. \A k \in Nodes : SetImmediately(k)' <=> SetImmediately(k)
  BY DEF SetImmediately
<1> QED
  BY <1>1 DEF FuncInv

(* When the function has no pseudo calls, no block has.                    *)
LEMMA NoPseudoCalls ==
    ASSUME PseudoCalls(func) = {}, NEW b \in DOMAIN func
    PROVE  NoPseudo(func[b])
<1> SUFFICES ASSUME NEW i \in DOMAIN func[b], func[b][i] \in {SetCaller, GetCaller}
             PROVE  FALSE
  BY DEF NoPseudo
<1>1. <<b, i>> \in PseudoCalls(func)
  BY DEF PseudoCalls
<1> QED
  BY <1>1

(* When ran, the pass has nothing to resolve.                              *)
LEMMA PassStepKeeps ==
    ASSUME FuncInv, UNCHANGED <<source, ran>>, PassStep
    PROVE  /\ FuncInv'
           /\ ~ran
           /\ fatal' # fatal => Cardinality(GetCallers(source.blocks)) > 1
<1>1. PICK p \in PseudoCalls(func) : \/ ResolveSetCaller(p[1], p[2])
                                     \/ ResolveCaller(p[1], p[2])
                                     \/ ResolveFails(p[1], p[2])
  BY DEF PassStep
<1>2. /\ p[1] \in DOMAIN func /\ p[2] \in DOMAIN func[p[1]]
      /\ func[p[1]][p[2]] \in {SetCaller, GetCaller}
  BY DEF PseudoCalls
<1>3. ~ran
  BY <1>2 DEF FuncInv
<1>4. CASE ResolveSetCaller(p[1], p[2])
  BY <1>2, <1>3, <1>4, ResolveSetCallerKeeps DEF ResolveSetCaller
<1>5. CASE ResolveCaller(p[1], p[2])
  BY <1>2, <1>3, <1>5, ResolveCallerKeeps DEF ResolveCaller
<1>6. CASE ResolveFails(p[1], p[2])
  BY <1>2, <1>3, <1>6, FuncInvUnchanged, ResolveFailsWhen DEF ResolveFails
<1> QED
  BY <1>1, <1>4, <1>5, <1>6

(* The end of the pass.                                                    *)
LEMMA EraseCallsKeeps ==
    ASSUME FuncInv, UNCHANGED source, ran' = TRUE, EraseCalls
    PROVE  FuncInv'
<1>1. /\ func' = [b \in DOMAIN func |-> WithoutErasures(func[b])]
      /\ PseudoCalls(func) = {} /\ liveIn' = liveIn
  BY DEF EraseCalls
<1>2. ASSUME NEW b \in DOMAIN func
      PROVE  /\ BlockOK(func'[b])
             /\ \A k \in Nodes : SetImmediately(k) => GivenOK(func'[b], k)
             /\ \A q \in DOMAIN func'[b] :
                    func'[b][q] \notin {SetCaller, GetCaller, Use("rax"), Erased}
  <2>1. BlockOK(func[b]) /\ NoPseudo(func[b])
    BY <1>1, NoPseudoCalls DEF FuncInv
  <2>2. func'[b] = WithoutErasures(func[b])
    BY <1>1
  <2>3. \A k \in Nodes : SetImmediately(k) => GivenOK(func[b], k)
    BY DEF FuncInv
  <2> QED
    BY <2>1, <2>2, <2>3, ErasedBlock
<1>3. func' \in Seq(Seq(Instr)) /\ DOMAIN func' = DOMAIN func
  <2>1. DOMAIN func = 1 .. Len(func) /\ Len(func) \in Nat
    BY DEF FuncInv
  <2>2. \A b \in DOMAIN func : func'[b] \in Seq(Instr)
    BY <1>2 DEF BlockOK
  <2> QED
    BY <1>1, <2>1, <2>2
<1>4. GetCallers(func') = {}
  <2>1. ASSUME NEW p \in GetCallers(func')
        PROVE  FALSE
    <3>1. PICK b \in DOMAIN func' : \E i \in DOMAIN func'[b] : func'[b][i] = GetCaller
      BY CallersAre
    <3> QED
      BY <1>2, <1>3, <3>1
  <2> QED
    BY <2>1
<1>5. Cardinality(GetCallers(func')) = 0 /\ Cardinality(GetCallers(func)) \in Nat
  BY <1>4, FS_EmptySet, CallersFinite DEF FuncInv
<1>6. (Cardinality(GetCallers(func)) + (IF liveIn THEN 1 ELSE 0)
          <= Cardinality(GetCallers(source.blocks)))'
  <2>1. Cardinality(GetCallers(source.blocks)) \in Nat
    BY CallersFinite DEF FuncInv
  <2> QED
    BY <1>1, <1>5, <2>1 DEF FuncInv
<1>7. \A k \in Nodes : SetImmediately(k)' <=> SetImmediately(k)
  BY DEF SetImmediately
<1> QED
  BY <1>1, <1>2, <1>3, <1>6, <1>7 DEF FuncInv

-----------------------------------------------------------------------------
(* The passes in their order.                                              *)

(* Only at PreRegAlloc does the registry have the pass of DRTI.            *)
LEMMA PassesAtPoint ==
    ASSUME RegistryInv, NEW point
    PROVE  /\ PassesAt(point) \in Seq(Passes)
           /\ point # "PreRegAlloc" =>
                  \A i \in DOMAIN PassesAt(point) : PassesAt(point)[i] # "drti"
<1> DEFINE there == {e \in extensions : e.callback.point = point}
           ids == {e.id : e \in there}
           numbers == [n \in 1 .. counter |-> n]
           order == Selected(numbers, ids)
<1>1. numbers \in Seq(Nat)
  BY DEF RegistryInv
<1>2. order \in Seq(Nat) /\ \E e : Places(numbers, ids, Len(numbers), order, e)
  <2> HIDE DEF numbers, ids
  <2> QED
    BY <1>1, SelectedPlaces
<1>3. \A i \in DOMAIN order : order[i] \in ids
  <2> HIDE DEF numbers, ids, order
  <2> QED
    BY <1>2 DEF Places
<1>4. DOMAIN order = 1 .. Len(order) /\ Len(order) \in Nat
  BY <1>2
<1>5. PassesAt(point) =
          [i \in DOMAIN order |-> (CHOOSE e \in there : e.id = order[i]).callback.pass]
  BY DEF PassesAt
<1> HIDE DEF order
<1>6. ASSUME NEW i \in DOMAIN order
      PROVE  LET c == (CHOOSE e \in there : e.id = order[i]).callback
             IN /\ c.pass \in Passes
                /\ point # "PreRegAlloc" => c.pass # "drti"
  <2>1. (CHOOSE e \in there : e.id = order[i]) \in there
    BY <1>3
  <2>2. ASSUME NEW e \in there
        PROVE  /\ e.callback.pass \in Passes
               /\ point # "PreRegAlloc" => e.callback.pass # "drti"
    BY CodeGenAssumption DEF RegistryInv
  <2> HIDE DEF there
  <2> QED
    BY <2>1, <2>2
<1> DEFINE pass(i) == (CHOOSE e \in there : e.id = order[i]).callback.pass
<1>7. \A i \in DOMAIN order : pass(i) \in Passes /\ (point # "PreRegAlloc" => pass(i) # "drti")
  BY <1>6
<1>8. PassesAt(point) = [i \in 1 .. Len(order) |-> pass(i)]
  BY <1>4, <1>5
<1> HIDE DEF pass
<1> QED
  BY <1>4, <1>7, <1>8

(* Allocation is added third, and the pass of DRTI just before it.         *)
LEMMA AddedPasses ==
    ASSUME RegistryInv, NEW i \in 1 .. Len(Pipeline)
    PROVE  /\ Added(i) \in Seq(Passes \cup {"regalloc"})
           /\ i # 3 => \A j \in DOMAIN Added(i) : Added(i)[j] # "regalloc"
           /\ i # 2 => \A j \in DOMAIN Added(i) : Added(i)[j] # "drti"
<1>1. CASE i = 3
  <2>1. Added(i) = <<"regalloc">>
    BY <1>1 DEF Added, Pipeline
  <2> QED
    BY <1>1, <2>1
<1>2. CASE i # 3
  <2> DEFINE s == PassesAt(Pipeline[i])
             S == IF source.native THEN Passes ELSE Passes \ {"drti"}
             r == Selected(s, S)
  <2>1. Pipeline[i] # "regalloc" /\ (i # 2 => Pipeline[i] # "PreRegAlloc")
    BY <1>2 DEF Pipeline
  <2>2. Added(i) = r
    BY <2>1 DEF Added
  <2>3. s \in Seq(Passes) /\ (i # 2 => \A j \in DOMAIN s : s[j] # "drti")
    BY <2>1, PassesAtPoint
  <2> HIDE DEF s, S
  <2>4. r \in Seq(Passes) /\ \E e : Places(s, S, Len(s), r, e)
    BY <2>3, SelectedPlaces
  <2> HIDE DEF r
  <2>5. PICK e : Places(s, S, Len(s), r, e)
    BY <2>4
  <2>6. \A j \in DOMAIN r : e[j] \in DOMAIN s /\ r[j] = s[e[j]]
    BY <2>3, <2>5 DEF Places
  <2>7. r \in Seq(Passes \cup {"regalloc"}) /\ \A j \in DOMAIN r : r[j] \in Passes
    BY <2>4
  <2> QED
    BY <1>2, <2>2, <2>3, <2>6, <2>7 DEF Passes
<1> QED
  BY <1>1, <1>2

(* So however often it is added, it is added before allocation.            *)
LEMMA AddMachinePassesKeeps ==
    ASSUME RegistryInv, PipelineInv, AddMachinePasses
    PROVE  PipelineInv'
<1> DEFINE T == Passes \cup {"regalloc"}
           s == Added(item)
           new == passes \o s
<1>1. item \in 1 .. 8 /\ Len(Pipeline) = 8
  BY DEF AddMachinePasses, Pipeline, PipelineInv
<1>2. /\ s \in Seq(T)
      /\ item # 3 => \A j \in DOMAIN s : s[j] # "regalloc"
      /\ item # 2 => \A j \in DOMAIN s : s[j] # "drti"
  BY <1>1, AddedPasses
<1>3. /\ ~allocated
      /\ item <= 3 => \A i \in DOMAIN passes : passes[i] # "regalloc"
      /\ \A i, j \in DOMAIN passes : passes[i] = "regalloc" /\ passes[j] = "drti" => j < i
      /\ passes \in Seq(T)
  BY DEF PipelineInv, NoneAfterAlloc, AddMachinePasses
<1>4. passes' = new /\ item' = item + 1 /\ allocated' = allocated /\ phase' = phase
  BY DEF AddMachinePasses
<1> HIDE DEF s, T
<1>5. /\ new \in Seq(T) /\ Len(new) = Len(passes) + Len(s)
      /\ \A p \in 1 .. Len(passes) : new[p] = passes[p]
      /\ \A p \in 1 .. Len(s) : new[Len(passes) + p] = s[p]
  BY <1>2, <1>3
<1> HIDE DEF new
<1>6. /\ DOMAIN passes = 1 .. Len(passes) /\ Len(passes) \in Nat
      /\ DOMAIN s = 1 .. Len(s) /\ Len(s) \in Nat
      /\ DOMAIN new = 1 .. Len(passes) + Len(s)
  BY <1>2, <1>3, <1>5
<1>7. ASSUME NEW i \in DOMAIN new
      PROVE  \/ i \in DOMAIN passes /\ new[i] = passes[i]
             \/ i > Len(passes) /\ \E p \in DOMAIN s : new[i] = s[p]
  <2>1. CASE i <= Len(passes)
    BY <1>5, <1>6, <2>1
  <2>2. CASE i > Len(passes)
    <3>1. i - Len(passes) \in 1 .. Len(s) /\ Len(passes) + (i - Len(passes)) = i
      BY <1>6, <2>2
    <3> QED
      BY <1>5, <1>6, <2>2, <3>1
  <2> QED
    BY <1>6, <2>1, <2>2
<1>8. item' <= 3 => \A i \in DOMAIN new : new[i] # "regalloc"
  BY <1>1, <1>2, <1>3, <1>4, <1>7
<1>9. ASSUME NEW i \in DOMAIN new, NEW j \in DOMAIN new, new[i] = "regalloc", new[j] = "drti"
      PROVE  j < i
  <2>1. CASE j \in DOMAIN passes /\ new[j] = passes[j]
    <3>1. CASE i \in DOMAIN passes /\ new[i] = passes[i]
      BY <1>3, <1>9, <2>1, <3>1
    <3>2. CASE i > Len(passes)
      BY <1>6, <2>1, <3>2
    <3> QED
      BY <1>7, <3>1, <3>2
  <2>2. CASE \E p \in DOMAIN s : new[j] = s[p]
    <3>1. item = 2
      BY <1>2, <1>9, <2>2
    <3>2. new[i] # "regalloc"
      BY <1>2, <1>3, <1>7, <3>1
    <3> QED
      BY <1>9, <3>2
  <2> QED
    BY <1>7, <2>1, <2>2
<1>10. item + 1 \in Nat \ {0}
  BY <1>1
<1> QED
  BY <1>3, <1>4, <1>5, <1>8, <1>9, <1>10 DEF PipelineInv, NoneAfterAlloc, T

(* The next pass has run.                                                  *)
LEMMA PassDone ==
    ASSUME PipelineInv, phase = "run", passes # <<>>, passes' = Tail(passes),
           allocated' = (allocated \/ Head(passes) = "regalloc"), phase' = phase
    PROVE  PipelineInv'
<1> DEFINE T == Passes \cup {"regalloc"}
<1>1. passes \in Seq(T) /\ passes # <<>>
  BY DEF PipelineInv
<1>2. /\ passes' \in Seq(T)
      /\ \A i \in DOMAIN passes' :
             i + 1 \in DOMAIN passes /\ passes'[i] = passes[i + 1] /\ i \in Nat
      /\ Head(passes) = passes[1] /\ 1 \in DOMAIN passes
  <2> HIDE DEF T
  <2> QED
    BY <1>1
<1> HIDE DEF T
<1>3. \A i, j \in DOMAIN passes' : passes'[i] = "regalloc" /\ passes'[j] = "drti" => j < i
  <2> SUFFICES ASSUME NEW i \in DOMAIN passes', NEW j \in DOMAIN passes',
                      passes'[i] = "regalloc", passes'[j] = "drti"
               PROVE  j < i
    OBVIOUS
  <2>1. j + 1 < i + 1
    BY <1>2 DEF PipelineInv, NoneAfterAlloc
  <2> QED
    BY <1>2, <2>1
<1>4. allocated' => \A j \in DOMAIN passes' : passes'[j] # "drti"
  <2> SUFFICES ASSUME allocated', NEW j \in DOMAIN passes', passes'[j] = "drti"
               PROVE  FALSE
    OBVIOUS
  <2>1. j + 1 \in DOMAIN passes /\ passes[j + 1] = "drti" /\ j \in Nat
    BY <1>2
  <2>2. passes[1] = "regalloc"
    BY <1>2, <2>1 DEF PipelineInv
  <2>3. j + 1 < 1
    BY <1>2, <2>1, <2>2 DEF PipelineInv, NoneAfterAlloc
  <2>4. j + 1 \in 1 .. Len(passes)
    BY <1>1, <2>1
  <2> QED
    BY <2>1, <2>3, <2>4
<1> QED
  BY <1>2, <1>3, <1>4 DEF PipelineInv, NoneAfterAlloc, T

-----------------------------------------------------------------------------
(* The steps of the compiler.                                              *)

(* No step puts the pass behind register allocation.                       *)
LEMMA PipelineStep == Inv /\ [Next]_vars => PipelineInv'
<1> SUFFICES ASSUME Inv, [Next]_vars
             PROVE  PipelineInv'
  OBVIOUS
<1>1. RegistryInv /\ PhaseInv /\ PipelineInv
  BY DEF Inv
<1>2. ASSUME NEW f \in Functions, StartCompiler(f)
      PROVE  PipelineInv'
  <2>1. item = 1 /\ passes = <<>> /\ ~allocated
    BY <1>1, <1>2 DEF PhaseInv, StartCompiler
  <2> QED
    BY <1>1, <1>2, <2>1 DEF StartCompiler, PipelineInv, NoneAfterAlloc
<1>3. CASE AddMachinePasses
  BY <1>1, <1>3, AddMachinePassesKeeps
<1>4. CASE RunOtherPass
  BY <1>1, <1>4, PassDone DEF RunOtherPass, NextPassIs
<1>5. CASE FinishPass
  <2>1. allocated' = (allocated \/ Head(passes) = "regalloc")
    BY <1>1, <1>5 DEF FinishPass, NextPassIs, PipelineInv
  <2> QED
    BY <1>1, <1>5, <2>1, PassDone DEF FinishPass, NextPassIs
<1>6. CASE StartPasses
  BY <1>1, <1>6 DEF StartPasses, PipelineInv, NoneAfterAlloc
<1>7. CASE RunOnMachineFunction
  BY <1>1, <1>7 DEF RunOnMachineFunction, NextPassIs, PipelineInv, NoneAfterAlloc
<1>8. CASE Library
  BY <1>1, <1>8 DEF Library, codeGenVars, PipelineInv, NoneAfterAlloc
<1>9. CASE \/ StartEmitter \/ EmitInstruction \/ EmitPlainCall \/ EmitSink \/ EmitterFails
           \/ NextBlock \/ FinishEmitter
  BY <1>1, <1>9 DEF StartEmitter, EmitInstruction, EmitPlainCall, EmitSink, EmitterFails,
                    NextBlock, FinishEmitter, EmitterStep, EmitterAt, PipelineInv, NoneAfterAlloc
<1>10. CASE UNCHANGED vars
  BY <1>1, <1>10 DEF vars, codeGenVars, PipelineInv, NoneAfterAlloc
<1> QED
  BY <1>2, <1>3, <1>4, <1>5, <1>6, <1>7, <1>8, <1>9, <1>10 DEF Next

-----------------------------------------------------------------------------
(* What decoration has made is as it should be.                            *)
LEMMA DecoratedBlock ==
    ASSUME NEW block, AsDecorated(block)
    PROVE  BlockOK(block)
<1>1. block \in Seq(Instr) /\ DOMAIN block = 1 .. Len(block) /\ Len(block) \in Nat
  BY DEF AsDecorated
<1>2. ASSUME NEW i \in DOMAIN block, block[i] = SetCaller
      PROVE  SetOK(block, i)
  <2>1. i > 1 /\ block[i - 1].op = "arg"
    BY <1>2 DEF AsDecorated
  <2>2. i - 1 \in DOMAIN block
    BY <1>1, <2>1
  <2>3. ArgAt(block, i)
    BY <2>1, <2>2 DEF AsDecorated, ArgAt
  <2>4. PICK j \in DOMAIN block :
            i < j /\ NoCall(block, i, j) /\ MayTake(block[j], block[i - 1].node)
    BY <1>2 DEF AsDecorated
  <2>5. AllSilent(block, i, j)
    <3> SUFFICES ASSUME NEW h \in i + 1 .. j - 1
                 PROVE  block[h].op \in Silent
      BY DEF AllSilent
    <3>1. h \in DOMAIN block
      BY <1>1
    <3> QED
      BY <2>4, <3>1 DEF AsDecorated, NoCall, Silent
  <2> QED
    BY <2>3, <2>4, <2>5 DEF SetOK
<1> QED
  BY <1>1, <1>2 DEF BlockOK, AsDecorated, UseOK

(* The compiler starts with what decoration has made.                      *)
LEMMA StartCompilerFunc ==
    ASSUME ~liveIn, liveIn \in BOOLEAN, ~ran, ran \in BOOLEAN, NEW f \in Functions,
           StartCompiler(f)
    PROVE  FuncInv'
<1>1. /\ func' = f.blocks /\ source' = f /\ liveIn' = FALSE /\ ran' = FALSE
  <2>1. liveIn = FALSE /\ ran = FALSE
    OBVIOUS
  <2>2. func' = f.blocks /\ source' = f /\ liveIn' = liveIn /\ ran' = ran
    BY DEF StartCompiler
  <2> QED
    BY <2>1, <2>2
<1>2. f.blocks \in Seq(Seq(Instr)) /\ \A b \in DOMAIN f.blocks : AsDecorated(f.blocks[b])
  BY CodeGenAssumption
<1>3. \A b \in DOMAIN f.blocks :
          /\ BlockOK(f.blocks[b])
          /\ \A i \in DOMAIN f.blocks[b] :
                 f.blocks[b][i] = GetCaller => UsesAfter(f.blocks[b], i) # {}
  <2> SUFFICES ASSUME NEW b \in DOMAIN f.blocks
               PROVE  /\ BlockOK(f.blocks[b])
                      /\ \A i \in DOMAIN f.blocks[b] :
                             f.blocks[b][i] = GetCaller => UsesAfter(f.blocks[b], i) # {}
    OBVIOUS
  <2>1. AsDecorated(f.blocks[b])
    BY <1>2
  <2>2. \A i \in DOMAIN f.blocks[b] :
            f.blocks[b][i] = GetCaller => UsesAfter(f.blocks[b], i) # {}
    <3> SUFFICES ASSUME NEW i \in DOMAIN f.blocks[b], f.blocks[b][i] = GetCaller
                 PROVE  UsesAfter(f.blocks[b], i) # {}
      OBVIOUS
    <3>1. PICK j \in DOMAIN f.blocks[b] : i < j /\ f.blocks[b][j] = Use("rax")
      BY <2>1 DEF AsDecorated
    <3>2. j > i
      BY <1>2, <3>1
    <3>3. j \in UsesAfter(f.blocks[b], i)
      BY <3>1, <3>2 DEF UsesAfter
    <3> QED
      BY <3>3
  <2> QED
    BY <2>1, <2>2, DecoratedBlock
<1>4. ASSUME NEW b \in DOMAIN f.blocks, NEW k \in Nodes, SetImmediately(k)'
      PROVE  GivenOK(f.blocks[b], k)
  BY <1>1, <1>4 DEF SetImmediately, GivenOK
<1>5. Cardinality(GetCallers(f.blocks)) \in Nat
  BY <1>2, CallersFinite
<1>6. (Cardinality(GetCallers(func)) + (IF liveIn THEN 1 ELSE 0)
          <= Cardinality(GetCallers(source.blocks)))'
  BY <1>1, <1>5
<1> QED
  BY <1>1, <1>2, <1>3, <1>4, <1>6 DEF FuncInv

(* Every step keeps the function as it should be.                          *)
LEMMA FuncStep == Inv /\ [Next]_vars => FuncInv'
<1> SUFFICES ASSUME Inv, [Next]_vars
             PROVE  FuncInv'
  OBVIOUS
<1>1. PhaseInv /\ FuncInv
  BY DEF Inv
<1>2. ASSUME NEW f \in Functions, StartCompiler(f)
      PROVE  FuncInv'
  <2>1. ~liveIn /\ ~ran /\ liveIn \in BOOLEAN /\ ran \in BOOLEAN
    BY <1>1, <1>2 DEF PhaseInv, FuncInv, StartCompiler
  <2> QED
    BY <1>2, <2>1, StartCompilerFunc
<1>3. CASE RunOnMachineFunction
  BY <1>1, <1>3, PassStepKeeps DEF RunOnMachineFunction
<1>4. CASE FinishPass
  BY <1>1, <1>4, EraseCallsKeeps DEF FinishPass
<1>5. ASSUME \/ Library \/ AddMachinePasses \/ StartPasses \/ RunOtherPass
             \/ StartEmitter \/ EmitInstruction \/ EmitPlainCall \/ EmitSink \/ EmitterFails
             \/ NextBlock \/ FinishEmitter
             \/ UNCHANGED vars
      PROVE  UNCHANGED <<func, liveIn, source, ran>>
  BY <1>5 DEF Library, AddMachinePasses, StartPasses, RunOtherPass, StartEmitter,
              EmitInstruction, EmitPlainCall, EmitSink, EmitterFails, NextBlock, FinishEmitter,
              EmitterStep, vars, passVars, codeGenVars
<1> QED
  BY <1>1, <1>2, <1>3, <1>4, <1>5, FuncInvUnchanged DEF Next

(* Every step keeps to the phases.                                         *)
LEMMA PhaseStep == Inv /\ [Next]_vars => PhaseInv'
<1> SUFFICES ASSUME Inv, [Next]_vars
             PROVE  PhaseInv'
  OBVIOUS
<1>1. PhaseInv /\ FuncInv /\ PipelineInv
  BY DEF Inv
<1>2. CASE RunOnMachineFunction
  <2>1. /\ phase = "run" /\ source' = source /\ layout' = layout
        /\ fatal' # fatal => Cardinality(GetCallers(source.blocks)) > 1
    BY <1>1, <1>2, PassStepKeeps DEF RunOnMachineFunction, NextPassIs
  <2> QED
    BY <1>1, <1>2, <2>1 DEF RunOnMachineFunction, PhaseInv, GivesUpOnlyWhen
<1>3. CASE EmitterFails
  <2>1. layout' = layout /\ layout.decorated > RetAlign - StashBytes /\ phase' = "failed"
    BY <1>3 DEF EmitterFails, EmitFails, EmitterStep
  <2> QED
    BY <1>1, <1>3, <2>1 DEF EmitterFails, EmitterStep, passVars, PhaseInv, GivesUpOnlyWhen
<1>4. CASE FinishPass
  BY <1>1, <1>4 DEF FinishPass, EraseCalls, NextPassIs, PhaseInv, GivesUpOnlyWhen
<1>5. CASE \/ StartPasses \/ AddMachinePasses \/ RunOtherPass \/ StartEmitter
  BY <1>1, <1>5 DEF StartPasses, AddMachinePasses, RunOtherPass, StartEmitter, NextPassIs,
                    passVars, PhaseInv, GivesUpOnlyWhen
<1>6. CASE \/ EmitInstruction \/ EmitPlainCall \/ EmitSink \/ NextBlock \/ FinishEmitter
  BY <1>1, <1>6 DEF EmitInstruction, EmitPlainCall, EmitSink, NextBlock, FinishEmitter,
                    EmitterStep, EmitterAt, passVars, PhaseInv, GivesUpOnlyWhen
<1>7. CASE Library
  BY <1>1, <1>7 DEF Library, passVars, codeGenVars, PhaseInv, GivesUpOnlyWhen
<1>8. CASE \E f \in Functions : StartCompiler(f)
  BY <1>1, <1>8 DEF StartCompiler, PhaseInv, GivesUpOnlyWhen
<1>9. CASE UNCHANGED vars
  BY <1>1, <1>9 DEF vars, passVars, codeGenVars, PhaseInv, GivesUpOnlyWhen
<1> QED
  BY <1>2, <1>3, <1>4, <1>5, <1>6, <1>7, <1>8, <1>9 DEF Next

(* Where the emitter is, and what the block is.                            *)
LEMMA EmitterHere ==
    ASSUME FuncInv, EmitterOK, NEW ops, EmitterAt(ops)
    PROVE  /\ bb \in DOMAIN func /\ func[bb] \in Seq(Instr) /\ BlockOK(func[bb])
           /\ at \in Nat /\ at \in DOMAIN func[bb] /\ at >= 1
           /\ func[bb][at].op \in ops /\ func[bb][at] \in Instr
           /\ EmitterAtOK(func[bb], at)
<1>1. /\ bb \in DOMAIN func /\ at \in Nat /\ at >= 1 /\ EmitterAtOK(func[bb], at)
      /\ at <= Len(func[bb]) /\ func[bb][at].op \in ops
  BY DEF FuncInv, EmitterOK, EmitterAt, Here
<1>2. BlockOK(func[bb])
  BY <1>1 DEF FuncInv
<1>3. func[bb] \in Seq(Instr)
  BY <1>2 DEF BlockOK
<1> QED
  BY <1>1, <1>2, <1>3

(* What comes before a silent instruction was silent too.                  *)
LEMMA SilentPrefix ==
    ASSUME NEW block, NEW c \in Nat, NEW p \in Nat, c < p, AllSilent(block, c, p + 1)
    PROVE  AllSilent(block, c, p) /\ block[p].op \in Silent
<1>1. p \in c + 1 .. p + 1 - 1
  OBVIOUS
<1>2. \A h \in c + 1 .. p - 1 : h \in c + 1 .. p + 1 - 1
  OBVIOUS
<1> QED
  BY <1>1, <1>2 DEF AllSilent

(* The emitter passes an instruction that calls nothing.                   *)
LEMMA EmitInstructionKeeps ==
    ASSUME FuncInv, EmitterOK, EmitInstruction
    PROVE  EmitterOK'
<1> DEFINE block == func[bb]
<1>1. /\ bb \in DOMAIN func /\ block \in Seq(Instr)
      /\ at \in Nat /\ at \in DOMAIN block /\ at >= 1
      /\ block[at].op \in {"arg", "copy", "use", "other"}
      /\ EmitterAtOK(block, at)
  BY EmitterHere DEF EmitInstruction
<1>2. /\ at' = at + 1 /\ func' = func /\ bb' = bb /\ phase' = phase
      /\ rdi' = IF block[at].op = "arg" THEN block[at].node ELSE rdi
      /\ r14' = IF block[at].op = "copy" THEN rdi ELSE r14
  BY DEF EmitInstruction, EmitterStep, passVars, Here
<1>3. bb \in Nat \ {0} /\ bb <= Len(func)
  BY DEF EmitInstruction, EmitterAt, EmitterOK
<1> HIDE DEF block
<1>4. ASSUME NEW c \in 1 .. at, block[c] = Copy, ArgAt(block, c), AllSilent(block, c, at + 1)
      PROVE  r14' = block[c - 1].node
  <2>1. CASE c = at
    <3>1. at > 1 /\ block[at - 1].op = "arg"
      BY <1>4, <2>1 DEF ArgAt
    <3>2. rdi = block[at - 1].node
      BY <1>1, <3>1 DEF EmitterAtOK
    <3> QED
      BY <1>2, <1>4, <2>1, <3>2, Instructions
  <2>2. CASE c < at
    <3>1. AllSilent(block, c, at) /\ block[at].op \in Silent
      BY <1>1, <1>4, <2>2, SilentPrefix
    <3>2. r14 = block[c - 1].node
      BY <1>1, <1>4, <2>2, <3>1 DEF EmitterAtOK
    <3> QED
      BY <1>2, <3>1, <3>2 DEF Silent
  <2> QED
    BY <1>1, <2>1, <2>2
<1> DEFINE q == at + 1
<1>5. q <= Len(block) + 1 /\ q - 1 = at /\ q \in Nat \ {0} /\ at' = q
  BY <1>1, <1>2
<1>6. EmitterAtOK(block, at)'
  <2>1. block' = block
    BY <1>2 DEF block
  <2>2. \A c \in 1 .. q - 1 : block[c] = Copy /\ ArgAt(block, c) /\ AllSilent(block, c, q)
            => r14' = block[c - 1].node
    BY <1>4, <1>5
  <2> HIDE DEF q
  <2>3. /\ q > 1 => block[q - 1].op # "stash"
        /\ q > 1 /\ block[q - 1].op = "arg" => rdi' = block[q - 1].node
    BY <1>1, <1>2, <1>5
  <2> QED
    BY <1>5, <2>1, <2>2, <2>3 DEF EmitterAtOK
<1> QED
  BY <1>2, <1>3, <1>5, <1>6 DEF EmitterOK, block

(* A call, and one that is given a node, break the silence.                *)
LEMMA EmitCallKeeps ==
    ASSUME FuncInv, EmitterOK, UNCHANGED <<func, bb, phase>>,
           NEW ops, EmitterAt(ops),
           NEW n \in {0, 1}, at + n \in DOMAIN func[bb], func[bb][at + n].op = "call",
           at' = at + n + 1
    PROVE  EmitterOK'
<1> DEFINE block == func[bb]
<1>1. /\ block \in Seq(Instr) /\ at \in Nat /\ at >= 1 /\ bb <= Len(func) /\ bb \in Nat \ {0}
  BY EmitterHere DEF EmitterOK, EmitterAt
<1>2. block' = block /\ bb' = bb /\ phase' = phase /\ func' = func
  OBVIOUS
<1>3. at + n \in DOMAIN block /\ block[at + n].op = "call"
  OBVIOUS
<1> HIDE DEF block
<1> DEFINE p == at + n
<1>4. p \in Nat /\ p >= 1 /\ p <= Len(block)
  BY <1>1, <1>3
<1>5. p \in DOMAIN block /\ block[p].op = "call" /\ at' = p + 1
  BY <1>3
<1> HIDE DEF p
<1>6. ASSUME NEW c \in 1 .. p, block[c] = Copy, AllSilent(block, c, p + 1)
      PROVE  FALSE
  <2>1. c # p
    BY <1>5, <1>6, Instructions
  <2>2. block[p].op \in Silent
    BY <1>4, <1>6, <2>1, SilentPrefix
  <2> QED
    BY <1>5, <2>2 DEF Silent
<1> DEFINE q == p + 1
<1>7. q <= Len(block) + 1 /\ q - 1 = p /\ q \in Nat \ {0} /\ at' = q
  BY <1>1, <1>4, <1>5
<1>8. EmitterAtOK(block, at)'
  <2>2. \A c \in 1 .. q - 1 : ~(block[c] = Copy /\ ArgAt(block, c) /\ AllSilent(block, c, q))
    BY <1>6, <1>7
  <2> HIDE DEF q
  <2>3. block[q - 1].op \notin {"stash", "arg"}
    BY <1>5, <1>7
  <2> QED
    BY <1>2, <1>7, <2>2, <2>3 DEF EmitterAtOK
<1> QED
  BY <1>1, <1>2, <1>5, <1>7, <1>8 DEF EmitterOK, block

(* Every step keeps track of the registers.                                *)
LEMMA EmitterStepOK == Inv /\ [Next]_vars => EmitterOK'
<1> SUFFICES ASSUME Inv, [Next]_vars
             PROVE  EmitterOK'
  OBVIOUS
<1>1. PhaseInv /\ FuncInv /\ EmitterOK
  BY DEF Inv
<1>2. CASE EmitInstruction
  BY <1>1, <1>2, EmitInstructionKeeps
<1>3. CASE EmitPlainCall
  <2>1. UNCHANGED <<func, bb, phase>> /\ at' = at + 1 /\ EmitterAt({"call"})
    BY <1>3 DEF EmitPlainCall, EmitterStep, passVars
  <2>2. at \in DOMAIN func[bb] /\ func[bb][at].op = "call" /\ at \in Nat
    BY <1>1, <2>1, EmitterHere
  <2>3. at + 0 = at
    BY <2>2
  <2> QED
    BY <1>1, <2>1, <2>2, <2>3, EmitCallKeeps
<1>4. CASE EmitSink
  <2>1. UNCHANGED <<func, bb, phase>> /\ at' = at + 2 /\ EmitterAt({"stash"})
    BY <1>4 DEF EmitSink, EmitterStep, passVars
  <2>2. at \in Nat /\ StashOK(func[bb], at)
    BY <1>1, <2>1, EmitterHere DEF BlockOK
  <2>3. at + 1 \in DOMAIN func[bb] /\ func[bb][at + 1].op = "call"
    BY <2>2 DEF StashOK, MayTake
  <2>4. at + 2 = at + 1 + 1
    BY <2>2
  <2> QED
    BY <1>1, <2>1, <2>3, <2>4, EmitCallKeeps
<1>5. CASE NextBlock
  <2>1. phase' = phase /\ func' = func /\ bb' = bb + 1 /\ at' = 1 /\ bb \in Nat \ {0}
    BY <1>1, <1>5 DEF NextBlock, passVars, EmitterOK
  <2>2. bb + 1 <= Len(func) => Len(func[bb + 1]) \in Nat
    <3>1. func \in Seq(Seq(Instr))
      BY <1>1 DEF FuncInv
    <3>2. bb + 1 <= Len(func) => bb + 1 \in DOMAIN func
      BY <2>1, <3>1
    <3> QED
      BY <3>1, <3>2
  <2>3. (bb <= Len(func) => EmitterAtOK(func[bb], at))'
    BY <2>1, <2>2 DEF EmitterAtOK
  <2> QED
    BY <2>1, <2>3 DEF EmitterOK
<1>6. CASE StartEmitter
  <2>1. func' = func /\ bb' = 1 /\ at' = 1
    BY <1>1, <1>6 DEF StartEmitter, passVars, PhaseInv
  <2>2. 1 <= Len(func) => Len(func[1]) \in Nat
    BY <1>1 DEF FuncInv
  <2>3. (bb <= Len(func) => EmitterAtOK(func[bb], at))'
    BY <2>1, <2>2 DEF EmitterAtOK
  <2> QED
    BY <2>1, <2>3 DEF EmitterOK
<1>7. ASSUME \/ Library \/ \E f \in Functions : StartCompiler(f)
             \/ AddMachinePasses \/ StartPasses \/ RunOnMachineFunction \/ FinishPass
             \/ RunOtherPass \/ EmitterFails \/ FinishEmitter
      PROVE  phase' # "emit"
  BY <1>7 DEF Library, StartCompiler, AddMachinePasses, StartPasses, RunOnMachineFunction,
              FinishPass, RunOtherPass, NextPassIs, EmitterFails, FinishEmitter, codeGenVars
<1>8. CASE UNCHANGED vars
  <2>1. UNCHANGED <<phase, func, bb, at, rdi, r14>>
    BY <1>8 DEF vars, codeGenVars, passVars
  <2> QED
    BY <1>1, <2>1 DEF EmitterOK, EmitterAtOK
<1> QED
  BY <1>2, <1>3, <1>4, <1>5, <1>6, <1>7, <1>8 DEF Next, EmitterOK

(* The call of a sink is given the node in r14.                            *)
LEMMA SinkArrives ==
    ASSUME FuncInv, EmitterOK, EmitSink, NEW a \in arrivals' \ arrivals
    PROVE  ArrivalOK(a)'
<1> DEFINE block == func[bb]
<1>1. /\ block \in Seq(Instr) /\ BlockOK(block) /\ at \in Nat /\ at \in DOMAIN block
      /\ block[at].op = "stash"
      /\ EmitterAtOK(block, at)
  BY EmitterHere DEF EmitSink
<1>2. /\ a.callee = block[at + 1].sym /\ a.meant = block[at + 1].node
      /\ a.given = r14 /\ a.ret = addr'
      /\ [ret |-> addr', decorated |-> TRUE] \in returns'
  <2>1. a = [callee |-> block[at + 1].sym, meant |-> block[at + 1].node,
             given |-> r14, ret |-> addr']
    BY DEF EmitSink, Arrives
  <2>2. [ret |-> addr', decorated |-> TRUE] \in returns'
    BY DEF EmitSink, EmitDecoratedCall
  <2> HIDE DEF block
  <2> QED
    BY <2>1, <2>2
<1> HIDE DEF block
<1>3. PICK c \in 1 .. at - 1 :
           /\ block[c] = Copy /\ ArgAt(block, c)
           /\ AllSilent(block, c, at)
           /\ MayTake(block[at + 1], block[c - 1].node)
  BY <1>1 DEF BlockOK, StashOK
<1>4. r14 = block[c - 1].node /\ r14 \in Nodes
  BY <1>1, <1>3 DEF EmitterAtOK, ArgAt
<1>5. \/ block[at + 1].node = r14
      \/ block[at + 1].node = None /\ block[at + 1].sym \notin Decorated
  BY <1>3, <1>4 DEF MayTake
<1> QED
  BY <1>2, <1>4, <1>5 DEF ArrivalOK

(* A call that is given nothing was not to be given anything.              *)
LEMMA PlainArrives ==
    ASSUME FuncInv, EmitterOK, EmitPlainCall, NEW a \in arrivals' \ arrivals
    PROVE  ArrivalOK(a)'
<1> DEFINE block == func[bb]
<1>1. /\ block \in Seq(Instr) /\ at \in Nat /\ at \in DOMAIN block /\ bb \in DOMAIN func
      /\ block[at].op = "call" /\ block[at] \in Instr
      /\ EmitterAtOK(block, at)
  BY EmitterHere DEF EmitPlainCall
<1>2. /\ a.meant = block[at].node /\ a.ret = addr'
      /\ [ret |-> addr', decorated |-> FALSE] \in returns'
      /\ ran' = ran /\ source' = source
  <2>1. a = [callee |-> block[at].sym, meant |-> block[at].node, given |-> r14, ret |-> addr']
    BY DEF EmitPlainCall, Arrives, Here
  <2>2. /\ [ret |-> addr', decorated |-> FALSE] \in returns'
        /\ ran' = ran /\ source' = source
    BY DEF EmitPlainCall, EmitCall, EmitterStep
  <2> HIDE DEF block
  <2> QED
    BY <2>1, <2>2
<1>3. ASSUME ran, a.meant # None, SetImmediately(a.meant)
      PROVE  FALSE
  <2>1. a.meant \in Nodes
    <3> HIDE DEF block
    <3> QED
      BY <1>1, <1>2, <1>3 DEF Instr
  <2>2. GivenOK(block, a.meant)
    BY <1>1, <1>3, <2>1 DEF FuncInv
  <2>3. \A i \in 1 .. at - 1 : block[i] # SetCaller
    <3>1. \A i \in 1 .. at - 1 : i \in DOMAIN block
      BY <1>1
    <3> QED
      BY <1>1, <1>3, <3>1 DEF FuncInv
  <2> HIDE DEF block
  <2> QED
    BY <1>1, <1>2, <2>2, <2>3 DEF GivenOK, EmitterAtOK
<1>4. SetImmediately(a.meant)' <=> SetImmediately(a.meant)
  BY <1>2 DEF SetImmediately
<1> HIDE DEF block
<1> QED
  BY <1>2, <1>3, <1>4 DEF ArrivalOK

(* Returns are not forgotten.                                              *)
LEMMA ArrivalKept ==
    ASSUME NEW a, ArrivalOK(a), returns \subseteq returns', UNCHANGED <<ran, source>>
    PROVE  ArrivalOK(a)'
<1>1. SetImmediately(a.meant)' <=> SetImmediately(a.meant)
  BY DEF SetImmediately
<1> QED
  BY <1>1 DEF ArrivalOK

(* Every step keeps what is known of the calls.                            *)
LEMMA ArrivalsStep == Inv /\ [Next]_vars => ArrivalsOK'
<1> SUFFICES ASSUME Inv, [Next]_vars
             PROVE  ArrivalsOK'
  OBVIOUS
<1>1. PhaseInv /\ FuncInv /\ EmitterOK /\ ArrivalsOK
  BY DEF Inv
<1>2. CASE EmitSink
  <2>1. returns \subseteq returns' /\ UNCHANGED <<ran, source>>
    BY <1>2 DEF EmitSink, EmitDecoratedCall, EmitterStep
  <2> QED
    BY <1>1, <1>2, <2>1, SinkArrives, ArrivalKept DEF ArrivalsOK
<1>3. CASE EmitPlainCall
  <2>1. returns \subseteq returns' /\ UNCHANGED <<ran, source>>
    BY <1>3 DEF EmitPlainCall, EmitCall, EmitterStep
  <2> QED
    BY <1>1, <1>3, <2>1, PlainArrives, ArrivalKept DEF ArrivalsOK
<1>4. ASSUME \/ EmitInstruction \/ EmitterFails \/ NextBlock \/ FinishEmitter
             \/ UNCHANGED vars
      PROVE  UNCHANGED <<returns, ran, source, arrivals>>
  BY <1>4 DEF EmitInstruction, EmitCode, EmitterFails, EmitFails, NextBlock, FinishEmitter,
              EmitterStep, vars, codeGenVars, stashVars
<1>5. ASSUME \/ Library \/ \E f \in Functions : StartCompiler(f)
             \/ AddMachinePasses \/ StartPasses \/ RunOnMachineFunction \/ FinishPass
             \/ RunOtherPass \/ StartEmitter
      PROVE  arrivals' = {}
  BY <1>1, <1>5 DEF PhaseInv, Library, StartCompiler, AddMachinePasses, StartPasses,
                    RunOnMachineFunction, FinishPass, RunOtherPass, NextPassIs, StartEmitter,
                    codeGenVars
<1>6. CASE UNCHANGED <<returns, ran, source, arrivals>>
  BY <1>1, <1>6, ArrivalKept DEF ArrivalsOK
<1>7. CASE arrivals' = {}
  BY <1>7 DEF ArrivalsOK
<1> QED
  BY <1>2, <1>3, <1>4, <1>5, <1>6, <1>7 DEF Next

(* The invariant is inductive.                                             *)
LEMMA InvInitial == Init => Inv
<1> SUFFICES ASSUME Init
             PROVE  Inv
  OBVIOUS
<1>1. RegistryInv
  BY RegistryInitial DEF Init
<1>2. PipelineInv /\ PhaseInv /\ EmitterOK /\ ArrivalsOK
  <2>1. passes = <<>> /\ DOMAIN passes = {} /\ passes \in Seq(Passes \cup {"regalloc"})
    BY DEF Init
  <2>2. PipelineInv
    BY <2>1 DEF Init, PipelineInv, NoneAfterAlloc
  <2>3. PhaseInv
    BY DEF Init, PhaseInv, GivesUpOnlyWhen
  <2>4. EmitterOK /\ ArrivalsOK
    BY DEF Init, EmitterOK, ArrivalsOK
  <2> QED
    BY <2>2, <2>3, <2>4
<1>3. FuncInv
  <2>1. func = <<>> /\ source.blocks = <<>> /\ ran = FALSE /\ liveIn = FALSE
    BY DEF Init
  <2>2. DOMAIN func = {} /\ func \in Seq(Seq(Instr))
    BY <2>1
  <2>3. Cardinality(GetCallers(func)) \in Nat
    BY <2>2, CallersFinite
  <2>4. Cardinality(GetCallers(func)) + (IF liveIn THEN 1 ELSE 0)
            <= Cardinality(GetCallers(source.blocks))
    BY <2>1, <2>3
  <2> QED
    BY <2>1, <2>2, <2>4 DEF FuncInv
<1> QED
  BY <1>1, <1>2, <1>3 DEF Inv

(* Every part of it has been shown to be kept.                             *)
LEMMA InvStep == Inv /\ [Next]_vars => Inv'
BY RegistryStep, RegistryOfStep, PhaseStep, PipelineStep, FuncStep, EmitterStepOK, ArrivalsStep
   DEF Inv

(* So it holds in every state of the compiler.                             *)
LEMMA InvAlways == Spec => []Inv
BY InvInitial, InvStep, PTL DEF Spec

(* drti-target.cpp, resolveCaller: whichever libraries are loaded and      *)
(* whatever they register, no run of the pass comes after allocation.      *)
THEOREM PassBeforeRegAlloc == Spec => []RunsBeforeRegAlloc
<1>1. Inv => RunsBeforeRegAlloc
  <2> SUFFICES ASSUME PipelineInv, NextPassIs("drti")
               PROVE  ~allocated
    BY DEF Inv, RunsBeforeRegAlloc
  <2>1. passes \in Seq(Passes \cup {"regalloc"}) /\ passes # <<>> /\ Head(passes) = "drti"
    BY DEF PipelineInv, NextPassIs
  <2>2. 1 \in DOMAIN passes /\ passes[1] = "drti"
    BY <2>1
  <2> QED
    BY <2>2 DEF PipelineInv
<1> QED
  BY <1>1, InvAlways, PTL

(* In every function the emitter gets no pseudo call, nothing that reads   *)
(* the result of one and no call that was to be erased.                    *)
THEOREM CallsErased == Spec => []PseudoCallsGone
<1>1. Inv => PseudoCallsGone
  BY DEF Inv, FuncInv, PseudoCallsGone
<1> QED
  BY <1>1, InvAlways, PTL

(* In the code of every function, a decorated callee that finds the magic  *)
(* value finds the treenode of the call that reached it in r14.            *)
THEOREM NodesOwn == Spec => []OwnNode
<1>1. Inv /\ MagicExact => OwnNode
  <2> SUFFICES ASSUME ArrivalsOK, MagicExact, NEW a \in arrivals, Recognised(a.ret),
                      a.callee \in Decorated
               PROVE  a.meant # None /\ a.given = a.meant
    BY DEF Inv, OwnNode
  <2>1. ~([ret |-> a.ret, decorated |-> FALSE] \in returns)
    BY DEF MagicExact
  <2>2. a.given \in Nodes /\ a.meant = a.given
    BY <2>1 DEF ArrivalsOK, ArrivalOK
  <2> QED
    BY <2>2, MachineAssumption
<1> QED
  BY <1>1, InvAlways, CallsRecognised, PTL

(* Every call that was decorated, and before which no other call was put,  *)
(* arrives with the magic value and its node.                              *)
THEOREM NodesArrive == Spec => []NodeDelivered
<1>1. Inv /\ MagicExact => NodeDelivered
  <2> SUFFICES ASSUME ArrivalsOK, MagicExact, ran, NEW a \in arrivals, a.meant # None,
                      SetImmediately(a.meant)
               PROVE  Recognised(a.ret) /\ a.given = a.meant
    BY DEF Inv, NodeDelivered
  <2>1. /\ [ret |-> a.ret, decorated |-> TRUE] \in returns
        /\ a.meant \in {a.given, None}
    BY DEF ArrivalsOK, ArrivalOK
  <2> DEFINE r == [ret |-> a.ret, decorated |-> TRUE]
  <2>2. r \in returns /\ r.ret = a.ret /\ r.decorated = TRUE
    BY <2>1
  <2> HIDE DEF r
  <2> QED
    BY <2>1, <2>2 DEF MagicExact
<1> QED
  BY <1>1, InvAlways, CallsRecognised, PTL

(* The compilation of a function never fails for another reason than two   *)
(* decorated functions in one, or a call sequence that is too long.        *)
THEOREM FailuresExact == Spec => []GivesUpOnlyWhen
<1>1. Inv => GivesUpOnlyWhen
  BY DEF Inv, PhaseInv
<1> QED
  BY <1>1, InvAlways, PTL
=============================================================================
