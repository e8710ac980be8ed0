------------------------------ MODULE CodeGen ------------------------------
(***************************************************************************)
(* The compilation of one machine function with the three parts of DRTI    *)
(* that live in LLVM's code generator: TargetExtensions decides which      *)
(* passes run, and when; MachinePass rewrites the pseudo calls; Stash lays *)
(* out the result.  What comes of it is what CallTree takes for granted:   *)
(* a decorated function that recognises the magic value before its return  *)
(* address finds in r14 the treenode of the call that reached it.          *)
(*                                                                         *)
(* The emitter follows the contents of rdi and r14 through the straight-   *)
(* line code around each call.  The register allocator keeps r14 from the  *)
(* copy to the call that kills it and may use it for anything elsewhere.   *)
(***************************************************************************)
EXTENDS TargetExtensions, MachinePass, Stash

CONSTANTS
    Functions,      \* machine functions: whether for x86-64 Linux, and their blocks
    Layouts,        \* lengths of the instructions of a function
    Decorated       \* the callees that have a prologue

Passes == {"drti", "other"}

(* Nothing between positions i and j of a block is a call.                 *)
NoCall(block, i, j) == \A h \in i + 1 .. j - 1 : block[h].op # "call"

(* A call that may be given node k: the one that was decorated with it, or *)
(* one that has been put before that and is not decorated.                 *)
MayTake(call, k) ==
    /\ call.op = "call"
    /\ call.sym \in Callees
    /\ call.node = k \/ (call.node = None /\ call.sym \notin Decorated)

(* What decoration has made of a block: the argument of _drti_set_caller   *)
(* is set right before it and a call follows, no decorated one before its  *)
(* own; the value of _drti_caller is used, and used once.                  *)
AsDecorated(block) ==
    /\ block \in Seq(Instr)
    /\ \A i \in DOMAIN block :
        /\ block[i].op \in {"arg", "call", "use", "other"}
        /\ block[i].op = "arg" => block[i].node \in Nodes
        /\ block[i] = SetCaller =>
               /\ i > 1 /\ block[i - 1].op = "arg"
               /\ \E j \in DOMAIN block :
                      i < j /\ NoCall(block, i, j) /\ MayTake(block[j], block[i - 1].node)
        /\ block[i] = GetCaller => \E j \in DOMAIN block : i < j /\ block[j] = Use("rax")
        /\ block[i] = Use("rax") =>
               \E g \in 1 .. i - 1 : /\ block[g] = GetCaller
                                     /\ \A h \in g + 1 .. i - 1 : block[h] # Use("rax")

(* drti-target.cpp registers the pass at EP_PreRegAlloc.                   *)
ASSUME CodeGenAssumption ==
    /\ Decorated \subseteq Callees
    /\ Layouts \subseteq [plain : Lengths, call : Lengths, decorated : Lengths, jump : Lengths]
    /\ \A c \in Callbacks : c.pass \in Passes /\ (c.pass = "drti" => c.point = "PreRegAlloc")
    /\ \A f \in Functions : /\ f.blocks \in Seq(Seq(Instr))
                             /\ \A b \in DOMAIN f.blocks : AsDecorated(f.blocks[b])

VARIABLES
    phase,          \* what the compiler is doing
    source,         \* the function before the pass
    item,           \* the position of addMachinePasses in Pipeline
    passes,         \* the passes that have been added and not run yet
    ran,            \* the pass of DRTI has run
    allocated,      \* registers have been allocated
    layout,         \* the lengths of this function's instructions
    bb, at,         \* the block and the position in it that the emitter has reached
    rdi, r14,       \* the treenodes in these registers, or None
    arrivals        \* the calls emitted: who is called, for which node, what r14 holds

codeGenVars == <<phase, source, item, passes, ran, allocated, layout, bb, at, rdi, r14, arrivals>>

vars == <<registryVars, passVars, stashVars, codeGenVars>>

(* The points of addMachinePasses at which extensions are applied.         *)
Pipeline == <<"EarlyAsPossible", "PreRegAlloc", "regalloc", "PostRegAlloc", "PreSched2",
              "PreEmitPass", "PreEmitPass2", "LateAsPossible">>

(* mutant: extensions are applied one place too late                       *)
AddedLate(i) ==
    IF Pipeline[i] = "regalloc" THEN <<"regalloc">> \o PassesAt("PreRegAlloc")
    ELSE IF Pipeline[i] = "PreRegAlloc" THEN <<>>
    ELSE PassesAt(Pipeline[i])

(* maybeAddSelf looks at the target triple.                                *)
Added(i) ==
    IF Pipeline[i] = "regalloc" THEN <<"regalloc">>
    ELSE Selected(PassesAt(Pipeline[i]), IF source.native THEN Passes ELSE Passes \ {"drti"})

-----------------------------------------------------------------------------

Init ==
    /\ RegistryInit
    /\ StashInit
    /\ func = <<>> /\ liveIn = FALSE /\ fatal = FALSE
    /\ phase = "idle"
    /\ source = [native |-> FALSE, blocks |-> <<>>]
    /\ item = 1
    /\ passes = <<>>
    /\ ran = FALSE /\ allocated = FALSE
    /\ layout \in Layouts
    /\ bb = 1 /\ at = 1
    /\ rdi = None /\ r14 = None
    /\ arrivals = {}

(* Libraries are loaded and unloaded while no compiler runs.               *)
Library ==
    /\ phase = "idle"
    /\ RegistryNext
    /\ UNCHANGED <<passVars, stashVars, codeGenVars>>

StartCompiler(f) ==
    /\ phase = "idle"
    /\ phase' = "configure"
    /\ source' = f
    /\ func' = f.blocks
    /\ UNCHANGED <<registryVars, liveIn, fatal, stashVars, item, passes, ran, allocated,
                   layout, bb, at, rdi, r14, arrivals>>

AddMachinePasses ==
    /\ phase = "configure"
    /\ item <= Len(Pipeline)
    /\ passes' = passes \o Added(item)
    /\ item' = item + 1
    /\ UNCHANGED <<registryVars, passVars, stashVars, phase, source, ran, allocated,
                   layout, bb, at, rdi, r14, arrivals>>

StartPasses ==
    /\ phase = "configure"
    /\ item > Len(Pipeline)
    /\ phase' = "run"
    /\ UNCHANGED <<registryVars, passVars, stashVars, source, item, passes, ran, allocated,
                   layout, bb, at, rdi, r14, arrivals>>

NextPassIs(p) == phase = "run" /\ passes # <<>> /\ Head(passes) = p

RunOnMachineFunction ==
    /\ NextPassIs("drti")
    /\ PassStep
    /\ phase' = IF fatal' THEN "failed" ELSE phase
    /\ UNCHANGED <<registryVars, stashVars, source, item, passes, ran, allocated,
                   layout, bb, at, rdi, r14, arrivals>>

FinishPass ==
    /\ NextPassIs("drti")
    /\ EraseCalls
    /\ passes' = Tail(passes)
    /\ ran' = TRUE
    /\ UNCHANGED <<registryVars, stashVars, phase, source, item, allocated,
                   layout, bb, at, rdi, r14, arrivals>>

RunOtherPass ==
    /\ NextPassIs("regalloc") \/ NextPassIs("other")
    /\ passes' = Tail(passes)
    /\ allocated' = (allocated \/ Head(passes) = "regalloc")
    /\ UNCHANGED <<registryVars, passVars, stashVars, phase, source, item, ran,
                   layout, bb, at, rdi, r14, arrivals>>

StartEmitter ==
    /\ phase = "run"
    /\ passes = <<>>
    /\ phase' = "emit"
    /\ UNCHANGED <<registryVars, passVars, stashVars, source, item, passes, ran, allocated,
                   layout, bb, at, rdi, r14, arrivals>>

Here == func[bb][at]

EmitterAt(ops) ==
    /\ phase = "emit"
    /\ bb <= Len(func)
    /\ at <= Len(func[bb])
    /\ Here.op \in ops

EmitterStep(n) ==
    /\ at' = at + n
    /\ UNCHANGED <<registryVars, passVars, source, item, passes, ran, allocated, layout, bb>>

EmitInstruction ==
    /\ EmitterAt({"arg", "copy", "use", "other"})
    /\ EmitCode(layout.plain)
    /\ rdi' = IF Here.op = "arg" THEN Here.node ELSE rdi
    /\ r14' = IF Here.op = "copy" THEN rdi ELSE r14
    /\ EmitterStep(1)
    /\ UNCHANGED <<phase, arrivals>>

(* A call clobbers rdi, and preserves r14 unless it kills it.              *)
Arrives(call) ==
    /\ arrivals' = arrivals \cup {[callee |-> call.sym, meant |-> call.node,
                                   given |-> r14, ret |-> addr']}
    /\ rdi' = None

EmitPlainCall ==
    /\ EmitterAt({"call"})
    /\ EmitCall(layout.call)
    /\ Arrives(Here)
    /\ EmitterStep(1)
    /\ UNCHANGED <<phase, r14>>

EmitSink ==
    /\ EmitterAt({"stash"})
    /\ EmitDecoratedCall(layout.jump, layout.decorated)
    /\ Arrives(func[bb][at + 1])
    /\ r14' = None
    /\ EmitterStep(2)
    /\ UNCHANGED phase

EmitterFails ==
    /\ EmitterAt({"stash"})
    /\ EmitFails(layout.decorated)
    /\ phase' = "failed"
    /\ EmitterStep(0)
    /\ UNCHANGED <<rdi, r14, arrivals>>

NextBlock ==
    /\ phase = "emit"
    /\ bb <= Len(func)
    /\ at > Len(func[bb])
    /\ bb' = bb + 1
    /\ at' = 1
    /\ UNCHANGED <<registryVars, passVars, stashVars, phase, source, item, passes, ran, allocated,
                   layout, rdi, r14, arrivals>>

FinishEmitter ==
    /\ phase = "emit"
    /\ bb > Len(func)
    /\ phase' = "done"
    /\ UNCHANGED <<registryVars, passVars, stashVars, source, item, passes, ran, allocated,
                   layout, bb, at, rdi, r14, arrivals>>

Next ==
    \/ Library
    \/ \E f \in Functions : StartCompiler(f)
    \/ AddMachinePasses \/ StartPasses
    \/ RunOnMachineFunction \/ FinishPass \/ RunOtherPass
    \/ StartEmitter
    \/ EmitInstruction \/ EmitPlainCall \/ EmitSink \/ EmitterFails
    \/ NextBlock \/ FinishEmitter

Spec == Init /\ [][Next]_vars

-----------------------------------------------------------------------------
(* drti-target.cpp, resolveCaller: the pass has to run before register     *)
(* allocation, wherever other libraries put their extensions.              *)
RunsBeforeRegAlloc == NextPassIs("drti") => ~allocated

(* Once the pass has run, even twice because its library was loaded twice, *)
(* the emitter is given no pseudo call and nothing that reads its result.  *)
PseudoCallsGone ==
    phase = "emit" /\ ran =>
        \A b \in DOMAIN func : \A i \in DOMAIN func[b] :
            func[b][i] \notin {SetCaller, GetCaller, Use("rax"), Erased}

(* A decorated function that finds the magic value before its return       *)
(* address finds the node of this very call in r14: never that of another  *)
(* call of the function, nor anything else r14 was used for.               *)
OwnNode ==
    phase = "done" => \A a \in arrivals :
        Recognised(a.ret) /\ a.callee \in Decorated => a.meant # None /\ a.given = a.meant

(* In the function that decoration has made, no other call comes between a *)
(* _drti_set_caller and the call for node k.                               *)
SetImmediately(k) ==
    \A b \in DOMAIN source.blocks : \A j \in DOMAIN source.blocks[b] :
        LET block == source.blocks[b]
        IN block[j].op = "call" /\ block[j].node = k =>
               \E i \in 1 .. j - 1 : block[i] = SetCaller /\ NoCall(block, i, j)

(* Every call that was decorated delivers its node, unless another call    *)
(* was put before it.                                                      *)
NodeDelivered ==
    phase = "done" /\ ran => \A a \in arrivals :
        a.meant # None /\ SetImmediately(a.meant) => Recognised(a.ret) /\ a.given = a.meant

GetCallers(f) == {p \in PseudoCalls(f) : f[p[1]][p[2]] = GetCaller}

(* The compiler gives up for two reasons only: two decorated functions in  *)
(* one, or a call sequence too long for the space behind the magic value.  *)
GivesUpOnlyWhen ==
    phase = "failed" =>
        \/ Cardinality(GetCallers(source.blocks)) > 1
        \/ layout.decorated > RetAlign - StashBytes
=============================================================================
