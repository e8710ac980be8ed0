# A verification development for DRTI

DRTI decorates selected functions of a C++ program ahead of time so that they
find out at run time which functions they call through pointers, and recompiles
them with the callee inlined. This directory holds TLA+ modules that model it,
TLC configurations that check them on small programs, and proofs for TLAPS.

Paths such as `runtime.cpp:1004` are those of the repository, `drti/` and
`passes/` left out.

## 1. The system

### Components

| component | where | state it keeps | operations |
|---|---|---|---|
| decorated program | the user's code; `src/tests` | stacks, registers | call, tail call, return, throw |
| inline support | `drti-inline.cpp`, `runtime.hpp` | `static_callsite` (counter, vector of nodes), `treenode`, `landing_site` | `_drti_lookup_or_insert`, `_drti_call_from`, `_drti_landed` |
| hidden argument | `drti-target.cpp`, `add_landing_update`, `decorate_call` | r14, the magic 32 bytes before an aligned return address | set at a decorated call, tested and read on entry |
| inspection and recompilation | `runtime.cpp` | one `LLVMContext` and its recursive lock; compilers, never deleted | `inspect_treenode`, `compile_treenode`, `TreenodeCompiler` |
| reflected globals | `collect_globals`, `create_self`, `globalsMap` | `reflect`: bitcode and an array of addresses | list at decoration time, read back by position |
| call numbering | `collect_calls`, `reprocess` | `call_number` of each callsite | count the calls of a function, twice |
| decoration pass | `drti-decorate.cpp` | target names, functions and types; the module | `runOnModule` |
| machine pass | `drti-target.cpp` | a machine basic block | `resolveCaller`, `resolveSetCaller`, `insertInlineAsm` |
| LLVM extension registry | `llvm-drti.patch` | list of callbacks | register, run |
| `tree.hpp` | `drti/tree.hpp` | – | unused: nothing includes it |

### How they interact

Take a chain `A* -> B* -> C*` of decorated functions.

1. `A*` calls `_drti_call_from(site, caller, &B)`: the site counts the call,
   finds or appends the node for `(caller, &B)` and counts it there.
2. `A*` calls the node's `resolved_target` with the node in r14 and a return
   address preceded by the magic.
3. The prologue of `B*` finds the magic, takes r14 for its caller's node and
   calls `_drti_landed`: the first arrival sets `node->landing` and calls
   `inspect_treenode`.
4. `B*` calls `C*` the same way, with `A*`'s node as the parent of its own.
   When `C*` lands, its node has a parent: a chain of three. The runtime locks
   the LLVM context, reads the bitcode of `C` and `B`, rewrites the call in `B`
   into `if (pointer == known) inlined C else call pointer`, compiles it, and
   stores its address in the parent node's `resolved_target`.
5. `A*`'s next call through that node enters the recompiled, undecorated `B+`.

### What is hard about it

* **Trust in r14.** r14 is callee-saved: it holds a node long after the call it
  was set for. Every entry to a decorated function decides from a few bytes
  before its return address. Undecorated code, jumps, other versions of DRTI
  and recompiled code all come between.
* **Threads.** Counters are atomics, but the vector of nodes, `landing` and
  `resolved_target` are plain memory, and compilation happens inside a call of
  the program, under a lock.
* **Partial failure.** Each step of a compilation may fail, in a constructor
  that holds the lock or half-way through linking.
* **Two readers of one bitcode.** The decoration pass and the runtime walk the
  same module at different times and must agree on numbers and positions.
* **Layout.** The stash is placed by assembler arithmetic at a fixed distance
  from the return address.

### What makes each component correct

* program: it makes exactly the calls its source asks for (`Transparent`).
* inline support: a site has one node per (parent, target); a call goes through
  its own node; no count is lost; a node is inspected once; no assert fails.
* hidden argument: an edge is recorded only for a direct call.
* recompilation: `resolved_target` is always a form of the node's target; no two
  threads use the LLVM context together; whoever enters the runtime leaves it.
* reflected globals: each name is given the address the linker gave it
  (`AddressesExact`), and the runtime never asks for more addresses than were
  saved (`EnoughStored`).
* linking: functions of one name in two units are kept apart (`StaticsApart`).
* call numbering: a callsite's number leads back to its call
  (`CallsitesFoundInSelf`).
* compilation: the parent gets the short cut its chain calls for, or the code it
  had (`ImplementsCompilation`).
* machine pass: each decorated call delivers its own node (`OwnNode`,
  `NodeDelivered`); the stash is where the prologue looks for it, for every
  length of the call sequence (`MagicExact`, `MagicReadable`).
* decoration pass: a module reported as unchanged is unchanged
  (`ReportsChange`).
* extension registry: a callback goes with its library and with no other
  (`OneOwner`, `RemovedByOwner`).

## 2. The modules

| module | models |
|---|---|
| `ProgramText` | the program's text: functions, sites, what each site may call, tail positions |
| `Program` | abstract specification: threads that call, jump, return and throw |
| `CallTree` | inline support, hidden argument, inspection and recompilation, composed with the program that drives them |
| `CallTreeProofs` | inductive invariant of `CallTree` when no tail call reaches a decorated function |
| `JumpProofs` | inductive invariant of `CallTree` for every program; calls are conserved |
| `TransparencyProofs` | with one thread `CallTree` implements `Program`; uniqueness of nodes |
| `MCCallTree` | three small programs for TLC |
| `Selection` | the loops that go through a list and keep some of its elements |
| `SelectionProofs` | what such a loop keeps, and where; used by the proofs of both pipelines |
| `Bitcode` | LLVM modules as lists of functions, calls and variables; which globals are listed, and in which order |
| `DecorateModule` | the decoration pass over the units of a program |
| `Recompile` | one compilation after another, from a chain to new code; extends `DecorateModule` |
| `Compilation` | abstract specification: what `CallTree` assumes of a compilation |
| `DecorateProofs`, `RecompileProofs` | their invariants; `Recompile` implements `Compilation` |
| `MCRecompile` | 90 programs of two units for TLC |
| `TargetExtensions` | the registry that `llvm-drti.patch` adds to LLVM |
| `MachinePass` | the rewriting of pseudo calls in machine code |
| `Stash` | the bytes around decorated calls, and the prologue's look at them |
| `CodeGen` | the compilation of one function, composed of the last three |
| `StashProofs`, `CodeGenProofs` | recognition of calls, readability, ownership; each call its own node |
| `MCCodeGen` | functions of up to three blocks for TLC |

The modules form three models, which meet at named assumptions:

* `CallTree` is the running program. Its steps `Lock`, `Construct`,
  `ConstructFails`, `Compile`, `CompileFails` are those of `Compilation`, and
  its `HasMagic` and `entry` are what `CodeGen` shows of machine code.
* `DecorateModule` and `Recompile` are the two readers of the bitcode, in the
  compiler's process and in the program's. `Recompile` implements `Compilation`.
* `CodeGen` is the code generator; it makes `CallTree`'s view of r14 and of the
  return address true.

### ProgramText and Program

A thread is a stack of activations. `Evaluate` fixes the target of a call and
`Enter` makes it: a decorated call takes time between the two, and recompiled
code compares the target before it calls. `Jump` replaces the activation of a caller that has nothing left to
do. `Throw` unwinds to any activation that can still catch. `last` marks an
activation whose tail call has been made as a real call: it can only return.

### CallTree

**Code.** `Aot(f)` is the function as the linker placed it, decorated when `f`
is a target. `Bitcode(f)` is what the saved, undecorated bitcode of `f` gives.
`Jit(f, s, known, leaf)` is `f` recompiled with the short cut at site `s`.

**Hidden argument.** Instead of registers and bytes each activation carries
`entry`: the node its return address leads to. A decorated call (`Dispatch`)
pushes a return address that leads to its node; an undecorated call
(`PlainCall`) one that leads to none, whatever r14 holds; `Jump` leaves the
entry of the activation it replaces, because r14 is callee-saved and a jump
pushes nothing. `HasMagic` is the test of the prologue; the magic contains the
version, so versions are compared too.

**Calls.**

| action | code |
|---|---|
| `Evaluate` | the operands of a call are computed: the pointer is known |
| `CallDecorated` | `_drti_call_from`: `total_calls` |
| `LookupHit`, `LookupMiss` | the loop over `site.nodes` |
| `Insert` | the assert on the caller's version; `emplace_back` |
| `Back` | `return site.nodes.back().get()` |
| `Dispatch` | `chain_calls`; the load of `resolved_target`; the call |
| `PlainCall` | every call that is not decorated; in recompiled code, the short cut, the slow path or the inlined body |
| `Jump` | the same calls when the code generator makes a tail jump of them |
| `Landing` | `_drti_landed` up to the assignment; the two asserts |
| `Claim` | `landing = &site`; `inspect_treenode` |
| `Lock`, `Construct`, `ConstructFails` | the constructor of `TreenodeCompiler` |
| `Compile`, `CompileFails` | `compile`, and the store to `resolved_target` |

**Shared state.** `tree` is the sequence of all nodes in the order they were
made, so the vector of a site is the subsequence of its nodes. `owner` and
`held` are the recursive mutex of the LLVM context; `Compile` and
`CompileFails` do not release it, because the compiler object is leaked.

**Abstractions.**

* The operations of `std::vector` are atomic steps, with other threads free to
  run between them. What concurrent `emplace_back` does to the array itself is
  undefined behaviour and not modelled: what the runs with two threads show
  holds as long as that race does no harm.
* A chain is recompiled at the call it came through. `Recompile` shows that this
  is so for calls with no inline assembly before them in their function.
* A function has one address: the linkage table and virtual thunks, through
  which one function may have several, are left out. `target` and `landing` are
  functions.
* Which error a failing compilation meets is left out: it fails or it does not.
  An argument that reprocess cannot convert is one such failure.
* What the optimiser does to a direct call inside recompiled code is both
  outcomes: a call of the ahead-of-time function, or of its saved bitcode.
* A failed assert sets `aborted`, and nothing runs afterwards. The model is of a
  build with asserts; the repository's makefiles define no `NDEBUG`.

### Bitcode, DecorateModule and Recompile

A unit is a `Module`: its variables, its functions with their bodies (a sequence
of calls) and the other globals they use. A call has an identity that only the
model can see, its kind (direct, through a pointer, inline assembly), the
functions it may reach and its type. The code has to find its way by names,
types and positions, and the properties compare the result with the identity.

| state | code |
|---|---|
| `source`, `module` | the unit before the pass, and as the pass has changed it |
| `stage`, `report` | the place in `runOnModule`; its result |
| `self` | `reflect`: the bitcode and the addresses of the listed globals |
| `callsites` | the `static_callsite` globals, each with its `call_number` |
| `step`, `chain` | the place in `compile_treenode`; the node being compiled |
| `map` | the symbol map that `ReflectedGlobals` answers from |
| `rewritten`, `resolved` | the call with a short cut in the module being compiled, and in the code of each function |
| `kept` | a leaked compiler holds the lock |

`RunOnModule` has one action per step and per early exit of `runOnModule`.
`AddLanding` decorates one function: it numbers and collects the calls, then
inserts the test at the entry, the update at the end and the lookups before the
calls. The functions are visited in any order.

`Discover` is the program landing in a function, which the program may do
whenever all units are decorated. `ReadModules` and `MapGlobals` are the
constructor of `TreenodeCompiler`, `LinkModules` is `linkModules`, `Rewrite` and
`LeaveCall` are `reprocess`, `Retarget` the lookup and the store; each has its
failure. `SymbolMap` gives the requests addresses by position (`Assigned`).

The linker goes by names, and a local symbol of one module is nothing to the
other, but `compile` changes that before it links: the leaf becomes linkonce
(`runtime.cpp:926`) and the caller external (`:934`), whatever they were, and
`globalsMap` has made the listed local variables `available_externally` (`:426`).
`Provided` and `Offered` are the names that one module then has for the other,
`Needed` the closure that `LinkOnlyNeeded` takes from the leaf's module. A leaf
that the caller's module neither declares nor needs is not in it. The runtime
looks it up by its name (`LeafFoundIn`): it may find a function of the caller's
unit instead, and if there is none the chain is refused (`LeafLinked`).

A name means what its unit's linkage makes of it (`Means`), and so a function is
a name with the unit it belongs to, or with `Extern` (`FunctionAddress`). In the
new code a reference is linked with a definition (`Provider`), or left to the
process's symbols and the map (`Resolve`); `Reached` is where it leads.

`Coerced` follows the code: it looks at the leaf's first parameter for every
argument, and so the two limits of `maybeCoerce`, on the position of the
parameter and on the number of conversions, never apply.

Types, names and addresses are values of small sets; an address is the pair of a
name and the unit that defines it, or `Extern`.

### TargetExtensions, MachinePass, Stash and CodeGen

`TargetExtensions` has a list of callbacks with their numbers, and for each
object of class `RegisterTargetExtension` the number it holds. `Shutdown` is
`llvm_shutdown`, after which the list is made anew by the next registration.

`MachinePass` has a machine function as blocks of instructions: moves of a node
to rdi, calls, uses of a result, the copy to r14, the stash, and other code. It
takes the pseudo calls in order: `ResolveSetCaller`, `ResolveCaller`, or
`ResolveFails`, which is `report_fatal_error`.

`Stash` is the assembler: an address, the return addresses and magic values so
far. `EmitDecoratedCall` aligns, puts the magic value, pads and puts the call;
`EmitFails` is the negative `.skip`.

`CodeGen` runs libraries that register and leave, then one compilation:
`AddMachinePasses` applies the extensions at each point of the patched pipeline,
the passes run in that order, and the emitter lays out the result block by block
through `Stash`, following rdi and r14. `AsDecorated` is what decoration leaves in
a block, the only kind of function the compiler is given. `arrivals` records, for each call, the node
that decoration made for it and the one it arrives with.

## 3. The runs

The programs are in `MCCallTree`, `MCRecompile` and `MCCodeGen`. In the first,
`main` plays `A`.

| run | threads | program | distinct states | shows |
|---|---|---|---|---|
| `pointers` | 1 | `main` calls B, E or U, B calls C or D, undecorated U calls B; E's module has another version and E tail-calls undecorated V | 291 988 | the call tree and every property of a single thread, refinement and liveness included |
| `threads` | 2 | `main` calls B, B calls C or D through a pointer | 808 794 | what survives the races: asserts, retargeting, exclusion, counting |
| `tail` | 1 | test3: B and undecorated T end with calls of decorated functions; E of another version | 22 035 | an assert fails only after a jump |
| `slowpath` | 1 | the same without T | violation | see below |
| `race` | 2 | as `threads` | violation | see below |
| `first` | 1 | as `threads` | violation | see below |
| `lock` | 2 | one chain | violation | see below |
| `pipeline` | – | 90 programs of two units | 23 800 | decoration and recompilation agree; every compilation keeps its contract |
| `positions`, `namesakes`, `numbers` | – | the same | violation | see below |
| `codegen` | – | functions with two decorated or ordinary calls in four layouts | 1 230 424 | the hidden argument from decoration to machine code |

### Properties

* `DirectEdges`: the README's requirement that an edge is recognised only when
  it is direct. `U` calls `B` with `main`'s node still in r14.
* `LandingExact`, `NoAssertFailure`: the asserts, and the comment at
  `runtime.hpp:113` that a target has one landing site.
* `ResolvedFaithful`: the comment at `runtime.hpp:110`, at every moment of every
  interleaving of compilations.
* `NodesUnique`, `CallsRequestedTarget`: `runtime.hpp:95` and `:108`. With one
  thread they say that retargeting does not confuse the lookup; nothing about
  threads follows: with two, `race` shows the second failing, and two threads that
  both miss in the lookup both append, so that the first does not hold either.
* `InspectOnce`: one thread inspects a node once, however often it is landed in
  again, from recompiled code too, and although its compilation failed. Two
  threads may inspect it together: `ResolvedFaithful` in `threads` is about that.
* `CallsConserved`: counted on the site = counted on its nodes + calls between
  the two, modulo the width of the counter.
* `CompilationsExclude`: the point of locking the shared context.
* `Transparent`: `CallTree` implements `Program`. `calls` is the stack without
  code and entries; `want` is the call a thread has evaluated. Since `Evaluate`
  fixes the target, a short cut or a node that leads elsewhere is a violation.
* `RuntimeReturns`: a thread that enters the runtime gets back to its program.
* `ReportsChange`: a pass manager keeps the analyses of an unchanged module.
* `CallsitesFoundInSelf`: the comment at `decorate.cpp:698`; the number of a
  callsite, in the bitcode saved before, is the one of the call it belongs to. It
  counts as decoration does; that the runtime counts differently is `numbers`.
* `EnoughStored`: the error that `globalsMap` checks for cannot occur.
* `AddressesExact`: recompiled code uses the variables and functions that the
  ahead-of-time code uses, with three exceptions that the code does have: a
  name that stands for two things (`Collides`), a variable of external linkage
  that is compiled again (`Duplicated`) and a function listed after one that was passed over
  (`Misplaced`). Nothing else can go wrong with a symbol.
* `StaticsApart`: what can happen to a function when the first of these is the
  case, for instance when two units have static functions of one name. Recompiled
  code calls the one its own unit means, or is not compiled: `globalsMap` passes
  over a name that the other module defines without looking at its linkage, so the
  symbol is then not found. The wrong one is called in two cases: `compile` has
  made it external, because it is the caller or the leaf (`Captured`), and
  `Misplaced`.
* `ImplementsCompilation`: the contract `Compilation` as a refinement. It makes
  two allowances: for a call after inline assembly (not `numbered`) the short cut
  may be at another call, and when the caller's unit has another function of the
  leaf's name (not `named`) it may call that one. `numbers` and `namesakes` show
  that both are needed.
* `OneOwner`, `RemovedByOwner`: callbacks and the objects that own them.
* `RunsBeforeRegAlloc`: the comment at `target.cpp:219`, whatever other
  libraries add to the pipeline.
* `PseudoCallsGone`: no pseudo call reaches the emitter, even when the pass runs
  twice.
* `OwnNode`: a prologue that finds the magic finds the node of this very call.
* `NodeDelivered`: every decorated call delivers its node, unless another call
  comes between it and its `_drti_set_caller`. In such a block the other call
  gets the node; what is decorated still never takes a foreign node.
* `GivesUpOnlyWhen`: the two reasons for which compilation may stop.
* `MagicExact`, `MagicReadable`: recognition, and the look before any return
  address.

### Bounds

`MaxDepth` is 4 with one thread (`main`, U, B, C, or `main`, B, T, C: the
deepest chains these programs have, so it cuts nothing off) and 3 with two (`main`, B, C). The tree
has no bound with one thread: the pairs (parent, target) are finite. In
`threads` the constraint `MaxNodes` = 3 allows one node for `main`'s call and
two below it, and the same pair twice, which is where the races are; a fourth
node only repeats them. `CounterModulus` stands for 2^64: 3 in `threads`, so
that counters wrap within the run, and 1 elsewhere, where no property reads
them. `ThreadSymmetry` is sound: threads start alike and the run has only
invariants.

`pipeline` has two units, which is what a compilation works on, and in them one
of each kind that the code distinguishes: variables that are constant, local,
shared or LLVM's own; functions defined, declared and intrinsic, declared before
and after one that the other unit defines; calls that are direct, through a
pointer and after inline assembly; arguments equal, convertible, not
convertible and two of different types; static variables with equal and with
different names; a static function with the name of one that the other unit
declares, in the caller's unit and in the leaf's; a unit for another processor and
a unit without targets. Six programs have a static leaf or caller
(`StaticPrograms`): linked in for the sake of another function, beside a static or
an external function of its name in the caller's unit, and declared by the other
unit, which means another one. Anonymous namespaces give the case of two local
functions of one name; a local and an external one have the same name in C only,
or under `extern "C"`, since C++ mangles them differently.
Compilations follow one another without a bound, since `resolved` is finite.

`codegen` has two decorated calls, so that one can be taken for the other, with
nothing, code or a call after `_drti_set_caller`, and a second landing. `MaxId`
= 2 callbacks: two libraries, or one loaded twice. The lengths in `MCLayouts`
are the shortest and the longest call that fits, 24 bytes, and 25; the ordinary
calls of one layout are as long as the alignment, so that they return to aligned
addresses; `MCStarts` begins a section at a page and near the end of one. What
the layout does for other lengths and longer code is proved.

### Fairness

`FairSpec` has weak fairness for the steps of each thread inside the runtime and
none for the program: the program may loop or wait for ever, but between the
entry and the exit of the runtime there is only straight-line code and a mutex,
which a scheduled thread runs to its end. The models of the pipeline and of
code generation have no fairness and no liveness property: their steps are
sequential code in one process, which ends or fails.

### Where the code and its documents disagree

* `slowpath`. Recompiled B is not decorated and its bitcode was saved before
  decoration marked its calls `notail`, so its slow path may be a jump. D is
  then entered with the return address and r14 that `main` set for B, and
  `assert(caller->landing == &site)` stops a program that has no undecorated
  function. The README describes the gap for undecorated functions only, and
  promises a "slower path" here.
* `race`. Between `emplace_back` and `back` another thread may append; the
  first thread then calls the second's target.
* `first`. The README says the first target encountered is hard-coded. When an
  activation of `B*` calls C and then D, the second compilation starts from the
  saved bitcode again and replaces the first.
* `lock`. The compiler is leaked with the lock in it; the second thread to
  discover a chain never returns.
* `positions`. `globalsMap` passes over a declared function that the other
  module defines, but not over its saved address: every function declared after
  it gets the address of its predecessor. Symbols that the process exports hide
  this, because the process is searched first.
* `namesakes`. The leaf is looked up by its name in the linked module. When the
  caller's unit has a static function of that name too, the short cut calls that
  one, although the pointer was compared with the leaf's address.
* `numbers`. Inline assembly is numbered by the runtime and not by decoration, so
  that after it `call_number` leads to another call. `Compilation` states what
  remains true: the short cut may appear at another call of the same function,
  and its comparison of the pointer still guards it. Programs with inline
  assembly are in `pipeline`; `CallTree` has none, nor two functions of one name.

Two more are in the model without a run of their own. A variable with external
linkage that the recompiled module defines is compiled again (`Duplicated`),
although the README says that there is no extra copy of static data. And every
argument is compared with the leaf's first parameter (`Coerced`), so that a call
with a second argument of another type is refused although its type is the leaf's.

The known limitation that `test3` demonstrates (an undecorated function that
jumps to a decorated one) is documented behaviour: `tail` contains it and
`AssertOnlyAfterJump` says that it is the only way to a failed assert.

## 4. The proofs

### The call tree

`CallTreeProofs` proves, for every program, number of threads, mix of versions
and bound, under one hypothesis:

    TailSafe == \A s \in TailSites : SiteTargets[s] \cap Targets = {}

No call in tail position can reach a decorated function. Without it the
theorems are false (`slowpath`, `tail`).

| theorem | property |
|---|---|
| `Invariance` | `IInv`, below |
| `AssertsHold` | `NoAssertFailure` |
| `EdgesDirect` | `DirectEdges` |
| `LandsExactly` | `LandingExact` |
| `ResolvesFaithfully` | `ResolvedFaithful` |

**The invariant.** None of the properties is inductive. `DirectEdges` is about
nodes, and a new node's parent comes from an activation, so activations have to
tell the truth: `FrameOK` says that the node an activation of a target function
was entered with is a call of that very function. `Dispatch` establishes it
from `resolved_target` being a form of the node's target (`TreeOK`), `Jump`
keeps it only under `TailSafe`. `Compile` keeps `TreeOK` because the node being
compiled has landed in the function its frame runs (`Landed`) and its parent is
a call of the function that contains its site. `Calling` carries the local
variables of `_drti_call_from` from step to step, `Locked` ties the compiler to
the lock. `IInv` is the conjunction, with `~aborted`: the assert on the landing
follows from `FrameOK` and `TreeOK`, the two on versions from `HasMagic`.

The proof has lemmas on sequences (what appending, updating and cutting a stack
does), lemmas on what each kind of step leaves alone, `StepOK`, which reduces a
step of thread t to t's own obligations, and one lemma per action. `IInv` was
itself checked as an invariant on the programs of `pointers` and `threads`.

`JumpProofs` does without the hypothesis. It says what is left when a jump makes
`_drti_landed` take another function's node for its own:

| theorem | property |
|---|---|
| `JumpInvariance` | `JumpInv`, below |
| `JumpsAlone` | `AssertOnlyAfterJump` |
| `TypeCorrect` | `TypeOK` |
| `CompilationsApart` | `CompilationsExclude` |
| `CallsCounted` | `CallsConserved` |

A node is `Exact` when its target recognises the call (the target is decorated,
with the version of the caller). Such a target lands as soon as it is entered,
before it can jump anywhere, and `JumpInv` follows from that: an activation's node
has landed in its target, or the activation is that target and is landing now
(`EntrySettled`); only then does the node get children (`Insert`) and is
retargeted (`Compile`). So only the target ever lands in an exact node, and
whoever finds another landing there is not the target. In a node that is not exact
the target never lands, and whoever does came by a jump. `JumpInv` was itself
checked on the program of `tail`, and on it with two threads.

`CallsCounted` is for any number of threads, finitely many, and any modulus.
`CountInv` says that for each site the calls counted on its nodes and those on
their way (`Between`) make `total_calls`, up to a multiple of the modulus, and
that a call is dispatched through a node of its own site. The calls of the nodes
are a set of pairs of a node and a number up to its counter (`Counted`), so that
adding up is taking a cardinality, and a counter that wraps takes its pairs out.

`TransparencyProofs` adds a second hypothesis, without which its theorems are
false too (`race`):

    OneThread == \A t, u \in Threads : t = u

| theorem | property |
|---|---|
| `SoloInvariance` | `IInv /\ SoloInv`, below |
| `NodesAreUnique` | `NodesUnique` |
| `CallsAsRequested` | `CallsRequestedTarget` |
| `InspectsOnce` | `InspectOnce` |
| `ProgramIsTransparent` | `Transparent` |

`SoloInv` follows a call through the lookup: a node is inserted only when the
site has none for this caller and target, so `NodesUnique` survives; the new node
is the last of all when it is read back, so the call is dispatched through the
node it asked for; and a node that is claimed has not landed. It uses `IInv` for
the types and to know that the caller does not change under way.

`ProgramIsTransparent` is a step simulation. `SourceCalls` forgets forms of code
and entries, and lemmas say how that commutes with pushing, replacing and cutting
a stack (`ShownPushed`, `ShownReplaced`, `ShownPrefix`). `Evaluate`, `Return`
and `Throw` map to their namesakes; `Dispatch` maps to `Enter` because the node
is the requested one (`SoloInv`) and what it resolves to is a form of its target
(`TreeOK`); `PlainCall` and `Jump` because a compared pointer leads where the
program asked (`CalleesFaithful`); every other step of the runtime is a stutter.
That the program keeps running is not part of `Program`: see `RuntimeReturns`.

### Decoration and recompilation

For every program, set of target names, module of helpers and table of exported
names. The assumptions say that the helpers define no function to be decorated
(`HelperNamesAssumption`), that a module has one global of a name, also with the
helpers in it (`NamesAssumption`), that a declaration is not local and a variable's
name is no function's in another unit (`LinkageAssumption`), that the model's
identities of calls tell the calls of a function apart (`CallIdAssumption`) and
that `None` is not a chain and not a short cut.

| theorem | property |
|---|---|
| `DecorateInvariance` | `DecorateInv`, below |
| `RecompileInvariance` | `RecompileInv`, below |
| `ReportsTruthfully` | `ReportsChange` |
| `NumbersLeadBack` | `CallsitesFoundInSelf` |
| `CompilesAsPromised` | `ImplementsCompilation` |
| `AddressesSuffice` | `EnoughStored` |
| `AddressesAgree` | `AddressesExact` |
| `StaticsKept` | `StaticsApart` |

**The invariants.** `DecorateInv` says of each unit what its stage means for it:
until the helpers are linked the module is the source, until decoration starts
its target functions are those of the source (`TargetsAsInSource`: linking
appends, and the helpers have no targets), and what was saved has them as they
were for good. Each callsite was numbered in the source (`FoundInSource`), and so
is found in what was saved. `AddLanding` keeps this because it touches a function
only while its body is still that of the source.

`RecompileInv` adds that a compilation works on a callsite of fully decorated
units, and that the call it has rewritten is the chain's. The step from number to
call needs a fact about counting: without inline assembly before it, the number
decoration gave a call is its position (`CallNumber` counts all the calls before
it), and positions are what the runtime counts. The refinement is then a step
simulation, one step of `Recompile` at a time. `RecompileInv` was itself checked
as an invariant on the programs of `pipeline`.

**Addresses.** Two loops have to agree: the one that saved an array of addresses,
and the one that reads names and takes the next address for each. The invariant
has that what was saved are the addresses of what is listed in the saved bitcode
(`SavedInv`), and that the symbol map is made from the two modules of the chain
(`MapInv`). `globalsMap` asks for a selection of that list, so it never asks for
too many (`AddressesSuffice`). For `AddressesAgree`, a variable is never passed
over and stands at its own position; a function does as long as nothing before it
was passed over (`PrefixKept`), and otherwise it is `Misplaced`; with one global
of a name, a position is a name (`MapMeaning`). A reference to a name that was not
asked for leads to a definition: one of its own unit is linked with it
(`OwnIsProvided`), one of the other unit too unless it is local
(`DeclaredIsProvided`), and if it is local the name stands for two things
(`NotLostUnlessCollides`).

**Names.** `StaticsKept` goes through the same cases without excluding such names.
A definition of the other unit that a reference is linked with is external, or
`compile` has made it so (`OtherProvides`). If the reference means a static
function of its own unit, that is linked with it; the other unit's can take its
place only if the static one was provided as well, and then it is the leaf
(`OwnStaticKept`). What is left are declarations, and they mean the same in every
unit (`DeclaredIsExtern`).

### Code generation

| theorem | property |
|---|---|
| `RecognitionExact`, `ReadingSafe` | `MagicExact`, `MagicReadable` of `Stash` |
| `OwnersExact` | `OneOwner` |
| `RemovalsOwned` | `RemovedByOwner` |
| `EmitsAsStash` | `CodeGen` implements `Stash` |
| `CallsRecognised`, `PrologueSafe` | `MagicExact`, `MagicReadable` of `CodeGen` |
| `PassBeforeRegAlloc` | `RunsBeforeRegAlloc` |
| `CallsErased` | `PseudoCallsGone` |
| `NodesOwn` | `OwnNode` |
| `NodesArrive` | `NodeDelivered` |
| `FailuresExact` | `GivesUpOnlyWhen` |

For instructions of any lengths, at any address. `MagicExact` needs that nothing
is ever put where an earlier stash or return address lies, and that every stash
is followed by its own call: the invariant of `StashProofs` keeps stashes,
returns and the current address in order and pairs each aligned address after a
stash with the decorated call that returns to it. An undecorated call cannot
return there because it would have to lie between the stash and the end of the
call that the stash was made for. `OneOwner` needs that no two objects hold one
number and that numbers held are at most the counter (`RegistryInv`). The
theorems about `Stash` carry over to `CodeGen` because each of its steps is a
step of `Stash` or leaves it alone.

The last five theorems are of functions of any number of blocks of any length,
whatever libraries come and go before. They assume of the callbacks that the pass
is registered at `PreRegAlloc`, as `target.cpp` does, and of the blocks
`AsDecorated`: a node is moved to rdi right before `_drti_set_caller`, a call
follows, and no undecorated call to a decorated function comes between it and the
call it was set for.

Their inductive invariant is `Inv`. `PipelineInv` orders the passes still to run:
none of DRTI behind register allocation, and none left after it. `FuncInv` says
that a block half-way through the pass is still one whose pseudo calls can be
resolved: each decorated call is preceded by the copy to r14 of its own node, or
by the `_drti_set_caller` that will become it, with only instructions between
them that leave r14 alone, or else another call has come between. It counts the
calls of `_drti_caller` as well: one of them makes the register live at the entry,
and a second one is the first way to give up. `EmitterOK` says what
rdi and r14 hold at each place of such a block, and `ArrivalsOK` is what follows
for the calls that are made there. `PhaseInv` ties the phases to the rest.

### Lists

The passes erase instructions, filter symbols and drop extensions in loops that
keep some elements of a list. `Selected` is that loop, as a recursive function,
and `SelectedPlaces` is what is known of it: the elements of the set, each once,
in their order, and nothing else. The library's induction takes an operator as a
parameter and is out of reach; `SelectionProofs` uses the choice of a least number
instead (`LeastNumber`, `Induction`), with sets for predicates.

### Model-checked only

Every invariant, action property and refinement that a passing run checks is
proved. `RuntimeReturns` is not: it is a liveness property under weak fairness,
out of the prover's reach, and holds in `pointers` only on its program.

## 5. Hypotheses on the environment

Taken from how the code uses them:

* The lock of `ThreadSafeContext` is a recursive mutex; an exception unwinds to
  an activation that is not yet returning; undecorated code keeps the ABI (it
  preserves r14); `LLJIT` code is never freed.
* No instruction and no constant in the code contains the magic value where a
  return address could be 32 bytes later; the README of the repository assumes
  the same.
* The register allocator keeps r14 from the copy to the call that kills it.
* Linking with `LinkOnlyNeeded` takes the definitions that the destination
  declares and what these need in turn; a failed link of the helpers leaves the
  module as it was; `llvm.used` keeps converters alive.
* A module has no two globals of one name and no local declarations, which LLVM
  sees to. No unit uses a name of the inline support, and what is a variable in
  one unit is no function in another.
* What the initialiser of a variable refers to is left out. It would add names to
  what is linked and resolved, of the kinds that the functions' references are.
* A symbol that the process exports is the one that its units mean unless they
  define a local one.
* The optimiser and the code generator preserve meaning. Nothing is said of a
  module made malformed by rewriting a call that is inline assembly.

## 6. Plan

Done: `CallTree`, reflected globals, call numbering and rewriting, the decoration
pass, the machine pass, the stash and the registry, with their proofs.
Left, in the order of importance:

1. `CallTree` over the bodies of `Recompile`'s programs, so that a short cut at
   a wrongly numbered call is taken by a running thread.
2. The memory of `site.nodes` under two threads, if an implementation of the
   vector is to be fixed for it.

## 7. Not modelled

* `tree.hpp`, which nothing uses; Makefiles, test support and logging.
* The LLVM linker, optimiser and code generator apart from what section 5 says.
* The memory of the vector of nodes (section 2).
* How target names are parsed from the environment: they are a constant.
* What a conversion between types does to a value: types are names.
