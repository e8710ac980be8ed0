------------------------------ MODULE CallTree ------------------------------
(***************************************************************************)
(* The run-time core of DRTI: the call tree that decorated functions build *)
(* (passes/drti-inline.cpp), the hidden argument they pass each other      *)
(* (r14 and the magic before the return address), and the recompilation of *)
(* a function once a chain of three decorated functions is discovered      *)
(* (drti/runtime.cpp), in a program of several threads.                    *)
(*                                                                         *)
(* A thread runs code.  The code of a function f is its ahead-of-time form *)
(* Aot(f), or code made at run time from the bitcode saved before f was    *)
(* decorated: Bitcode(f) as it was saved, or Jit(f, s, known, leaf), where *)
(* the call at site s goes straight to the function leaf whenever the      *)
(* pointer there equals known.  Code made at run time is never decorated.  *)
(*                                                                         *)
(* Every activation remembers the call-tree node its return address leads  *)
(* to (entry): the node of the decorated call that pushed that address, or *)
(* NoNode.  A call in tail position turned into a jump pushes no return    *)
(* address, and r14 is callee-saved, so what is entered by a jump sees the *)
(* entry of the activation it replaces.                                    *)
(***************************************************************************)
EXTENDS ProgramText, FiniteSets

CONSTANTS
    Targets,        \* the functions DRTI is asked to decorate
    TypedSites,     \* the sites whose function type is that of some target
    PointerSites,   \* the sites that call through a pointer
    AbiVersion,     \* DRTI_VERSION each function's module was decorated with
    RuntimeAbi,     \* DRTI_VERSION of the runtime library
    CounterModulus, \* the counters wrap around at this value
    None            \* no function, no site, no thread

ASSUME CallTreeAssumption ==
    /\ Targets \subseteq Funcs
    /\ TypedSites \subseteq Sites
    /\ PointerSites \subseteq Sites
    /\ AbiVersion \in [Funcs -> Nat]
    /\ CounterModulus \in Nat \ {0}
    /\ None \notin Funcs \cup Sites \cup Threads
    /\ IsFiniteSet(Threads)

VARIABLES
    stack,          \* each thread's activations, the current one last
    pc,             \* what each thread is doing: its program, or a step of the runtime
    loc,            \* each thread's operands of a call, and local variables in the runtime
    tree,           \* every treenode ever made, in order; node n is tree[n]
    total_calls,    \* of the static_callsite of each site
    total_called,   \* of the landing_site of each function
    owner,          \* the thread that holds the lock of the LLVM context, or None
    held,           \* how many times it holds it
    aborted         \* an assert has failed and taken the process down

vars == <<stack, pc, loc, tree, total_calls, total_called, owner, held, aborted>>

-----------------------------------------------------------------------------
(* Code, activations and nodes.                                            *)

Code ==
    [fn : Funcs, aot : BOOLEAN, site : Sites \cup {None},
     known : Funcs \cup {None}, leaf : Funcs \cup {None}]

Jit(f, s, known, leaf) ==
    [fn |-> f, aot |-> FALSE, site |-> s, known |-> known, leaf |-> leaf]

Bitcode(f) == Jit(f, None, None, None)

Aot(f) == [Bitcode(f) EXCEPT !.aot = TRUE]

NoNode == 0

FrameType == [code : Code, entry : Nat, last : BOOLEAN]

Frame(c, e) == [code |-> c, entry |-> e, last |-> FALSE]

(* mutant: a new node already counts the call that makes it                *)
NodeCountedAtBirth(s, p, g) ==
    [location |-> s, parent |-> p, target |-> g, resolved_target |-> Aot(g),
     landing |-> None, chain_calls |-> 1 % CounterModulus]

Node(s, p, g) ==
    [location |-> s, parent |-> p, target |-> g, resolved_target |-> Aot(g),
     landing |-> None, chain_calls |-> 0]

NodeIds == 1 .. Len(tree)

Count == 0 .. CounterModulus - 1

NodeType ==
    [location : Sites, parent : Nat, target : Funcs, resolved_target : Code,
     landing : Funcs \cup {None}, chain_calls : Count]

Local == [site : Sites \cup {None}, target : Funcs \cup {None}, node : Nat,
          leaf : Funcs \cup {None}]

NoLocal == [site |-> None, target |-> None, node |-> NoNode, leaf |-> None]

LookupSteps == {"lookup", "insert", "back", "dispatch"}

RuntimeSteps == LookupSteps \cup {"landing", "claim", "lock", "construct", "compile"}

Steps == {"run", "call"} \cup RuntimeSteps

(* mutant: a counter that does not wrap                                     *)
IncrementUnbounded(n) == n + 1

Increment(n) == (n + 1) % CounterModulus

NodeAbi(n) == AbiVersion[SiteFn[tree[n].location]]

(* What is decorated at compile time: in each target function, the calls   *)
(* of the right type that go through a pointer or straight to a target.    *)
DecoratedSites ==
    {s \in TypedSites : /\ SiteFn[s] \in Targets
                        /\ s \in PointerSites \/ SiteTargets[s] \subseteq Targets}

(* mutant: a magic without the version                                     *)
HasMagicAnyVersion(c, e) == c.aot /\ c.fn \in Targets /\ e # NoNode

(* The prologue of decorated code takes r14 for a treenode when the eight  *)
(* bytes a fixed distance before its return address hold the magic, which  *)
(* contains the version the caller was decorated with.                     *)
HasMagic(c, e) ==
    /\ c.aot
    /\ c.fn \in Targets
    /\ e # NoNode
    /\ NodeAbi(e) = AbiVersion[c.fn]

Top(t) == stack[t][Len(stack[t])]

(* The node decorated code takes for its caller's.                         *)
Caller(t) == IF HasMagic(Top(t).code, Top(t).entry) THEN Top(t).entry ELSE NoNode

(* mutant: the short cut is taken without comparing the pointer            *)
CalleesUncompared(c, s, g) ==
    IF ~c.aot /\ s = c.site THEN {Bitcode(c.leaf)} ELSE {Aot(g)}

(* The code that an undecorated call of g from site s in code c enters.    *)
Callees(c, s, g) ==
    CASE c.aot -> {Aot(g)}
      [] ~c.aot /\ s = c.site /\ g = c.known -> {Bitcode(c.leaf)}
      [] OTHER -> {Aot(g)} \cup (IF s \in PointerSites THEN {} ELSE {Bitcode(g)})

(* Entering code c with e as the node its return address leads to.         *)
FirstStep(c, e) == IF HasMagic(c, e) THEN "landing" ELSE "run"

Push(t, s, c, e) ==
    stack' = [stack EXCEPT ![t] =
                Append([@ EXCEPT ![Len(@)].last = s \in TailSites], Frame(c, e))]

Goto(t, step) == pc' = [pc EXCEPT ![t] = step]

(* Thread t's code is about to execute site s, whose target is g.          *)
AtSite(t, s, g) ==
    /\ pc[t] = "run"
    /\ Top(t).code.fn = SiteFn[s]
    /\ ~Top(t).last
    /\ g \in SiteTargets[s]
    /\ Len(stack[t]) < MaxDepth

IsDecorated(c, s) == c.aot /\ s \in DecoratedSites

-----------------------------------------------------------------------------
(* _drti_lookup_or_insert.                                                 *)

(* mutant: compares the retargeted address                                 *)
MatchesResolved(s, p, g) ==
    {n \in NodeIds : /\ tree[n].location = s
                     /\ tree[n].parent = p
                     /\ tree[n].resolved_target = Aot(g)}

(* mutant: one node per caller                                             *)
MatchesAnyTarget(s, p, g) ==
    {n \in NodeIds : tree[n].location = s /\ tree[n].parent = p}

Matches(s, p, g) ==
    {n \in NodeIds : /\ tree[n].location = s
                     /\ tree[n].parent = p
                     /\ tree[n].target = g}

NodesOf(s) == {n \in NodeIds : tree[n].location = s}

-----------------------------------------------------------------------------
(* The lock of the one LLVM context all compilations share: a recursive    *)
(* mutex.                                                                  *)

(* mutants: a mutex that is not recursive, and none at all                 *)
LockFreeOnce(t) == owner = None

LockFreeAlways(t) == TRUE

LockFree(t) == owner \in {None, t}

Acquire(t) ==
    /\ owner' = t
    /\ held' = held + 1

Release ==
    /\ held' = held - 1
    /\ owner' = IF held = 1 THEN None ELSE owner

-----------------------------------------------------------------------------

Init ==
    /\ stack = [t \in Threads |-> <<Frame(Aot(Root), NoNode)>>]
    /\ pc = [t \in Threads |-> "run"]
    /\ loc = [t \in Threads |-> NoLocal]
    /\ tree = <<>>
    /\ total_calls = [s \in Sites |-> 0]
    /\ total_called = [f \in Targets |-> 0]
    /\ owner = None
    /\ held = 0
    /\ aborted = FALSE

(* The operands of a call, its target among them, are evaluated.           *)
Evaluate(t, s, g) ==
    /\ AtSite(t, s, g)
    /\ loc' = [loc EXCEPT ![t] = [NoLocal EXCEPT !.site = s, !.target = g]]
    /\ Goto(t, "call")
    /\ UNCHANGED <<stack, tree, total_calls, total_called, owner, held, aborted>>

(* A decorated call begins: _drti_call_from counts it.                     *)
CallDecorated(t) ==
    /\ pc[t] = "call"
    /\ IsDecorated(Top(t).code, loc[t].site)
    /\ total_calls' = [total_calls EXCEPT ![loc[t].site] = Increment(@)]
    /\ Goto(t, "lookup")
    /\ UNCHANGED <<stack, loc, tree, total_called, owner, held, aborted>>

(* The nodes of the site are searched in the order they were made.         *)
LookupHit(t) ==
    /\ pc[t] = "lookup"
    /\ \E n \in Matches(loc[t].site, Caller(t), loc[t].target) :
        /\ \A m \in Matches(loc[t].site, Caller(t), loc[t].target) : n <= m
        /\ loc' = [loc EXCEPT ![t].node = n]
    /\ Goto(t, "dispatch")
    /\ UNCHANGED <<stack, tree, total_calls, total_called, owner, held, aborted>>

LookupMiss(t) ==
    /\ pc[t] = "lookup"
    /\ Matches(loc[t].site, Caller(t), loc[t].target) = {}
    /\ Goto(t, "insert")
    /\ UNCHANGED <<stack, loc, tree, total_calls, total_called, owner, held, aborted>>

(* assert(caller->caller_abi_version == abi_version), then a new node at   *)
(* the end of the site's nodes.  A failed assert ends the process, so what *)
(* a step assigns besides `aborted` is then never read.                    *)
Insert(t) ==
    /\ pc[t] = "insert"
    /\ aborted' = /\ Caller(t) # NoNode
                   /\ NodeAbi(Caller(t)) # AbiVersion[SiteFn[loc[t].site]]
    /\ tree' = Append(tree, Node(loc[t].site, Caller(t), loc[t].target))
    /\ Goto(t, "back")
    /\ UNCHANGED <<stack, loc, total_calls, total_called, owner, held>>

(* The node is read back from the end of the site's nodes.                 *)
Back(t) ==
    /\ pc[t] = "back"
    /\ \E n \in NodesOf(loc[t].site) :
        /\ \A m \in NodesOf(loc[t].site) : m <= n
        /\ loc' = [loc EXCEPT ![t].node = n]
    /\ Goto(t, "dispatch")
    /\ UNCHANGED <<stack, tree, total_calls, total_called, owner, held, aborted>>

(* The call is counted on its node and goes to the node's resolved_target, *)
(* with the node in r14 and the magic before the return address.           *)
Dispatch(t) ==
    LET n == loc[t].node
        c == tree[n].resolved_target
    IN /\ pc[t] = "dispatch"
       /\ tree' = [tree EXCEPT ![n].chain_calls = Increment(@)]
       /\ Push(t, loc[t].site, c, n)
       /\ Goto(t, FirstStep(c, n))
       /\ loc' = [loc EXCEPT ![t] = NoLocal]
       /\ UNCHANGED <<total_calls, total_called, owner, held, aborted>>

(* mutant: r14 is trusted without the return address                        *)
PlainEntryStale(t) == Top(t).entry

(* An undecorated call pushes an ordinary return address, whatever r14     *)
(* still holds.                                                            *)
PlainEntry(t) == NoNode

PlainCall(t) ==
    /\ pc[t] = "call"
    /\ ~IsDecorated(Top(t).code, loc[t].site)
    /\ \E c \in Callees(Top(t).code, loc[t].site, loc[t].target) :
        /\ Push(t, loc[t].site, c, PlainEntry(t))
        /\ Goto(t, FirstStep(c, PlainEntry(t)))
    /\ loc' = [loc EXCEPT ![t] = NoLocal]
    /\ UNCHANGED <<tree, total_calls, total_called, owner, held, aborted>>

(* An undecorated call in tail position may be compiled to a jump, which   *)
(* leaves the return address and r14 of the activation it replaces.        *)
Jump(t) ==
    /\ pc[t] = "call"
    /\ loc[t].site \in TailSites
    /\ ~IsDecorated(Top(t).code, loc[t].site)
    /\ \E c \in Callees(Top(t).code, loc[t].site, loc[t].target) :
        /\ stack' = [stack EXCEPT ![t][Len(stack[t])] = Frame(c, Top(t).entry)]
        /\ Goto(t, FirstStep(c, Top(t).entry))
    /\ loc' = [loc EXCEPT ![t] = NoLocal]
    /\ UNCHANGED <<tree, total_calls, total_called, owner, held, aborted>>

Return(t) ==
    /\ pc[t] = "run"
    /\ Len(stack[t]) > 1
    /\ stack' = [stack EXCEPT ![t] = SubSeq(@, 1, Len(@) - 1)]
    /\ UNCHANGED <<pc, loc, tree, total_calls, total_called, owner, held, aborted>>

Throw(t, k) ==
    /\ pc[t] = "run"
    /\ ~Top(t).last
    /\ k < Len(stack[t])
    /\ ~stack[t][k].last
    /\ stack' = [stack EXCEPT ![t] = SubSeq(@, 1, k)]
    /\ UNCHANGED <<pc, loc, tree, total_calls, total_called, owner, held, aborted>>

-----------------------------------------------------------------------------

(* mutant: landed is taken to mean recompiled                              *)
HasLandedRecompiled(n) == ~tree[n].resolved_target.aot

HasLanded(n) == tree[n].landing # None

(* _drti_landed: the arrival is counted; a node that has landed before     *)
(* must have landed here, assert(caller->landing == &site), and one that   *)
(* has not must come from a module of this version.                        *)
Landing(t) ==
    LET n == Top(t).entry
        f == Top(t).code.fn
    IN /\ pc[t] = "landing"
       /\ total_called' = [total_called EXCEPT ![f] = Increment(@)]
       /\ IF HasLanded(n)
          THEN /\ Goto(t, "run")
               /\ aborted' = (tree[n].landing # f)
          ELSE /\ Goto(t, "claim")
               /\ aborted' = (NodeAbi(n) # AbiVersion[f])
       /\ UNCHANGED <<stack, loc, tree, total_calls, owner, held>>

(* The first arrival sets the landing and calls inspect_treenode, which    *)
(* goes on to compile when the node has a parent.                          *)
Inspected(n) == NodeAbi(n) = RuntimeAbi /\ tree[n].parent # NoNode

Claim(t) ==
    LET n == Top(t).entry
    IN /\ pc[t] = "claim"
       /\ tree' = [tree EXCEPT ![n].landing = Top(t).code.fn]
       /\ Goto(t, IF Inspected(n) THEN "lock" ELSE "run")
       /\ UNCHANGED <<stack, loc, total_calls, total_called, owner, held, aborted>>

(* The constructor of TreenodeCompiler first locks the shared context.     *)
Lock(t) ==
    /\ pc[t] = "lock"
    /\ LockFree(t)
    /\ Acquire(t)
    /\ Goto(t, "construct")
    /\ UNCHANGED <<stack, loc, tree, total_calls, total_called, aborted>>

(* It reads the bitcode of the function the node landed in and of the one  *)
(* that contains its call site.                                            *)
Construct(t) ==
    /\ pc[t] = "construct"
    /\ loc' = [loc EXCEPT ![t].leaf = tree[Top(t).entry].landing]
    /\ Goto(t, "compile")
    /\ UNCHANGED <<stack, tree, total_calls, total_called, owner, held, aborted>>

(* An InternalCompilerError in the constructor destroys what it had built, *)
(* the lock included; inspect_treenode drops the exception.                *)
ConstructFails(t) ==
    /\ pc[t] = "construct"
    /\ Release
    /\ Goto(t, "run")
    /\ UNCHANGED <<stack, loc, tree, total_calls, total_called, aborted>>

(* mutant: the address looked up afterwards is the leaf's                  *)
RecompiledLeaf(n, leaf) == Bitcode(leaf)

(* What node n's compilation makes of the function that contains its site: *)
(* a call through a pointer is preceded by a comparison with the target    *)
(* the node recorded, and the function it landed in is inlined.            *)
Recompiled(n, leaf) ==
    IF tree[n].location \in PointerSites
    THEN Jit(SiteFn[tree[n].location], tree[n].location, tree[n].target, leaf)
    ELSE Bitcode(SiteFn[tree[n].location])

(* The result replaces the parent's resolved_target.  The compiler object  *)
(* is never deleted and its lock never released.                           *)
Compile(t) ==
    LET n == Top(t).entry
        p == tree[n].parent
    IN /\ pc[t] = "compile"
       /\ tree' = [tree EXCEPT ![p].resolved_target = Recompiled(n, loc[t].leaf)]
       /\ loc' = [loc EXCEPT ![t] = NoLocal]
       /\ Goto(t, "run")
       /\ UNCHANGED <<stack, total_calls, total_called, owner, held, aborted>>

(* Linking, reprocessing or code generation may fail; the lock is kept.    *)
CompileFails(t) ==
    /\ pc[t] = "compile"
    /\ loc' = [loc EXCEPT ![t] = NoLocal]
    /\ Goto(t, "run")
    /\ UNCHANGED <<stack, tree, total_calls, total_called, owner, held, aborted>>

-----------------------------------------------------------------------------

ProgramStep(t) ==
    \/ \E s \in Sites, g \in Funcs : Evaluate(t, s, g)
    \/ CallDecorated(t) \/ PlainCall(t) \/ Jump(t)
    \/ Return(t)
    \/ \E k \in DOMAIN stack[t] : Throw(t, k)

RuntimeStep(t) ==
    \/ LookupHit(t) \/ LookupMiss(t) \/ Insert(t) \/ Back(t) \/ Dispatch(t)
    \/ Landing(t) \/ Claim(t) \/ Lock(t)
    \/ Construct(t) \/ ConstructFails(t) \/ Compile(t) \/ CompileFails(t)

Next == ~aborted /\ \E t \in Threads : ProgramStep(t) \/ RuntimeStep(t)

Spec == Init /\ [][Next]_vars

(* The program may loop or block for ever; the runtime's own code runs on. *)
FairSpec == Spec /\ \A t \in Threads : WF_vars(~aborted /\ RuntimeStep(t))

-----------------------------------------------------------------------------
(* Type invariant.  Entries and parents are nodes that exist.              *)
TypeOK ==
    /\ tree \in Seq(NodeType)
    /\ \A n \in NodeIds : tree[n].parent \in {NoNode} \cup NodeIds
    /\ stack \in [Threads -> Seq(FrameType)]
    /\ \A t \in Threads :
        /\ stack[t] # <<>>
        /\ \A i \in 1 .. Len(stack[t]) : stack[t][i].entry \in {NoNode} \cup NodeIds
    /\ pc \in [Threads -> Steps]
    /\ loc \in [Threads -> Local]
    /\ total_calls \in [Sites -> Count]
    /\ total_called \in [Targets -> Count]
    /\ owner \in Threads \cup {None}
    /\ held \in Nat
    /\ aborted \in BOOLEAN

-----------------------------------------------------------------------------
(* Safety                                                                  *)

(* Two decorated functions recognise an edge of the call graph only when   *)
(* it is direct: the parent of a node is a call to the very function that  *)
(* contains the node's site.  (r14 and the magic must never outlive the    *)
(* call they were set for.)                                                *)
DirectEdges ==
    \A n \in NodeIds :
        tree[n].parent # NoNode =>
            tree[tree[n].parent].target = SiteFn[tree[n].location]

(* There is exactly one landing site per target: a node lands, if at all,  *)
(* in the function its call was aimed at.                                  *)
LandingExact ==
    \A n \in NodeIds : tree[n].landing \in {None, tree[n].target}

(* Whatever recompilation puts into resolved_target is a form of the       *)
(* function the node stands for, and its short cut for one pointer value   *)
(* leads to the function that pointer denotes.                             *)
ResolvedFaithful ==
    \A n \in NodeIds :
        LET c == tree[n].resolved_target
        IN c.fn = tree[n].target /\ c.known = c.leaf

(* No assert of drti-inline.cpp fails: not the one on the landing site and *)
(* not those on the version of the caller.                                 *)
NoAssertFailure == ~aborted

(* A site has one node for each (parent, target) pair.                     *)
NodesUnique ==
    \A m, n \in NodeIds :
        /\ tree[m].location = tree[n].location
        /\ tree[m].parent = tree[n].parent
        /\ tree[m].target = tree[n].target
        => m = n

(* The node a call goes through is the one for its site, its caller and    *)
(* the target the program asked for: a thread is never handed a node that  *)
(* another thread has just appended.                                       *)
CallsRequestedTarget ==
    \A t \in Threads :
        pc[t] = "dispatch" =>
            LET n == tree[loc[t].node]
            IN /\ n.location = loc[t].site
               /\ n.parent = Caller(t)
               /\ n.target = loc[t].target

(* inspect_treenode is called at most once per node.                       *)
InspectOnce ==
    [][\A t \in Threads :
          pc[t] = "claim" /\ pc'[t] # "claim" => tree[Top(t).entry].landing = None]_vars

(* LLVM contexts are not thread-safe: no two threads compile at once.      *)
CompilationsExclude ==
    \A t, u \in Threads :
        pc[t] \in {"construct", "compile"} /\ pc[u] \in {"construct", "compile"} => t = u

(* The calls counted on the nodes of site s, one element each.             *)
Counted(s) ==
    {c \in NodesOf(s) \X (1 .. CounterModulus) : c[2] <= tree[c[1]].chain_calls}

(* The threads between the two counts of a call at site s.                 *)
Between(s) == {t \in Threads : pc[t] \in LookupSteps /\ loc[t].site = s}

(* The two levels of counting agree: a call counted on its site has been   *)
(* counted on one of the site's nodes, or is between the two.              *)
CallsConserved ==
    \A s \in Sites :
        total_calls[s] =
            (Cardinality(Counted(s)) + Cardinality(Between(s))) % CounterModulus

(* The landing assert fails only where a jump led: what an assert stopped  *)
(* had been entered in place of the function its caller called.            *)
AssertOnlyAfterJump ==
    aborted => \E t \in Threads :
                  /\ Top(t).entry # NoNode
                  /\ Top(t).code.fn # tree[Top(t).entry].target

(* The call target hard-coded into a recompiled function is the first one  *)
(* encountered: it is not replaced later.                                  *)
FirstTargetHardCoded ==
    [][\A n \in NodeIds :
          LET c == tree[n].resolved_target
          IN c.leaf # None => tree'[n].resolved_target = c]_vars

(* A stack of the program, without forms of code and hidden arguments.     *)
Shown(q) == [i \in DOMAIN q |-> [fn |-> q[i].code.fn, last |-> q[i].last]]

SourceCalls == [t \in Threads |-> Shown(stack[t])]

(* The call that each thread has evaluated and not entered.                *)
SourceWant ==
    [t \in Threads |->
        IF pc[t] \in {"call"} \cup LookupSteps
        THEN <<loc[t].site, loc[t].target>> ELSE <<>>]

Source == INSTANCE Program WITH calls <- SourceCalls, want <- SourceWant

(* DRTI is invisible: the program makes the calls its source asks for.     *)
Transparent == Source!Spec

-----------------------------------------------------------------------------
(* Liveness                                                                *)

(* A thread that enters the runtime, to look a call up or to compile a     *)
(* chain it has discovered, gets back to its program.                      *)
RuntimeReturns ==
    \A t \in Threads :
        pc[t] \in RuntimeSteps ~> pc[t] \notin RuntimeSteps \/ aborted
=============================================================================
