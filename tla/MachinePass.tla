---------------------------- MODULE MachinePass ----------------------------
(***************************************************************************)
(* X86DrtiTreenodePass (passes/drti-target.cpp).  It turns the two pseudo  *)
(* calls that decoration has inserted into uses of a register: a call of   *)
(* _drti_set_caller gives its argument to the next call of its block, in   *)
(* r14 and with a stash before that call, and the result of _drti_caller   *)
(* becomes the value r14 had on entry.                                     *)
(*                                                                         *)
(* A machine function is a sequence of blocks, a block a sequence of       *)
(* instructions.  Of an instruction is kept what the pass looks at, and    *)
(* of a call the treenode that decoration has made for it, if any.         *)
(***************************************************************************)
EXTENDS Naturals, Sequences, FiniteSetsExt, Selection

CONSTANTS
    Callees,        \* the functions that are called, apart from the pseudo calls
    Nodes,          \* treenodes
    None            \* no function, no treenode

ASSUME MachineAssumption ==
    /\ None \notin Nodes
    /\ Callees \cap {"set_caller", "caller", None} = {}

VARIABLES
    func,           \* the machine function
    liveIn,         \* r14 is live into the entry block
    fatal           \* report_fatal_error was called

passVars == <<func, liveIn, fatal>>

(* "arg" moves a treenode to rdi, "use" reads rax or what r14 was on       *)
(* entry, "copy" moves rdi to r14, and "stash" is the inline assembly;     *)
(* "erased" is a call that will be gone when the pass is done.             *)
Ops == {"arg", "call", "use", "copy", "stash", "erased", "other"}

Instr == [op : Ops, sym : Callees \cup {"set_caller", "caller", "rax", "r14", None},
          node : Nodes \cup {None}]

Arg(k) == [op |-> "arg", sym |-> None, node |-> k]
CallOf(f, k) == [op |-> "call", sym |-> f, node |-> k]
SetCaller == CallOf("set_caller", None)
GetCaller == CallOf("caller", None)
Use(reg) == [op |-> "use", sym |-> reg, node |-> None]
Copy == [op |-> "copy", sym |-> None, node |-> None]
StashCode == [op |-> "stash", sym |-> None, node |-> None]
Erased == [op |-> "erased", sym |-> None, node |-> None]
OtherCode == [op |-> "other", sym |-> None, node |-> None]

PseudoCalls(f) ==
    UNION {{b} \X {i \in DOMAIN f[b] : f[b][i] \in {SetCaller, GetCaller}} : b \in DOMAIN f}

(* The pass goes through blocks and instructions in order.                 *)
Before(p, q) == p[1] < q[1] \/ (p[1] = q[1] /\ p[2] < q[2])

IsFirstPseudoCall(p) == \A q \in PseudoCalls(func) \ {p} : Before(p, q)

-----------------------------------------------------------------------------

(* mutant: the search begins one instruction too late                      *)
UsesAfterNext(block, i) == {j \in DOMAIN block : j > i + 1 /\ block[j] = Use("rax")}

UsesAfter(block, i) == {j \in DOMAIN block : j > i /\ block[j] = Use("rax")}

(* mutant: the call that is found is the last one of the block             *)
NextCallLast(block, i) ==
    LET calls == {j \in DOMAIN block : j > i /\ block[j].op = "call"}
    IN IF calls = {} THEN {} ELSE {Max(calls)}

NextCall(block, i) ==
    LET calls == {j \in DOMAIN block : j > i /\ block[j].op = "call"}
    IN IF calls = {} THEN {} ELSE {Min(calls)}

(* mutant: the copy is inserted before the argument is in rdi              *)
GivenEarly(block, i, sink) ==
    SubSeq(block, 1, i - 2) \o <<Copy, block[i - 1], Erased>> \o SubSeq(block, i + 1, sink - 1)
        \o <<StashCode>> \o SubSeq(block, sink, Len(block))

(* Position i held the pseudo call, the call at sink gets the argument.    *)
Given(block, i, sink) ==
    SubSeq(block, 1, i - 1) \o <<Copy, Erased>> \o SubSeq(block, i + 1, sink - 1)
        \o <<StashCode>> \o SubSeq(block, sink, Len(block))

-----------------------------------------------------------------------------

ResolveSetCaller(b, i) ==
    /\ func[b][i] = SetCaller
    /\ \E sink \in NextCall(func[b], i) : func' = [func EXCEPT ![b] = Given(@, i, sink)]
    /\ UNCHANGED <<liveIn, fatal>>

ResolveCaller(b, i) ==
    /\ func[b][i] = GetCaller
    /\ ~liveIn
    /\ UsesAfter(func[b], i) # {}
    /\ func' = [func EXCEPT ![b][i] = Erased, ![b][Min(UsesAfter(func[b], i))] = Use("r14")]
    /\ liveIn' = TRUE
    /\ UNCHANGED fatal

(* No call follows in the block, or no use, or r14 is live already because *)
(* the function contains two decorated functions, one inlined.             *)
ResolveFails(b, i) ==
    /\ \/ func[b][i] = SetCaller /\ NextCall(func[b], i) = {}
       \/ func[b][i] = GetCaller /\ (liveIn \/ UsesAfter(func[b], i) = {})
    /\ fatal' = TRUE
    /\ UNCHANGED <<func, liveIn>>

(* mutant: the instructions to erase are forgotten                         *)
KeptErasures(block) == block

WithoutErasures(block) == Selected(block, Instr \ {Erased})

EraseCalls ==
    /\ PseudoCalls(func) = {}
    /\ func' = [b \in DOMAIN func |-> WithoutErasures(func[b])]
    /\ UNCHANGED <<liveIn, fatal>>

PassStep ==
    \E p \in PseudoCalls(func) :
        /\ IsFirstPseudoCall(p)
        /\ \/ ResolveSetCaller(p[1], p[2])
           \/ ResolveCaller(p[1], p[2])
           \/ ResolveFails(p[1], p[2])
=============================================================================
