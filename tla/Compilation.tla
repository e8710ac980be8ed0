---------------------------- MODULE Compilation ----------------------------
(***************************************************************************)
(* What a compilation promises to the rest of the runtime, which is what   *)
(* CallTree assumes of its steps Lock, Construct, ConstructFails, Compile  *)
(* and CompileFails: it takes the lock first; whatever goes wrong on the   *)
(* way, the function goes on with the code it had; if nothing goes wrong,  *)
(* its new code takes a short cut to the function the node landed in, at   *)
(* the node's own call if that goes through a pointer, and none otherwise. *)
(* After a failure in the constructor the lock is free again; after        *)
(* anything else it is kept for good.                                      *)
(*                                                                         *)
(* A call that the runtime may not find by its number, because the two     *)
(* readers of the bitcode count differently, is not `numbered`: then the   *)
(* short cut may appear at another call of the function, or nowhere.  And  *)
(* the runtime finds the leaf by its name: when another function of the    *)
(* caller's unit has that name too, the leaf is not `named`, and the short *)
(* cut may call the other one.                                             *)
(***************************************************************************)
CONSTANTS
    Functions,      \* the functions of the program
    CallIds,        \* the calls of the program
    None            \* no chain, no short cut

VARIABLES
    phase,          \* "idle", "construct" or "compile"
    chain,          \* the chain being compiled, or None
    kept,           \* an earlier compilation has kept the lock
    resolved        \* the short cut in each function's code: a call and its leaf, or None

vars == <<phase, chain, kept, resolved>>

(* In function fn, the call `call` has reached the function leaf.          *)
Chains == [fn : Functions, call : CallIds, leaf : Functions,
           pointer : BOOLEAN, numbered : BOOLEAN, named : BOOLEAN]

(* What the code of c.fn may have afterwards.                              *)
ShortCuts(c) ==
    {k \in {None} \cup [call : IF c.numbered THEN {c.call} ELSE CallIds,
                        leaf : IF c.named THEN {c.leaf} ELSE Functions] :
        c.numbered => (k = None <=> ~c.pointer)}

Init ==
    /\ phase = "idle"
    /\ chain = None
    /\ kept = FALSE
    /\ resolved = [f \in Functions |-> None]

Lock ==
    /\ phase = "idle"
    /\ phase' = "construct"
    /\ chain' \in Chains
    /\ UNCHANGED <<kept, resolved>>

Construct ==
    /\ phase = "construct"
    /\ phase' = "compile"
    /\ UNCHANGED <<chain, kept, resolved>>

Stops(locked) ==
    /\ phase' = "idle"
    /\ chain' = None
    /\ kept' = locked

ConstructFails ==
    /\ phase = "construct"
    /\ Stops(kept)
    /\ UNCHANGED resolved

CompileFails ==
    /\ phase = "compile"
    /\ Stops(TRUE)
    /\ UNCHANGED resolved

Compile ==
    /\ phase = "compile"
    /\ Stops(TRUE)
    /\ \E c \in ShortCuts(chain) : resolved' = [resolved EXCEPT ![chain.fn] = c]

Next == Lock \/ Construct \/ ConstructFails \/ CompileFails \/ Compile

Spec == Init /\ [][Next]_vars
=============================================================================
