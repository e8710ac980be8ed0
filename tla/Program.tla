------------------------------ MODULE Program ------------------------------
(***************************************************************************)
(* What a program compiled with DRTI promises to do: exactly the calls its *)
(* source asks for.  Decoration, profiling and recompilation at run time   *)
(* are an optimisation, so none of them is visible here: a thread is a     *)
(* stack of function activations, a call site evaluates its target, and    *)
(* the next activation belongs to that target and to nothing else.         *)
(*                                                                         *)
(* The tests build such programs: a function called through a pointer in   *)
(* a loop (src/tests/raw_tests.cpp:81-117), a function whose last act is a *)
(* call (src/tests/test_target3.cpp:30-41) and one that throws through its *)
(* callers (src/tests/raw_tests.cpp:140-187).                              *)
(***************************************************************************)
EXTENDS ProgramText

VARIABLES
    calls,          \* each thread's activations; `last` ones have nothing left to do
    want            \* the call a thread has evaluated and not made yet, or <<>>

vars == <<calls, want>>

Activation(f) == [fn |-> f, last |-> FALSE]

TypeOK ==
    /\ calls \in [Threads -> Seq([fn : Funcs, last : BOOLEAN])]
    /\ want \in [Threads -> {<<>>} \cup (Sites \X Funcs)]

Current(t) == calls[t][Len(calls[t])]

(* Thread t is about to execute site s with target g.                      *)
Runs(t, s, g) ==
    /\ want[t] = <<>>
    /\ Current(t).fn = SiteFn[s]
    /\ ~Current(t).last
    /\ g \in SiteTargets[s]
    /\ Len(calls[t]) < MaxDepth

(* t's stack once g has been called from site s.                           *)
Called(t, s, g) ==
    Append([calls[t] EXCEPT ![Len(calls[t])].last = s \in TailSites], Activation(g))

-----------------------------------------------------------------------------

Init ==
    /\ calls = [t \in Threads |-> <<Activation(Root)>>]
    /\ want = [t \in Threads |-> <<>>]

(* The target of a call is known before the call is made ...               *)
Evaluate(t, s, g) ==
    /\ Runs(t, s, g)
    /\ want' = [want EXCEPT ![t] = <<s, g>>]
    /\ UNCHANGED calls

(* ... and the call goes to that target.                                   *)
Enter(t) ==
    /\ want[t] # <<>>
    /\ calls' = [calls EXCEPT ![t] = Called(t, want[t][1], want[t][2])]
    /\ want' = [want EXCEPT ![t] = <<>>]

(* A call in tail position may reuse the activation of its caller.         *)
Jump(t) ==
    /\ want[t] # <<>>
    /\ want[t][1] \in TailSites
    /\ calls' = [calls EXCEPT ![t][Len(calls[t])] = Activation(want[t][2])]
    /\ want' = [want EXCEPT ![t] = <<>>]

Return(t) ==
    /\ want[t] = <<>>
    /\ Len(calls[t]) > 1
    /\ calls' = [calls EXCEPT ![t] = SubSeq(@, 1, Len(@) - 1)]
    /\ UNCHANGED want

(* An exception unwinds to an activation that can still catch it.          *)
Throw(t, k) ==
    /\ want[t] = <<>>
    /\ ~Current(t).last
    /\ k < Len(calls[t])
    /\ ~calls[t][k].last
    /\ calls' = [calls EXCEPT ![t] = SubSeq(@, 1, k)]
    /\ UNCHANGED want

Next ==
    \E t \in Threads :
        \/ \E s \in Sites, g \in Funcs : Evaluate(t, s, g)
        \/ Enter(t) \/ Jump(t)
        \/ Return(t)
        \/ \E k \in DOMAIN calls[t] : Throw(t, k)

Spec == Init /\ [][Next]_vars
=============================================================================
