----------------------------- MODULE MCCallTree -----------------------------
(***************************************************************************)
(* Small programs for TLC, named after the README's chain A* -> B* -> C*:  *)
(* "main" plays A.  Functions and sites are strings, so that a trace reads *)
(* like the program.                                                       *)
(***************************************************************************)
EXTENDS CallTree, TLC

(***************************************************************************)
(* Pointers.  main calls B, E or U through a pointer, B calls C or D       *)
(* through another.  U and V are not decorated and U calls B.  E's module  *)
(* was decorated with another version, and E ends with a call of V.        *)
(***************************************************************************)
PtrFuncs == {"main", "B", "C", "D", "E", "U", "V"}
PtrTargets == {"main", "B", "C", "D", "E"}
PtrSites == {"main.1", "B.1", "E.1", "U.1"}
PtrSiteFn == "main.1" :> "main" @@ "B.1" :> "B" @@ "E.1" :> "E" @@ "U.1" :> "U"
PtrSiteTargets ==
    "main.1" :> {"B", "E", "U"} @@ "B.1" :> {"C", "D"}
        @@ "E.1" :> {"V"} @@ "U.1" :> {"B"}
PtrTailSites == {"E.1"}
PtrTypedSites == PtrSites
PtrPointerSites == {"main.1", "B.1"}
PtrAbiVersion == [f \in PtrFuncs |-> IF f = "E" THEN 2 ELSE 1]

(***************************************************************************)
(* A plain chain for two threads: main calls B directly, B calls C or D    *)
(* (or, in the smallest program, C alone) through a pointer.               *)
(***************************************************************************)
ChainFuncs == {"main", "B", "C", "D"}
ChainSites == {"main.1", "B.1"}
ChainSiteFn == "main.1" :> "main" @@ "B.1" :> "B"
ChainSiteTargets == "main.1" :> {"B"} @@ "B.1" :> {"C", "D"}
OneChainSiteTargets == "main.1" :> {"B"} @@ "B.1" :> {"C"}
ChainPointerSites == {"B.1"}
ChainAbiVersion == [f \in ChainFuncs |-> 1]

MaxNodes == 3
TreeBound == Len(tree) <= MaxNodes
ThreadSymmetry == Permutations(Threads)

(***************************************************************************)
(* Tail calls.  As in src/tests/raw_tests.cpp:119-138: main is test3, B is *)
(* invoke, and the undecorated T (test_target3) ends with a call of C.     *)
(* E's module was decorated with another version.                          *)
(***************************************************************************)
TailFuncs == {"main", "B", "C", "D", "E", "T"}
TailTargets == TailFuncs \ {"T"}
TailPrgSites == {"main.1", "B.1", "T.1"}
TailSiteFn == "main.1" :> "main" @@ "B.1" :> "B" @@ "T.1" :> "T"
TailSiteTargets ==
    "main.1" :> {"B", "E"} @@ "B.1" :> {"C", "D", "T"} @@ "T.1" :> {"C"}
DecoratedSiteTargets == "main.1" :> {"B"} @@ "B.1" :> {"C", "D"} @@ "T.1" :> {"C"}
TailJumps == {"B.1", "T.1"}
DecoratedJumps == {"B.1"}
TailPointerSites == {"main.1", "B.1"}
TailAbiVersion == [f \in TailFuncs |-> IF f = "E" THEN 2 ELSE 1]
=============================================================================
