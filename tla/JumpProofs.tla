----------------------------- MODULE JumpProofs -----------------------------
(***************************************************************************)
(* What is left of the call tree when calls in tail position do reach      *)
(* decorated functions.  An activation that was entered by a jump may take *)
(* another function's node for its own; but where the node's own function  *)
(* lands at all, it has landed before it can jump anywhere, and so an      *)
(* assert stops the activation that has the wrong node and no other.  And  *)
(* the counts of calls agree, whatever is called how and by whom.          *)
(***************************************************************************)
EXTENDS CallTreeProofs, FiniteSetTheorems

-----------------------------------------------------------------------------
(* The inductive invariant, for any program.                               *)

(* The target of node n of the tree T recognises the call: it lands there  *)
(* when it is entered as it was compiled ahead of time.                    *)
Exact(T, n) ==
    /\ T[n].target \in Targets
    /\ AbiVersion[SiteFn[T[n].location]] = AbiVersion[T[n].target]

Settled(T, n) == n # NoNode /\ Exact(T, n) => T[n].landing = T[n].target

(* A short cut leads somewhere, if not where it should.                    *)
CodeSane(c) == c.known # None => c.leaf # None

(* Only its own target lands in an exact node, which is not retargeted and *)
(* has no children until it has landed.                                    *)
NodesSettled ==
    \A n \in NodeIds :
        /\ CodeSane(tree[n].resolved_target)
        /\ Settled(tree, tree[n].parent)
        /\ Exact(tree, n) =>
               /\ tree[n].landing \in {None, tree[n].target}
               /\ tree[n].resolved_target # Aot(tree[n].target) => Settled(tree, n)

(* What an activation was entered with has landed, or is landing now.      *)
EntrySettled(t, i) ==
    \/ Settled(tree, stack[t][i].entry)
    \/ /\ i = Len(stack[t])
       /\ pc[t] \in {"landing", "claim"}
       /\ tree[stack[t][i].entry].target = stack[t][i].code.fn

StackSettled(t) ==
    \A i \in 1 .. Len(stack[t]) : CodeSane(stack[t][i].code) /\ EntrySettled(t, i)

(* Landed, without its claim on which function has landed.                 *)
Arrived(t) ==
    pc[t] \in {"landing", "claim", "lock", "construct", "compile"} =>
        /\ HasMagic(Top(t).code, Top(t).entry)
        /\ pc[t] = "claim" /\ Exact(tree, Top(t).entry) =>
               tree[Top(t).entry].target = Top(t).code.fn
        /\ pc[t] \in {"lock", "construct", "compile"} =>
               /\ tree[Top(t).entry].parent # NoNode
               /\ tree[Top(t).entry].landing # None
        /\ pc[t] = "compile" => loc[t].leaf # None

JumpInv ==
    /\ TypeOK
    /\ NodesSettled
    /\ \A t \in Threads : StackSettled(t) /\ Calling(t) /\ Arrived(t) /\ Locked(t)

-----------------------------------------------------------------------------
(* What every step keeps.                                                  *)

Grows ==
    /\ NodeIds \subseteq NodeIds'
    /\ \A n \in NodeIds :
        /\ tree'[n].location = tree[n].location
        /\ tree'[n].parent = tree[n].parent
        /\ tree'[n].target = tree[n].target
        /\ tree[n].landing # None => tree'[n].landing # None
        /\ Settled(tree, n) => Settled(tree', n)

LEMMA ExactKept ==
    ASSUME Grows, NEW n \in NodeIds
    PROVE  Exact(tree', n) <=> Exact(tree, n)
BY DEF Grows, Exact

LEMMA SettledKept ==
    ASSUME Grows, NEW n \in {NoNode} \cup NodeIds, Settled(tree, n)
    PROVE  n \in {NoNode} \cup NodeIds' /\ Settled(tree', n)
BY DEF Grows, Settled

(* Whoever has the magic number of the target and its node is exact.       *)
LEMMA MagicExactly ==
    ASSUME NEW c \in Code, NEW n, HasMagic(c, n), tree[n].target = c.fn
    PROVE  Exact(tree, n)
BY DEF HasMagic, NodeAbi, Exact

(* The activations of another thread.                                      *)
LEMMA OthersSettled ==
    ASSUME JumpInv, NEW t \in Threads, Grows, OthersKept(t), LockKept(t)
    PROVE  \A u \in Threads \ {t} :
               StackSettled(u)' /\ Calling(u)' /\ Arrived(u)' /\ Locked(u)'
<1> SUFFICES ASSUME NEW u \in Threads \ {t}
             PROVE  StackSettled(u)' /\ Calling(u)' /\ Arrived(u)' /\ Locked(u)'
  OBVIOUS
<1>1. /\ stack'[u] = stack[u] /\ pc'[u] = pc[u] /\ loc'[u] = loc[u]
      /\ Top(u)' = Top(u)
  BY DEF OthersKept, Top
<1>2. TypeOK /\ StackSettled(u) /\ Calling(u) /\ Arrived(u) /\ Locked(u)
  BY DEF JumpInv
<1>3. Calling(u)'
  BY <1>1, <1>2 DEF Calling, Grows, NodesOf
<1>4. Arrived(u)'
  <2> DEFINE c == Top(u).code
             e == Top(u).entry
  <2>1. e \in {NoNode} \cup NodeIds
    BY <1>2, TopType
  <2>2. HasMagic(c, e)' = HasMagic(c, e)
    BY <1>1, <2>1 DEF Grows, HasMagic, NodeAbi, NoNode
  <2>3. HasMagic(c, e) => e \in NodeIds
    BY <2>1 DEF HasMagic
  <2>4. e \in NodeIds => (Exact(tree', e) <=> Exact(tree, e))
    BY ExactKept
  <2> HIDE DEF c, e
  <2> QED
    BY <1>1, <1>2, <2>2, <2>3, <2>4 DEF Arrived, Grows, c, e
<1>5. Locked(u)'
  BY <1>1, <1>2 DEF Locked, LockKept
<1>6. StackSettled(u)'
  <2> SUFFICES ASSUME NEW i \in 1 .. Len(stack[u])
               PROVE  CodeSane(stack[u][i].code) /\ EntrySettled(u, i)'
    BY <1>1 DEF StackSettled, CodeSane
  <2>1. CodeSane(stack[u][i].code) /\ EntrySettled(u, i)
    BY <1>2 DEF StackSettled
  <2>2. stack[u][i].entry \in {NoNode} \cup NodeIds
    BY <1>2, FrameAt
  <2>3. CASE Settled(tree, stack[u][i].entry)
    <3> DEFINE e == stack[u][i].entry
    <3>1. Settled(tree', e)
      BY <2>2, <2>3, SettledKept
    <3> QED
      BY <1>1, <2>1, <3>1 DEF EntrySettled
  <2>4. CASE ~Settled(tree, stack[u][i].entry)
    <3>1. stack[u][i].entry \in NodeIds
      BY <2>2, <2>4 DEF Settled
    <3> QED
      BY <1>1, <2>1, <2>4, <3>1 DEF EntrySettled, Grows
  <2> QED
    BY <2>3, <2>4
<1> QED
  BY <1>3, <1>4, <1>5, <1>6

(* A step of thread t preserves the invariant when the types, the nodes    *)
(* and t's own part of it are right afterwards.                            *)
LEMMA JumpStep ==
    ASSUME JumpInv, NEW t \in Threads, Grows, OthersKept(t), LockKept(t),
           TypeOK', NodesSettled', StackSettled(t)', Calling(t)', Arrived(t)', Locked(t)'
    PROVE  JumpInv'
BY OthersSettled DEF JumpInv

(* The tree stays the same.                                                *)
LEMMA SameTree ==
    ASSUME JumpInv, tree' = tree
    PROVE  Grows /\ NodesSettled' /\ NodeIds' = NodeIds /\ \A n : Exact(tree', n) <=> Exact(tree, n)
<1>1. NodeIds' = NodeIds /\ \A n : Exact(tree', n) <=> Exact(tree, n)
  BY DEF NodeIds
<1>2. \A n : Settled(tree', n) <=> Settled(tree, n)
  BY <1>1 DEF Settled
<1>3. Grows
  BY <1>1 DEF Grows, Settled
<1>4. NodesSettled'
  BY <1>1, <1>2 DEF JumpInv, NodesSettled, CodeSane
<1> QED
  BY <1>1, <1>3, <1>4

(* The stacks stay the same, and the thread neither lands nor landed.      *)
LEMMA SameStack ==
    ASSUME JumpInv, NEW t \in Threads, Grows, stack' = stack,
           pc[t] \notin {"landing", "claim"} \/ Settled(tree', Top(t).entry)
    PROVE  StackTyped' /\ StackSettled(t)' /\ Top(t)' = Top(t)
<1>1. TypeOK /\ StackSettled(t)
  BY DEF JumpInv
<1>2. StackTyped'
  BY <1>1 DEF TypeOK, StackTyped, Grows
<1>3. Top(t)' = Top(t)
  BY DEF Top
<1>4. ASSUME NEW i \in 1 .. Len(stack[t])
      PROVE  CodeSane(stack[t][i].code) /\ EntrySettled(t, i)'
  <2>1. CodeSane(stack[t][i].code) /\ EntrySettled(t, i)
    BY <1>1 DEF StackSettled
  <2>2. stack[t][i].entry \in {NoNode} \cup NodeIds
    BY <1>1, FrameAt
  <2>3. CASE Settled(tree, stack[t][i].entry)
    <3> DEFINE e == stack[t][i].entry
    <3>1. Settled(tree', e)
      BY <2>2, <2>3, SettledKept
    <3> QED
      BY <2>1, <3>1 DEF EntrySettled
  <2>4. CASE ~Settled(tree, stack[t][i].entry)
    <3>1. i = Len(stack[t]) /\ pc[t] \in {"landing", "claim"}
      BY <2>1, <2>4 DEF EntrySettled
    <3>2. Settled(tree', stack[t][i].entry)
      BY <1>3, <3>1 DEF Top
    <3> QED
      BY <2>1, <3>2 DEF EntrySettled
  <2> QED
    BY <2>3, <2>4
<1> QED
  BY <1>2, <1>3, <1>4 DEF StackSettled, CodeSane

(* The stack of t becomes new: what is left to check is new itself.        *)
LEMMA NewStack ==
    ASSUME JumpInv, NEW t \in Threads, Grows,
           NEW new \in Seq(FrameType), new # <<>>,
           stack' = [stack EXCEPT ![t] = new],
           \A i \in 1 .. Len(new) : /\ new[i].entry \in {NoNode} \cup NodeIds'
                                    /\ CodeSane(new[i].code)
                                    /\ Settled(tree', new[i].entry)
                                       \/ /\ i = Len(new)
                                          /\ pc'[t] \in {"landing", "claim"}
                                          /\ tree'[new[i].entry].target = new[i].code.fn
    PROVE  /\ StackTyped' /\ StackSettled(t)' /\ Top(t)' = new[Len(new)]
           /\ \A u \in Threads \ {t} : stack'[u] = stack[u]
<1>1. TypeOK
  BY DEF JumpInv
<1>2. /\ stack' \in [Threads -> Seq(FrameType)]
      /\ stack'[t] = new
      /\ \A u \in Threads \ {t} : stack'[u] = stack[u]
  BY <1>1 DEF TypeOK
<1>3. \A u \in Threads \ {t} :
         /\ stack[u] # <<>>
         /\ \A i \in 1 .. Len(stack[u]) : stack[u][i].entry \in {NoNode} \cup NodeIds'
  BY <1>1 DEF TypeOK, Grows
<1>4. StackTyped'
  BY <1>2, <1>3 DEF StackTyped
<1>5. StackSettled(t)' /\ Top(t)' = new[Len(new)]
  BY <1>2 DEF StackSettled, EntrySettled, CodeSane, Top
<1> QED
  BY <1>2, <1>4, <1>5
-----------------------------------------------------------------------------
(* The steps that leave the tree and the stacks alone.                     *)

LEMMA EvaluateJump ==
    ASSUME JumpInv, NEW t \in Threads, NEW s \in Sites, NEW g \in Funcs,
           Evaluate(t, s, g)
    PROVE  JumpInv'
<1>1. Grows /\ NodesSettled' /\ NodeIds' = NodeIds
  BY SameTree DEF Evaluate
<1>2. StackTyped' /\ StackSettled(t)' /\ Top(t)' = Top(t)
  BY <1>1, SameStack DEF Evaluate, AtSite
<1>3. TypeOK
  BY DEF JumpInv
<1>4. /\ pc' = [pc EXCEPT ![t] = "call"]
      /\ loc' = [loc EXCEPT ![t] = [NoLocal EXCEPT !.site = s, !.target = g]]
      /\ [NoLocal EXCEPT !.site = s, !.target = g] \in Local
  BY DEF Evaluate, Goto, NoLocal, Local, NoNode
<1>5. /\ loc' \in [Threads -> Local] /\ loc'[t].site = s /\ loc'[t].target = g
      /\ pc' \in [Threads -> Steps] /\ pc'[t] = "call"
  BY <1>3, <1>4 DEF TypeOK, NoLocal, Steps
<1>6. OthersKept(t) /\ LockKept(t)
  BY <1>3, <1>4 DEF TypeOK, OthersKept, LockKept, Evaluate
<1>7. TypeOK'
  BY <1>1, <1>2, <1>3, <1>5 DEF TypeOK, StackTyped, Evaluate
<1>8. Calling(t)' /\ Arrived(t)' /\ Locked(t)'
  BY <1>2, <1>5 DEF Calling, Arrived, Locked, Evaluate, AtSite
<1>9. QED
  BY <1>1, <1>2, <1>6, <1>7, <1>8, JumpStep

LEMMA CallDecoratedJump ==
    ASSUME JumpInv, NEW t \in Threads, CallDecorated(t)
    PROVE  JumpInv'
<1>1. Grows /\ NodesSettled' /\ NodeIds' = NodeIds
  BY SameTree DEF CallDecorated
<1>2. StackTyped' /\ StackSettled(t)' /\ Top(t)' = Top(t)
  BY <1>1, SameStack DEF CallDecorated
<1>3. TypeOK /\ Calling(t) /\ pc[t] = "call"
  BY DEF JumpInv, CallDecorated
<1>4. pc' = [pc EXCEPT ![t] = "lookup"] /\ loc' = loc
  BY DEF CallDecorated, Goto
<1>5. pc' \in [Threads -> Steps] /\ pc'[t] = "lookup"
  BY <1>3, <1>4 DEF TypeOK, Steps, RuntimeSteps, LookupSteps
<1>6. OthersKept(t) /\ LockKept(t)
  BY <1>3, <1>4 DEF TypeOK, OthersKept, LockKept, CallDecorated
<1>7. total_calls' \in [Sites -> Count]
  BY <1>3, IncrementType DEF TypeOK, CallDecorated
<1>8. TypeOK'
  BY <1>1, <1>2, <1>3, <1>5, <1>7 DEF TypeOK, StackTyped, CallDecorated
<1>9. Calling(t)' /\ Arrived(t)' /\ Locked(t)'
  BY <1>2, <1>3, <1>4, <1>5 DEF Calling, Arrived, Locked
<1>10. QED
  BY <1>1, <1>2, <1>6, <1>8, <1>9, JumpStep

LEMMA LookupHitJump ==
    ASSUME JumpInv, NEW t \in Threads, LookupHit(t)
    PROVE  JumpInv'
<1>1. Grows /\ NodesSettled' /\ NodeIds' = NodeIds
  BY SameTree DEF LookupHit
<1>2. StackTyped' /\ StackSettled(t)' /\ Top(t)' = Top(t)
  BY <1>1, SameStack DEF LookupHit
<1>3. TypeOK /\ Calling(t)
  BY DEF JumpInv
<1>4. PICK n \in NodeIds : loc' = [loc EXCEPT ![t].node = n]
  BY DEF LookupHit, Matches
<1>5. n \in Nat
  BY <1>3 DEF NodeIds
<1>6. pc' = [pc EXCEPT ![t] = "dispatch"] /\ pc[t] = "lookup"
  BY DEF LookupHit, Goto
<1>7. /\ loc' \in [Threads -> Local] /\ loc'[t] = [loc[t] EXCEPT !.node = n]
      /\ pc' \in [Threads -> Steps] /\ pc'[t] = "dispatch"
  BY <1>3, <1>4, <1>5, <1>6 DEF TypeOK, Local, Steps, RuntimeSteps, LookupSteps
<1>8. loc'[t].site = loc[t].site /\ loc'[t].target = loc[t].target /\ loc'[t].node = n
  BY <1>3, <1>7 DEF TypeOK, Local
<1>9. OthersKept(t) /\ LockKept(t)
  BY <1>3, <1>4, <1>6 DEF TypeOK, OthersKept, LockKept, LookupHit
<1>10. TypeOK'
  BY <1>1, <1>2, <1>3, <1>7 DEF TypeOK, StackTyped, LookupHit
<1>11. Calling(t)' /\ Arrived(t)' /\ Locked(t)'
  BY <1>1, <1>2, <1>3, <1>6, <1>7, <1>8 DEF Calling, Arrived, Locked
<1>12. QED
  BY <1>1, <1>2, <1>9, <1>10, <1>11, JumpStep

LEMMA LookupMissJump ==
    ASSUME JumpInv, NEW t \in Threads, LookupMiss(t)
    PROVE  JumpInv'
<1>1. Grows /\ NodesSettled' /\ NodeIds' = NodeIds
  BY SameTree DEF LookupMiss
<1>2. StackTyped' /\ StackSettled(t)' /\ Top(t)' = Top(t)
  BY <1>1, SameStack DEF LookupMiss
<1>3. TypeOK /\ Calling(t)
  BY DEF JumpInv
<1>4. pc' = [pc EXCEPT ![t] = "insert"] /\ pc[t] = "lookup"
  BY DEF LookupMiss, Goto
<1>5. pc' \in [Threads -> Steps] /\ pc'[t] = "insert"
  BY <1>3, <1>4 DEF TypeOK, Steps, RuntimeSteps, LookupSteps
<1>6. OthersKept(t) /\ LockKept(t)
  BY <1>3, <1>4 DEF TypeOK, OthersKept, LockKept, LookupMiss
<1>7. TypeOK'
  BY <1>1, <1>2, <1>3, <1>5 DEF TypeOK, StackTyped, LookupMiss
<1>8. Calling(t)' /\ Arrived(t)' /\ Locked(t)'
  BY <1>2, <1>3, <1>4, <1>5 DEF Calling, Arrived, Locked, LookupMiss
<1>9. QED
  BY <1>1, <1>2, <1>6, <1>7, <1>8, JumpStep

LEMMA BackJump ==
    ASSUME JumpInv, NEW t \in Threads, Back(t)
    PROVE  JumpInv'
<1>1. Grows /\ NodesSettled' /\ NodeIds' = NodeIds
  BY SameTree DEF Back
<1>2. StackTyped' /\ StackSettled(t)' /\ Top(t)' = Top(t)
  BY <1>1, SameStack DEF Back
<1>3. TypeOK /\ Calling(t)
  BY DEF JumpInv
<1>4. PICK n \in NodeIds : loc' = [loc EXCEPT ![t].node = n]
  BY DEF Back, NodesOf
<1>5. n \in Nat
  BY <1>3 DEF NodeIds
<1>6. pc' = [pc EXCEPT ![t] = "dispatch"] /\ pc[t] = "back"
  BY DEF Back, Goto
<1>7. /\ loc' \in [Threads -> Local] /\ loc'[t] = [loc[t] EXCEPT !.node = n]
      /\ pc' \in [Threads -> Steps] /\ pc'[t] = "dispatch"
  BY <1>3, <1>4, <1>5, <1>6 DEF TypeOK, Local, Steps, RuntimeSteps, LookupSteps
<1>8. loc'[t].site = loc[t].site /\ loc'[t].target = loc[t].target /\ loc'[t].node = n
  BY <1>3, <1>7 DEF TypeOK, Local
<1>9. OthersKept(t) /\ LockKept(t)
  BY <1>3, <1>4, <1>6 DEF TypeOK, OthersKept, LockKept, Back
<1>10. TypeOK'
  BY <1>1, <1>2, <1>3, <1>7 DEF TypeOK, StackTyped, Back
<1>11. Calling(t)' /\ Arrived(t)' /\ Locked(t)'
  BY <1>1, <1>2, <1>3, <1>6, <1>7, <1>8 DEF Calling, Arrived, Locked
<1>12. QED
  BY <1>1, <1>2, <1>9, <1>10, <1>11, JumpStep

LEMMA LockJump ==
    ASSUME JumpInv, NEW t \in Threads, Lock(t)
    PROVE  JumpInv'
<1>1. Grows /\ NodesSettled' /\ NodeIds' = NodeIds /\ tree' = tree
  BY SameTree DEF Lock
<1>2. StackTyped' /\ StackSettled(t)' /\ Top(t)' = Top(t)
  BY <1>1, SameStack DEF Lock
<1>3. TypeOK /\ pc[t] = "lock" /\ Arrived(t)
  BY DEF JumpInv, Lock
<1>4. pc' = [pc EXCEPT ![t] = "construct"]
  BY DEF Lock, Goto
<1>5. pc' \in [Threads -> Steps] /\ pc'[t] = "construct"
  BY <1>3, <1>4 DEF TypeOK, Steps, RuntimeSteps, LookupSteps
<1>6. owner \in {None, t} /\ owner' = t /\ held' = held + 1 /\ held \in Nat
  BY <1>3 DEF Lock, LockFree, Acquire, TypeOK
<1>7. OthersKept(t) /\ LockKept(t)
  BY <1>3, <1>4, <1>6, CallTreeAssumption
     DEF TypeOK, OthersKept, LockKept, Lock
<1>8. TypeOK'
  BY <1>1, <1>2, <1>3, <1>5, <1>6 DEF TypeOK, StackTyped, Lock
<1>9. Calling(t)' /\ Arrived(t)' /\ Locked(t)'
  <2>1. HasMagic(Top(t).code, Top(t).entry)'
    BY <1>1, <1>2, <1>3 DEF Arrived, HasMagic, NodeAbi
  <2>2. QED
    BY <1>1, <1>2, <1>3, <1>5, <1>6, <2>1 DEF Calling, Arrived, Locked
<1>10. QED
  BY <1>1, <1>2, <1>7, <1>8, <1>9, JumpStep

LEMMA ConstructFailsJump ==
    ASSUME JumpInv, NEW t \in Threads, ConstructFails(t)
    PROVE  JumpInv'
<1>1. Grows /\ NodesSettled' /\ NodeIds' = NodeIds
  BY SameTree DEF ConstructFails
<1>2. StackTyped' /\ StackSettled(t)' /\ Top(t)' = Top(t)
  BY <1>1, SameStack DEF ConstructFails
<1>3. TypeOK /\ pc[t] = "construct" /\ Locked(t)
  BY DEF JumpInv, ConstructFails
<1>4. pc' = [pc EXCEPT ![t] = "run"]
  BY DEF ConstructFails, Goto
<1>5. pc' \in [Threads -> Steps] /\ pc'[t] = "run"
  BY <1>3, <1>4 DEF TypeOK, Steps
<1>6. /\ owner = t /\ held' \in Nat
      /\ owner' \in Threads \cup {None}
  BY <1>3 DEF ConstructFails, Release, Locked, TypeOK
<1>7. OthersKept(t) /\ LockKept(t)
  BY <1>3, <1>4, <1>6 DEF TypeOK, OthersKept, LockKept, ConstructFails
<1>8. TypeOK'
  BY <1>1, <1>2, <1>3, <1>5, <1>6 DEF TypeOK, StackTyped, ConstructFails
<1>9. Calling(t)' /\ Arrived(t)' /\ Locked(t)'
  BY <1>5 DEF Calling, Arrived, Locked
<1>10. QED
  BY <1>1, <1>2, <1>7, <1>8, <1>9, JumpStep

LEMMA CompileFailsJump ==
    ASSUME JumpInv, NEW t \in Threads, CompileFails(t)
    PROVE  JumpInv'
<1>1. Grows /\ NodesSettled' /\ NodeIds' = NodeIds
  BY SameTree DEF CompileFails
<1>2. StackTyped' /\ StackSettled(t)' /\ Top(t)' = Top(t)
  BY <1>1, SameStack DEF CompileFails
<1>3. TypeOK
  BY DEF JumpInv
<1>4. /\ pc' = [pc EXCEPT ![t] = "run"]
      /\ loc' = [loc EXCEPT ![t] = NoLocal]
      /\ NoLocal \in Local
  BY DEF CompileFails, Goto, NoLocal, Local, NoNode
<1>5. /\ pc' \in [Threads -> Steps] /\ pc'[t] = "run"
      /\ loc' \in [Threads -> Local]
  BY <1>3, <1>4 DEF TypeOK, Steps
<1>6. OthersKept(t) /\ LockKept(t)
  BY <1>3, <1>4 DEF TypeOK, OthersKept, LockKept, CompileFails
<1>7. TypeOK'
  BY <1>1, <1>2, <1>3, <1>5 DEF TypeOK, StackTyped, CompileFails
<1>8. Calling(t)' /\ Arrived(t)' /\ Locked(t)'
  BY <1>5 DEF Calling, Arrived, Locked
<1>9. QED
  BY <1>1, <1>2, <1>6, <1>7, <1>8, JumpStep

-----------------------------------------------------------------------------
(* Calls, jumps, returns and exceptions.                                   *)

(* The activations that are not on top have settled, and so has the top    *)
(* one of a thread that does not land.                                     *)
LEMMA OldSettled ==
    ASSUME JumpInv, NEW t \in Threads, Grows, pc[t] \notin {"landing", "claim"},
           NEW i \in 1 .. Len(stack[t])
    PROVE  /\ stack[t][i].entry \in {NoNode} \cup NodeIds'
           /\ CodeSane(stack[t][i].code)
           /\ Settled(tree', stack[t][i].entry)
<1>1. TypeOK /\ StackSettled(t)
  BY DEF JumpInv
<1>2. Settled(tree, stack[t][i].entry) /\ CodeSane(stack[t][i].code)
  BY <1>1 DEF StackSettled, EntrySettled
<1>3. stack[t][i].entry \in {NoNode} \cup NodeIds
  BY <1>1, FrameAt
<1> QED
  BY <1>2, <1>3, SettledKept

LEMMA PushSettles ==
    ASSUME JumpInv, NEW t \in Threads, Grows, pc[t] \notin {"landing", "claim"},
           NEW s \in Sites, NEW c \in Code, NEW e \in {NoNode} \cup NodeIds,
           CodeSane(c), Push(t, s, c, e),
           \/ Settled(tree', e)
           \/ pc'[t] \in {"landing", "claim"} /\ tree'[e].target = c.fn
    PROVE  /\ StackTyped' /\ StackSettled(t)' /\ Top(t)' = Frame(c, e)
           /\ \A u \in Threads \ {t} : stack'[u] = stack[u]
<1> DEFINE old == stack[t]
           b == s \in TailSites
           new == Append([old EXCEPT ![Len(old)].last = b], Frame(c, e))
<1>1. TypeOK
  BY DEF JumpInv
<1>2. old \in Seq(FrameType) /\ old # <<>>
  BY <1>1 DEF TypeOK
<1>3. /\ Frame(c, e) \in FrameType
      /\ Frame(c, e).code = c /\ Frame(c, e).entry = e
  BY <1>1 DEF Frame, FrameType, NoNode, NodeIds
<1>4. b \in BOOLEAN
  OBVIOUS
<1>5. /\ new \in Seq(FrameType)
      /\ Len(new) = Len(old) + 1
      /\ new[Len(new)] = Frame(c, e)
      /\ \A i \in 1 .. Len(old) : new[i].code = old[i].code /\ new[i].entry = old[i].entry
  <2> HIDE DEF old, b
  <2>1. QED
    BY <1>2, <1>3, <1>4, PushedSeq
<1>6. stack' = [stack EXCEPT ![t] = new]
  BY DEF Push
<1>7. \A i \in 1 .. Len(old) : /\ old[i].entry \in {NoNode} \cup NodeIds'
                               /\ CodeSane(old[i].code)
                               /\ Settled(tree', old[i].entry)
  BY OldSettled
<1>8. Len(old) \in Nat /\ e \in {NoNode} \cup NodeIds'
  BY <1>2 DEF Grows
<1> HIDE DEF new, b, old
<1>9. \A i \in 1 .. Len(new) : /\ new[i].entry \in {NoNode} \cup NodeIds'
                               /\ CodeSane(new[i].code)
                               /\ Settled(tree', new[i].entry)
                                  \/ /\ i = Len(new)
                                     /\ pc'[t] \in {"landing", "claim"}
                                     /\ tree'[new[i].entry].target = new[i].code.fn
  <2> SUFFICES ASSUME NEW i \in 1 .. Len(new)
               PROVE  /\ new[i].entry \in {NoNode} \cup NodeIds'
                      /\ CodeSane(new[i].code)
                      /\ Settled(tree', new[i].entry)
                         \/ /\ i = Len(new)
                            /\ pc'[t] \in {"landing", "claim"}
                            /\ tree'[new[i].entry].target = new[i].code.fn
    OBVIOUS
  <2>1. CASE i = Len(new)
    BY <2>1, <1>3, <1>5, <1>8
  <2>2. CASE i \in 1 .. Len(old)
    BY <2>2, <1>5, <1>7
  <2>3. QED
    BY <2>1, <2>2, <1>5, <1>8
<1>10. new # <<>>
  BY <1>5, <1>8
<1> QED
  BY <1>5, <1>6, <1>9, <1>10, NewStack

LEMMA PrefixSettles ==
    ASSUME JumpInv, NEW t \in Threads, Grows, pc[t] \notin {"landing", "claim"},
           NEW k \in 1 .. Len(stack[t]),
           stack' = [stack EXCEPT ![t] = SubSeq(@, 1, k)]
    PROVE  /\ StackTyped' /\ StackSettled(t)'
           /\ \A u \in Threads \ {t} : stack'[u] = stack[u]
<1> DEFINE old == stack[t]
           new == SubSeq(old, 1, k)
<1>1. old \in Seq(FrameType)
  BY DEF JumpInv, TypeOK
<1>2. /\ new \in Seq(FrameType)
      /\ Len(new) = k
      /\ \A i \in 1 .. k : new[i] = old[i]
  <2> HIDE DEF old
  <2>1. k \in 1 .. Len(old)
    BY DEF old
  <2>2. QED
    BY <1>1, <2>1, PrefixSeq
<1>3. \A i \in 1 .. Len(old) : /\ old[i].entry \in {NoNode} \cup NodeIds'
                               /\ CodeSane(old[i].code)
                               /\ Settled(tree', old[i].entry)
  BY OldSettled
<1>4. Len(old) \in Nat
  BY <1>1
<1> HIDE DEF new
<1>5. \A i \in 1 .. Len(new) : /\ new[i].entry \in {NoNode} \cup NodeIds'
                               /\ CodeSane(new[i].code)
                               /\ Settled(tree', new[i].entry)
  BY <1>2, <1>3, <1>4
<1>6. new # <<>> /\ stack' = [stack EXCEPT ![t] = new]
  BY <1>2 DEF new
<1> QED
  BY <1>2, <1>5, <1>6, NewStack

(* What an undecorated call or a jump enters, if not the right thing, is   *)
(* code.                                                                   *)
LEMMA CalleesSane ==
    ASSUME NEW c \in Code, CodeSane(c), NEW s \in Sites, NEW g \in Funcs,
           NEW d \in Callees(c, s, g)
    PROVE  d \in Code /\ CodeSane(d)
<1>1. d \in {Aot(g), Bitcode(g)} \/ (c.known = g /\ d = Bitcode(c.leaf))
  BY DEF Callees
<1>2. c.known = g => c.leaf \in Funcs
  BY CallTreeAssumption DEF CodeSane, Code
<1>3. \A f \in Funcs : Aot(f) \in Code /\ Bitcode(f) \in Code
  BY CodeTypes
<1>4. \A f : Aot(f).known = None /\ Bitcode(f).known = None
  BY DEF Aot, Bitcode, Jit
<1> QED
  BY <1>1, <1>2, <1>3, <1>4 DEF CodeSane

LEMMA TopSane ==
    ASSUME JumpInv, NEW t \in Threads
    PROVE  TypeOK /\ Top(t).code \in Code /\ CodeSane(Top(t).code)
BY TopType DEF JumpInv, StackSettled, Top

LEMMA PlainCallJump ==
    ASSUME JumpInv, NEW t \in Threads, PlainCall(t)
    PROVE  JumpInv'
<1> DEFINE s == loc[t].site
           g == loc[t].target
<1>1. Grows /\ NodesSettled' /\ NodeIds' = NodeIds
  BY SameTree DEF PlainCall
<1>2. TypeOK /\ Top(t).code \in Code /\ CodeSane(Top(t).code)
  BY TopSane
<1>3. PICK c \in Callees(Top(t).code, s, g) :
          Push(t, s, c, NoNode) /\ Goto(t, FirstStep(c, NoNode))
  BY DEF PlainCall, PlainEntry
<1>4. s \in Sites /\ c \in Code /\ CodeSane(c)
  <2>1. s \in Sites /\ g \in Funcs
    BY DEF JumpInv, Calling, PlainCall
  <2>2. QED
    BY <1>2, <2>1, CalleesSane
<1>5. /\ StackTyped' /\ StackSettled(t)'
      /\ \A u \in Threads \ {t} : stack'[u] = stack[u]
  <2>1. Settled(tree', NoNode) /\ pc[t] = "call"
    BY DEF Settled, PlainCall
  <2> QED
    BY <1>1, <1>3, <1>4, <2>1, PushSettles
<1>6. /\ pc' = [pc EXCEPT ![t] = "run"]
      /\ loc' = [loc EXCEPT ![t] = NoLocal]
      /\ NoLocal \in Local
  BY <1>3 DEF PlainCall, Goto, FirstStep, HasMagic, NoLocal, Local, NoNode
<1>7. OthersKept(t) /\ LockKept(t)
  BY <1>2, <1>5, <1>6 DEF TypeOK, OthersKept, LockKept, PlainCall
<1>8. TypeOK' /\ pc'[t] = "run"
  BY <1>1, <1>2, <1>5, <1>6 DEF TypeOK, StackTyped, PlainCall, Steps, RuntimeSteps, LookupSteps
<1>9. Calling(t)' /\ Arrived(t)' /\ Locked(t)'
  BY <1>8 DEF Calling, Arrived, Locked
<1>10. QED
  BY <1>1, <1>5, <1>7, <1>8, <1>9, JumpStep

(* A jump keeps the entry, and nothing jumps before its entry has landed.  *)
LEMMA JumpJump ==
    ASSUME JumpInv, NEW t \in Threads, Jump(t)
    PROVE  JumpInv'
<1> DEFINE s == loc[t].site
           g == loc[t].target
           e == Top(t).entry
           old == stack[t]
<1>1. Grows /\ NodesSettled' /\ NodeIds' = NodeIds /\ tree' = tree
  BY SameTree DEF Jump
<1>2. TypeOK /\ Top(t).code \in Code /\ CodeSane(Top(t).code) /\ e \in {NoNode} \cup NodeIds
  BY TopSane, TopType
<1>3. PICK c \in Callees(Top(t).code, s, g) :
          /\ stack' = [stack EXCEPT ![t][Len(stack[t])] = Frame(c, e)]
          /\ Goto(t, FirstStep(c, e))
  BY DEF Jump
<1>4. s \in Sites /\ c \in Code /\ CodeSane(c) /\ pc[t] = "call"
  <2>1. s \in Sites /\ g \in Funcs
    BY DEF JumpInv, Calling, Jump
  <2>2. QED
    BY <1>2, <2>1, CalleesSane DEF Jump
<1> DEFINE new == [old EXCEPT ![Len(old)] = Frame(c, e)]
<1>5. old \in Seq(FrameType) /\ old # <<>> /\ Len(old) \in Nat
  BY <1>2 DEF TypeOK
<1>6. /\ Frame(c, e) \in FrameType
      /\ Frame(c, e).code = c /\ Frame(c, e).entry = e
  BY <1>2, <1>4 DEF Frame, FrameType, NoNode, NodeIds
<1>7. /\ new \in Seq(FrameType)
      /\ Len(new) = Len(old)
      /\ new[Len(new)] = Frame(c, e)
      /\ \A i \in 1 .. Len(old) - 1 : new[i] = old[i]
  <2> HIDE DEF old, e
  <2>1. QED
    BY <1>5, <1>6, ReplacedSeq
<1>8. stack' = [stack EXCEPT ![t] = new]
  BY <1>3
<1>9. \A i \in 1 .. Len(old) : /\ old[i].entry \in {NoNode} \cup NodeIds'
                               /\ CodeSane(old[i].code)
                               /\ Settled(tree', old[i].entry)
  BY <1>1, <1>4, OldSettled
<1>10. e = old[Len(old)].entry
  BY DEF Top
<1> HIDE DEF new, old, e
<1>11. \A i \in 1 .. Len(new) : /\ new[i].entry \in {NoNode} \cup NodeIds'
                                /\ CodeSane(new[i].code)
                                /\ Settled(tree', new[i].entry)
  BY <1>4, <1>5, <1>6, <1>7, <1>9, <1>10
<1>12. new # <<>>
  BY <1>5, <1>7
<1>13. /\ StackTyped' /\ StackSettled(t)' /\ Top(t)' = Frame(c, e)
       /\ \A u \in Threads \ {t} : stack'[u] = stack[u]
  BY <1>1, <1>7, <1>8, <1>11, <1>12, NewStack
<1>14. /\ pc' = [pc EXCEPT ![t] = FirstStep(c, e)]
       /\ loc' = [loc EXCEPT ![t] = NoLocal]
       /\ FirstStep(c, e) \in {"run", "landing"}
       /\ NoLocal \in Local
  BY <1>3 DEF Jump, Goto, FirstStep, NoLocal, Local, NoNode
<1>15. /\ pc' \in [Threads -> Steps] /\ pc'[t] = FirstStep(c, e)
       /\ loc' \in [Threads -> Local]
  BY <1>2, <1>14 DEF TypeOK, Steps, RuntimeSteps, LookupSteps
<1>16. OthersKept(t) /\ LockKept(t)
  BY <1>2, <1>13, <1>14 DEF TypeOK, OthersKept, LockKept, Jump
<1>17. TypeOK'
  BY <1>1, <1>2, <1>13, <1>15 DEF TypeOK, StackTyped, Jump
<1>18. pc'[t] = "landing" => HasMagic(Top(t).code, Top(t).entry)'
  <2>1. Top(t)'.code = c /\ Top(t)'.entry = e
    BY <1>6, <1>13
  <2>2. pc'[t] = "landing" => HasMagic(c, e)
    BY <1>15 DEF FirstStep
  <2>3. QED
    BY <1>1, <2>1, <2>2 DEF HasMagic, NodeAbi
<1>19. Calling(t)' /\ Arrived(t)' /\ Locked(t)'
  BY <1>14, <1>15, <1>18 DEF Calling, Arrived, Locked
<1> QED
  BY <1>1, <1>13, <1>16, <1>17, <1>19, JumpStep

LEMMA ReturnJump ==
    ASSUME JumpInv, NEW t \in Threads, Return(t)
    PROVE  JumpInv'
<1>1. Grows /\ NodesSettled' /\ NodeIds' = NodeIds
  BY SameTree DEF Return
<1>2. TypeOK /\ Len(stack[t]) \in Nat /\ pc[t] = "run"
  BY TopType DEF JumpInv, Return
<1>3. /\ StackTyped' /\ StackSettled(t)'
      /\ \A u \in Threads \ {t} : stack'[u] = stack[u]
  <2>1. Len(stack[t]) - 1 \in 1 .. Len(stack[t])
    BY <1>2 DEF Return
  <2>2. stack' = [stack EXCEPT ![t] = SubSeq(@, 1, Len(stack[t]) - 1)]
    BY DEF Return
  <2>3. QED
    BY <1>1, <1>2, <2>1, <2>2, PrefixSettles
<1>4. OthersKept(t) /\ LockKept(t)
  BY <1>3 DEF OthersKept, LockKept, Return
<1>5. TypeOK' /\ pc'[t] = "run"
  BY <1>1, <1>2, <1>3 DEF TypeOK, StackTyped, Return
<1>6. Calling(t)' /\ Arrived(t)' /\ Locked(t)'
  BY <1>5 DEF Calling, Arrived, Locked
<1>7. QED
  BY <1>1, <1>3, <1>4, <1>5, <1>6, JumpStep

LEMMA ThrowJump ==
    ASSUME JumpInv, NEW t \in Threads, NEW k \in DOMAIN stack[t], Throw(t, k)
    PROVE  JumpInv'
<1>1. Grows /\ NodesSettled' /\ NodeIds' = NodeIds
  BY SameTree DEF Throw
<1>2. TypeOK /\ k \in 1 .. Len(stack[t]) /\ pc[t] = "run"
  BY TopType DEF JumpInv, Throw
<1>3. /\ StackTyped' /\ StackSettled(t)'
      /\ \A u \in Threads \ {t} : stack'[u] = stack[u]
  BY <1>1, <1>2, PrefixSettles DEF Throw
<1>4. OthersKept(t) /\ LockKept(t)
  BY <1>3 DEF OthersKept, LockKept, Throw
<1>5. TypeOK' /\ pc'[t] = "run"
  BY <1>1, <1>2, <1>3 DEF TypeOK, StackTyped, Throw
<1>6. Calling(t)' /\ Arrived(t)' /\ Locked(t)'
  BY <1>5 DEF Calling, Arrived, Locked
<1>7. QED
  BY <1>1, <1>3, <1>4, <1>5, <1>6, JumpStep

-----------------------------------------------------------------------------
(* The steps that change the tree, and the landing.                        *)

(* A node is made under a parent that has landed.                          *)
LEMMA InsertJump ==
    ASSUME JumpInv, NEW t \in Threads, Insert(t)
    PROVE  JumpInv' /\ (aborted' => aborted)
<1> DEFINE s == loc[t].site
           g == loc[t].target
           p == Caller(t)
           new == Node(s, p, g)
<1>1. TypeOK /\ NodesSettled /\ Calling(t) /\ tree \in Seq(NodeType)
  BY DEF JumpInv, TypeOK
<1>2. /\ pc[t] = "insert" /\ s \in Sites /\ g \in Funcs \cap SiteTargets[s]
      /\ Top(t).code.fn = SiteFn[s]
  BY <1>1 DEF Insert, Calling
<1>3. p \in {NoNode} \cup NodeIds /\ Settled(tree, p)
  <2>1. Top(t).entry \in {NoNode} \cup NodeIds
    BY <1>1, TopType
  <2>2. Settled(tree, Top(t).entry)
    <3>1. Len(stack[t]) \in 1 .. Len(stack[t])
      BY <1>1, TopType
    <3> QED
      BY <1>2, <3>1 DEF JumpInv, StackSettled, EntrySettled, Top
  <2> QED
    BY <2>1, <2>2 DEF Caller, Settled
<1>4. /\ new \in NodeType /\ new.location = s /\ new.parent = p
      /\ new.landing = None /\ new.target = g /\ new.resolved_target = Aot(g)
      /\ CodeSane(new.resolved_target)
  <2>1. new \in NodeType
    BY <1>2, <1>3, CodeTypes, CallTreeAssumption DEF Node, NodeType, NoNode, NodeIds, Count
  <2> QED
    BY <2>1 DEF Node, CodeSane, Aot, Bitcode, Jit
<1>5. /\ tree' \in Seq(NodeType)
      /\ Len(tree') = Len(tree) + 1 /\ Len(tree) \in Nat
      /\ tree'[Len(tree) + 1] = new
      /\ \A n \in NodeIds : tree'[n] = tree[n]
  <2>1. tree' = Append(tree, new)
    BY DEF Insert
  <2> HIDE DEF new
  <2>2. QED
    BY <1>1, <1>4, <2>1 DEF NodeIds
<1>6. NodeIds' = NodeIds \cup {Len(tree) + 1} /\ Grows
  BY <1>5 DEF NodeIds, Grows, Settled, Exact
<1>7. NodesSettled'
  <2>1. \A n \in {NoNode} \cup NodeIds : Settled(tree, n) => Settled(tree', n)
    BY <1>6, SettledKept
  <2>2. \A n \in NodeIds : Exact(tree', n) <=> Exact(tree, n)
    BY <1>6, ExactKept
  <2>3. \A n \in NodeIds : tree[n].parent \in {NoNode} \cup NodeIds
    BY <1>1 DEF TypeOK
  <2>4. Settled(tree', p)
    BY <1>3, <2>1
  <2> HIDE DEF new, s, p, g
  <2>5. ASSUME NEW n \in NodeIds'
        PROVE  /\ CodeSane(tree'[n].resolved_target)
               /\ Settled(tree', tree'[n].parent)
               /\ Exact(tree', n) =>
                      /\ tree'[n].landing \in {None, tree'[n].target}
                      /\ tree'[n].resolved_target # Aot(tree'[n].target) => Settled(tree', n)
    <3>1. CASE n = Len(tree) + 1
      BY <1>4, <1>5, <2>4, <3>1
    <3>2. CASE n \in NodeIds
      BY <1>1, <1>5, <2>1, <2>2, <2>3, <3>2 DEF NodesSettled
    <3> QED
      BY <1>6, <3>1, <3>2
  <2> QED
    BY <2>5 DEF NodesSettled, CodeSane, Aot, Bitcode, Jit
<1>8. StackTyped' /\ StackSettled(t)' /\ Top(t)' = Top(t)
  BY <1>2, <1>6, SameStack DEF Insert
<1>9. pc' = [pc EXCEPT ![t] = "back"]
  BY DEF Insert, Goto
<1>10. pc' \in [Threads -> Steps] /\ pc'[t] = "back"
  BY <1>1, <1>9 DEF TypeOK, Steps, RuntimeSteps, LookupSteps
<1>11. ~aborted'
  BY <1>2 DEF Insert, Caller, HasMagic
<1>12. OthersKept(t) /\ LockKept(t)
  BY <1>1, <1>9 DEF TypeOK, OthersKept, LockKept, Insert
<1>13. TypeOK'
  <2>1. \A n \in NodeIds' : tree'[n].parent \in {NoNode} \cup NodeIds'
    <3> HIDE DEF new, p
    <3>1. QED
      BY <1>1, <1>3, <1>4, <1>5, <1>6 DEF TypeOK
  <2>2. QED
    BY <1>1, <1>5, <1>8, <1>10, <1>11, <2>1 DEF TypeOK, StackTyped, Insert
<1>14. Calling(t)' /\ Arrived(t)' /\ Locked(t)'
  <2>1. Len(tree) + 1 \in NodesOf(s)'
    <3> HIDE DEF new
    <3>1. loc' = loc
      BY DEF Insert
    <3>2. QED
      BY <1>4, <1>5, <1>6, <3>1 DEF NodesOf
  <2>2. QED
    BY <1>2, <1>8, <1>10, <2>1 DEF Calling, Arrived, Locked, Insert
<1>15. QED
  BY <1>6, <1>7, <1>8, <1>11, <1>12, <1>13, <1>14, JumpStep

(* The call enters the target as it was compiled, which lands, or the node *)
(* has landed.                                                             *)
LEMMA DispatchJump ==
    ASSUME JumpInv, NEW t \in Threads, Dispatch(t)
    PROVE  JumpInv'
<1> DEFINE n == loc[t].node
           s == loc[t].site
           c == tree[n].resolved_target
<1>1. TypeOK /\ NodesSettled /\ Calling(t) /\ tree \in Seq(NodeType)
  BY DEF JumpInv, TypeOK
<1>2. pc[t] = "dispatch" /\ s \in Sites /\ n \in NodeIds
  BY <1>1 DEF Dispatch, Calling
<1>3. tree' = [tree EXCEPT ![n].chain_calls = Increment(@)]
  BY DEF Dispatch
<1>4. tree[n] \in NodeType /\ Increment(tree[n].chain_calls) \in Count
  <2>1. tree[n] \in NodeType
    BY <1>1, <1>2 DEF NodeIds
  <2> HIDE DEF n
  <2>2. tree[n].chain_calls \in Count
    BY <2>1 DEF NodeType
  <2>3. QED
    BY <2>1, <2>2, IncrementType
<1>5. tree' \in Seq(NodeType) /\ NodeIds' = NodeIds
  <2> HIDE DEF n
  <2>1. [tree[n] EXCEPT !.chain_calls = Increment(@)] \in NodeType
    BY <1>4 DEF NodeType
  <2>2. QED
    BY <1>1, <1>2, <1>3, <2>1 DEF NodeIds
<1>6. \A m \in NodeIds : /\ tree'[m].location = tree[m].location
                         /\ tree'[m].parent = tree[m].parent
                         /\ tree'[m].target = tree[m].target
                         /\ tree'[m].resolved_target = tree[m].resolved_target
                         /\ tree'[m].landing = tree[m].landing
  BY <1>1, <1>3, <1>4 DEF NodeIds, NodeType
<1>7. /\ \A m \in NodeIds : Exact(tree', m) <=> Exact(tree, m)
      /\ \A m \in {NoNode} \cup NodeIds : Settled(tree', m) <=> Settled(tree, m)
  BY <1>6 DEF Exact, Settled
<1>8. Grows
  BY <1>5, <1>6, <1>7 DEF Grows
<1>9. NodesSettled' /\ \A m \in NodeIds' : tree'[m].parent \in {NoNode} \cup NodeIds'
  <2>1. \A m \in NodeIds : tree[m].parent \in {NoNode} \cup NodeIds
    BY <1>1 DEF TypeOK
  <2>2. \A m \in NodeIds : /\ CodeSane(tree'[m].resolved_target)
                           /\ Settled(tree', tree'[m].parent)
                           /\ Exact(tree', m) =>
                                  /\ tree'[m].landing \in {None, tree'[m].target}
                                  /\ tree'[m].resolved_target # Aot(tree'[m].target)
                                         => Settled(tree', m)
    BY <1>1, <1>6, <1>7, <2>1 DEF NodesSettled
  <2>3. QED
    BY <1>5, <1>6, <2>1, <2>2 DEF NodesSettled, CodeSane, Aot, Bitcode, Jit
<1>10. c \in Code /\ CodeSane(c) /\ n \in Nat \ {0}
  BY <1>1, <1>2, <1>4 DEF NodesSettled, NodeType, NodeIds
<1>11. /\ pc' = [pc EXCEPT ![t] = FirstStep(c, n)]
       /\ loc' = [loc EXCEPT ![t] = NoLocal]
       /\ FirstStep(c, n) \in {"run", "landing"}
       /\ NoLocal \in Local
  BY DEF Dispatch, Goto, FirstStep, NoLocal, Local, NoNode
<1>12. /\ pc' \in [Threads -> Steps] /\ pc'[t] = FirstStep(c, n)
       /\ loc' \in [Threads -> Local]
  BY <1>1, <1>11 DEF TypeOK, Steps, RuntimeSteps, LookupSteps
<1>13. \/ Settled(tree', n)
       \/ pc'[t] \in {"landing", "claim"} /\ tree'[n].target = c.fn
  <2>1. CASE ~Exact(tree, n)
    BY <1>2, <1>7, <2>1 DEF Settled
  <2>2. CASE Exact(tree, n) /\ c # Aot(tree[n].target)
    BY <1>1, <1>2, <1>7, <2>2 DEF NodesSettled
  <2>3. CASE Exact(tree, n) /\ c = Aot(tree[n].target)
    <3>1. c.aot /\ c.fn = tree[n].target
      <4> HIDE DEF n, c
      <4> QED
        BY <2>3 DEF Aot, Bitcode, Jit
    <3>2. HasMagic(c, n)
      BY <1>10, <2>3, <3>1 DEF HasMagic, NodeAbi, Exact, NoNode
    <3> QED
      BY <1>2, <1>6, <1>12, <3>1, <3>2 DEF FirstStep
  <2> QED
    BY <2>1, <2>2, <2>3
<1>14. Push(t, s, c, n)
  BY DEF Dispatch
<1>15. /\ StackTyped' /\ StackSettled(t)' /\ Top(t)' = Frame(c, n)
       /\ \A u \in Threads \ {t} : stack'[u] = stack[u]
  <2> HIDE DEF n, s, c
  <2> QED
    BY <1>2, <1>8, <1>10, <1>13, <1>14, PushSettles
<1>16. OthersKept(t) /\ LockKept(t)
  BY <1>1, <1>11, <1>15 DEF TypeOK, OthersKept, LockKept, Dispatch
<1>17. TypeOK'
  BY <1>1, <1>5, <1>9, <1>12, <1>15 DEF TypeOK, StackTyped, Dispatch
<1>18. pc'[t] = "landing" => HasMagic(Top(t).code, Top(t).entry)'
  <2>1. Top(t)'.code = c /\ Top(t)'.entry = n
    BY <1>15 DEF Frame
  <2>2. pc'[t] = "landing" => HasMagic(c, n)
    BY <1>12 DEF FirstStep
  <2> HIDE DEF c, n
  <2>3. QED
    BY <1>2, <1>6, <2>1, <2>2 DEF HasMagic, NodeAbi
<1>19. Calling(t)' /\ Arrived(t)' /\ Locked(t)'
  BY <1>11, <1>12, <1>18 DEF Calling, Arrived, Locked
<1> QED
  BY <1>8, <1>9, <1>15, <1>16, <1>17, <1>19, JumpStep

(* Past the check of the magic number.                                     *)
LEMMA ArrivedEntry ==
    ASSUME JumpInv, NEW t \in Threads,
           pc[t] \in {"landing", "claim", "lock", "construct", "compile"}
    PROVE  /\ Top(t).entry \in NodeIds
           /\ Top(t).code \in Code
           /\ Top(t).code.fn \in Targets
           /\ tree[Top(t).entry] \in NodeType
           /\ NodeAbi(Top(t).entry) = AbiVersion[Top(t).code.fn]
           /\ tree[Top(t).entry].target = Top(t).code.fn => Exact(tree, Top(t).entry)
<1>1. TypeOK /\ Top(t).code \in Code /\ Top(t).entry \in {NoNode} \cup NodeIds
  BY TopType DEF JumpInv
<1>2. HasMagic(Top(t).code, Top(t).entry)
  BY DEF JumpInv, Arrived
<1>3. Top(t).entry \in NodeIds
  BY <1>1, <1>2 DEF HasMagic
<1>4. tree[Top(t).entry] \in NodeType
  BY <1>1, <1>3 DEF TypeOK, NodeIds
<1> QED
  BY <1>1, <1>2, <1>3, <1>4, MagicExactly DEF HasMagic

(* The first to land in an exact node is its target, and only an           *)
(* activation of another function is stopped by an assert.                 *)
LEMMA LandingJump ==
    ASSUME JumpInv, NEW t \in Threads, Landing(t)
    PROVE  /\ JumpInv'
           /\ aborted' => tree'[Top(t)'.entry].target # Top(t)'.code.fn
                          /\ Top(t)'.entry # NoNode
<1> DEFINE n == Top(t).entry
           f == Top(t).code.fn
<1>1. Grows /\ NodesSettled' /\ NodeIds' = NodeIds /\ tree' = tree
  BY SameTree DEF Landing
<1>2. TypeOK /\ NodesSettled /\ pc[t] = "landing" /\ Arrived(t) /\ StackSettled(t)
  BY DEF JumpInv, Landing
<1>3. /\ n \in NodeIds /\ f \in Targets /\ tree[n] \in NodeType
      /\ NodeAbi(n) = AbiVersion[f]
      /\ tree[n].target = f => Exact(tree, n)
  BY <1>2, ArrivedEntry
<1>4. Settled(tree, n) \/ tree[n].target = f
  <2>1. Len(stack[t]) \in 1 .. Len(stack[t])
    BY <1>2, TopType
  <2> QED
    BY <1>2, <2>1 DEF StackSettled, EntrySettled, Top
<1>5. Exact(tree, n) => tree[n].landing \in {None, tree[n].target} /\ tree[n].target # None
  BY <1>2, <1>3, CallTreeAssumption DEF NodesSettled, NodeType
<1>6. /\ pc' = [pc EXCEPT ![t] = IF HasLanded(n) THEN "run" ELSE "claim"]
      /\ aborted' => HasLanded(n) /\ tree[n].landing # f
  BY <1>3 DEF Landing, Goto
<1>7. pc' \in [Threads -> Steps] /\ pc'[t] = (IF HasLanded(n) THEN "run" ELSE "claim")
  BY <1>2, <1>6 DEF TypeOK, Steps, RuntimeSteps, LookupSteps
<1>8. stack' = stack /\ Top(t)' = Top(t)
  BY DEF Landing, Top
<1>9. aborted' => tree[n].target # f
  BY <1>3, <1>5, <1>6 DEF HasLanded
<1>10. HasLanded(n) => Settled(tree, n)
  BY <1>5 DEF HasLanded, Settled
<1>11. ~HasLanded(n) /\ Exact(tree, n) => tree[n].target = f
  BY <1>3, <1>4, <1>5 DEF HasLanded, Settled, NoNode, NodeIds
<1>12. StackTyped' /\ StackSettled(t)'
  <2>1. StackTyped'
    BY <1>1, <1>2, <1>8 DEF TypeOK, StackTyped
  <2>2. CASE HasLanded(n)
    BY <1>1, <1>8, <1>10, <2>2, SameStack
  <2>3. CASE ~HasLanded(n)
    <3>1. pc'[t] = "claim"
      BY <1>7, <2>3
    <3>2. ASSUME NEW i \in 1 .. Len(stack[t])
          PROVE  CodeSane(stack[t][i].code) /\ EntrySettled(t, i)'
      <4>1. CodeSane(stack[t][i].code) /\ EntrySettled(t, i)
        BY <1>2 DEF StackSettled
      <4> QED
        BY <1>1, <1>8, <3>1, <4>1 DEF EntrySettled
    <3> QED
      BY <1>8, <2>1, <3>2 DEF StackSettled, CodeSane
  <2> QED
    BY <2>1, <2>2, <2>3
<1>13. OthersKept(t) /\ LockKept(t)
  BY <1>2, <1>6 DEF TypeOK, OthersKept, LockKept, Landing
<1>14. total_called' \in [Targets -> Count]
  BY <1>2, IncrementType DEF TypeOK, Landing
<1>15. TypeOK'
  <2>1. aborted' \in BOOLEAN
    BY DEF Landing
  <2> QED
    BY <1>1, <1>2, <1>7, <1>12, <1>14, <2>1 DEF TypeOK, StackTyped, Landing
<1>16. Calling(t)' /\ Arrived(t)' /\ Locked(t)'
  <2>1. HasMagic(Top(t).code, Top(t).entry)'
    BY <1>1, <1>2, <1>8 DEF Arrived, HasMagic, NodeAbi
  <2>2. pc'[t] \in {"run", "claim"}
    BY <1>7
  <2>3. pc'[t] = "claim" /\ Exact(tree', Top(t)'.entry) => tree'[Top(t)'.entry].target = Top(t)'.code.fn
    BY <1>1, <1>7, <1>8, <1>11
  <2>4. QED
    BY <2>1, <2>2, <2>3 DEF Calling, Arrived, Locked
<1>17. JumpInv'
  BY <1>1, <1>12, <1>13, <1>15, <1>16, JumpStep
<1> QED
  BY <1>1, <1>3, <1>8, <1>9, <1>17 DEF NoNode, NodeIds

(* An exact node is claimed for its target.                                *)
LEMMA ClaimJump ==
    ASSUME JumpInv, NEW t \in Threads, Claim(t)
    PROVE  JumpInv'
<1> DEFINE n == Top(t).entry
           f == Top(t).code.fn
<1>1. /\ TypeOK /\ NodesSettled /\ pc[t] = "claim" /\ Arrived(t)
      /\ tree \in Seq(NodeType)
  BY DEF JumpInv, TypeOK, Claim
<1>2. /\ n \in NodeIds /\ f \in Targets /\ tree[n] \in NodeType /\ f # None
      /\ Exact(tree, n) => tree[n].target = f
  BY <1>1, ArrivedEntry, CallTreeAssumption DEF Arrived
<1>3. tree' = [tree EXCEPT ![n].landing = f]
  BY DEF Claim
<1>4. tree' \in Seq(NodeType) /\ NodeIds' = NodeIds
  <2>1. [tree[n] EXCEPT !.landing = f] \in NodeType
    BY <1>2, CallTreeAssumption DEF NodeType
  <2> HIDE DEF n, f
  <2>2. QED
    BY <1>1, <1>2, <1>3, <2>1 DEF NodeIds
<1>5. /\ \A m \in NodeIds : /\ tree'[m].location = tree[m].location
                            /\ tree'[m].parent = tree[m].parent
                            /\ tree'[m].target = tree[m].target
                            /\ tree'[m].resolved_target = tree[m].resolved_target
                            /\ m # n => tree'[m].landing = tree[m].landing
      /\ tree'[n].landing = f
  <2> HIDE DEF n, f
  <2>1. QED
    BY <1>1, <1>2, <1>3 DEF NodeIds, NodeType
<1>6. /\ \A m \in NodeIds : Exact(tree', m) <=> Exact(tree, m)
      /\ \A m \in {NoNode} \cup NodeIds : Settled(tree, m) => Settled(tree', m)
      /\ Settled(tree', n)
  <2> HIDE DEF n, f
  <2>1. \A m \in NodeIds : Exact(tree', m) <=> Exact(tree, m)
    BY <1>5 DEF Exact
  <2>2. Settled(tree', n)
    BY <1>2, <1>5, <2>1 DEF Settled
  <2>3. \A m \in NodeIds : m # n /\ Settled(tree, m) => Settled(tree', m)
    BY <1>5, <2>1 DEF Settled
  <2>4. Settled(tree', NoNode)
    BY DEF Settled
  <2> QED
    BY <2>1, <2>2, <2>3, <2>4
<1>7. Grows
  <2> HIDE DEF n, f
  <2>1. QED
    BY <1>2, <1>4, <1>5, <1>6 DEF Grows
<1>8. NodesSettled' /\ \A m \in NodeIds' : tree'[m].parent \in {NoNode} \cup NodeIds'
  <2>1. \A m \in NodeIds : tree[m].parent \in {NoNode} \cup NodeIds
    BY <1>1 DEF TypeOK
  <2> HIDE DEF n, f
  <2>2. ASSUME NEW m \in NodeIds
        PROVE  /\ CodeSane(tree'[m].resolved_target)
               /\ Settled(tree', tree'[m].parent)
               /\ Exact(tree', m) =>
                      /\ tree'[m].landing \in {None, tree'[m].target}
                      /\ tree'[m].resolved_target # Aot(tree'[m].target)
                             => Settled(tree', m)
    <3>1. CodeSane(tree'[m].resolved_target) /\ Settled(tree', tree'[m].parent)
      BY <1>1, <1>5, <1>6, <2>1 DEF NodesSettled
    <3>2. CASE m = n
      BY <1>2, <1>5, <1>6, <3>1, <3>2
    <3>3. CASE m # n
      BY <1>1, <1>5, <1>6, <3>1, <3>3 DEF NodesSettled
    <3> QED
      BY <3>2, <3>3
  <2>3. QED
    BY <1>4, <1>5, <2>1, <2>2 DEF NodesSettled, CodeSane, Aot, Bitcode, Jit
<1>9. StackTyped' /\ StackSettled(t)' /\ Top(t)' = Top(t)
  BY <1>6, <1>7, SameStack DEF Claim
<1>10. PICK step \in {"run", "lock"} : pc' = [pc EXCEPT ![t] = step]
  BY DEF Claim, Goto
<1>11. /\ pc' \in [Threads -> Steps] /\ pc'[t] \in {"run", "lock"}
       /\ \A u \in Threads \ {t} : pc'[u] = pc[u]
  BY <1>1, <1>10 DEF TypeOK, Steps, RuntimeSteps, LookupSteps
<1>12. OthersKept(t) /\ LockKept(t)
  BY <1>11 DEF OthersKept, LockKept, Claim
<1>13. pc'[t] = "lock" => tree[n].parent # NoNode
  <2> SUFFICES ASSUME tree[n].parent = NoNode
               PROVE  pc'[t] = "run"
    OBVIOUS
  <2>1. ~Inspected(n)
    BY DEF Inspected
  <2>2. pc' = [pc EXCEPT ![t] = "run"]
    BY <2>1 DEF Claim, Goto
  <2>3. QED
    BY <1>1, <2>2 DEF TypeOK
<1>14. TypeOK'
  BY <1>1, <1>4, <1>8, <1>9, <1>11 DEF TypeOK, StackTyped, Claim
<1>15. Calling(t)' /\ Arrived(t)' /\ Locked(t)'
  <2>1. HasMagic(Top(t).code, Top(t).entry)'
    BY <1>1, <1>2, <1>5, <1>9 DEF Arrived, HasMagic, NodeAbi
  <2>2. tree'[n].parent = tree[n].parent
    BY <1>2, <1>5
  <2>3. QED
    BY <1>2, <1>5, <1>9, <1>11, <1>13, <2>1, <2>2 DEF Calling, Arrived, Locked
<1>16. QED
  BY <1>7, <1>8, <1>9, <1>12, <1>14, <1>15, JumpStep

LEMMA ConstructJump ==
    ASSUME JumpInv, NEW t \in Threads, Construct(t)
    PROVE  JumpInv'
<1> DEFINE f == tree[Top(t).entry].landing
<1>1. Grows /\ NodesSettled' /\ NodeIds' = NodeIds /\ tree' = tree
  BY SameTree DEF Construct
<1>2. StackTyped' /\ StackSettled(t)' /\ Top(t)' = Top(t)
  BY <1>1, SameStack DEF Construct
<1>3. TypeOK /\ pc[t] = "construct" /\ Arrived(t) /\ Locked(t)
  BY DEF JumpInv, Construct
<1>4. f \in Funcs
  <2>1. tree[Top(t).entry] \in NodeType /\ f # None
    BY <1>3, ArrivedEntry DEF Arrived
  <2> QED
    BY <2>1 DEF NodeType
<1>5. pc' = [pc EXCEPT ![t] = "compile"] /\ loc' = [loc EXCEPT ![t].leaf = f]
  BY DEF Construct, Goto
<1>6. f # None
  BY <1>4, CallTreeAssumption
<1> HIDE DEF f
<1>7. /\ pc' \in [Threads -> Steps] /\ pc'[t] = "compile"
      /\ loc' \in [Threads -> Local] /\ loc'[t].leaf = f
  BY <1>3, <1>4, <1>5 DEF TypeOK, Steps, RuntimeSteps, LookupSteps, Local
<1>8. OthersKept(t) /\ LockKept(t)
  BY <1>3, <1>5 DEF TypeOK, OthersKept, LockKept, Construct
<1>9. TypeOK'
  BY <1>1, <1>2, <1>3, <1>7 DEF TypeOK, StackTyped, Construct
<1>10. Calling(t)' /\ Arrived(t)' /\ Locked(t)'
  <2>1. HasMagic(Top(t).code, Top(t).entry)'
    BY <1>1, <1>2, <1>3 DEF Arrived, HasMagic, NodeAbi
  <2>2. QED
    BY <1>1, <1>2, <1>3, <1>6, <1>7, <2>1 DEF Calling, Arrived, Locked, Construct
<1> QED
  BY <1>1, <1>2, <1>8, <1>9, <1>10, JumpStep

(* The node that is retargeted is a parent, and so has landed.             *)
LEMMA CompileJump ==
    ASSUME JumpInv, NEW t \in Threads, Compile(t)
    PROVE  JumpInv'
<1> DEFINE n == Top(t).entry
           p == tree[n].parent
           c == Recompiled(n, loc[t].leaf)
<1>1. /\ TypeOK /\ NodesSettled /\ pc[t] = "compile" /\ Arrived(t)
      /\ tree \in Seq(NodeType)
  BY DEF JumpInv, TypeOK, Compile
<1>2. n \in NodeIds /\ tree[n] \in NodeType
  BY <1>1, ArrivedEntry
<1>3. loc[t].leaf \in Funcs /\ loc[t].leaf # None
  <2>1. loc[t] \in Local /\ loc[t].leaf # None
    BY <1>1 DEF TypeOK, Arrived
  <2> QED
    BY <2>1 DEF Local
<1>4. p \in NodeIds /\ Settled(tree, p)
  BY <1>1, <1>2 DEF TypeOK, Arrived, NodesSettled
<1>5. c \in Code /\ CodeSane(c)
  <2>1. tree[n].location \in Sites /\ tree[n].target \in Funcs /\ SiteFn[tree[n].location] \in Funcs
    BY <1>2, ProgramAssumption DEF NodeType
  <2> QED
    BY <1>3, <2>1 DEF Recompiled, Jit, Bitcode, Code, CodeSane
<1>6. tree' = [tree EXCEPT ![p].resolved_target = c]
  BY DEF Compile
<1> HIDE DEF n, p, c
<1>7. tree[p] \in NodeType
  BY <1>1, <1>4 DEF NodeIds
<1>8. tree' \in Seq(NodeType) /\ NodeIds' = NodeIds
  <2>1. [tree[p] EXCEPT !.resolved_target = c] \in NodeType
    BY <1>5, <1>7 DEF NodeType
  <2>2. QED
    BY <1>1, <1>4, <1>6, <2>1 DEF NodeIds
<1>9. /\ \A m \in NodeIds : /\ tree'[m].location = tree[m].location
                            /\ tree'[m].parent = tree[m].parent
                            /\ tree'[m].target = tree[m].target
                            /\ tree'[m].landing = tree[m].landing
                            /\ m # p => tree'[m].resolved_target = tree[m].resolved_target
      /\ tree'[p].resolved_target = c
  BY <1>1, <1>4, <1>6, <1>7 DEF NodeIds, NodeType
<1>10. /\ \A m \in NodeIds : Exact(tree', m) <=> Exact(tree, m)
       /\ \A m \in {NoNode} \cup NodeIds : Settled(tree', m) <=> Settled(tree, m)
  BY <1>9 DEF Exact, Settled
<1>11. Grows
  BY <1>8, <1>9, <1>10 DEF Grows
<1>12. NodesSettled' /\ \A m \in NodeIds' : tree'[m].parent \in {NoNode} \cup NodeIds'
  <2>1. \A m \in NodeIds : tree[m].parent \in {NoNode} \cup NodeIds
    BY <1>1 DEF TypeOK
  <2>2. ASSUME NEW m \in NodeIds
        PROVE  /\ CodeSane(tree'[m].resolved_target)
               /\ Settled(tree', tree'[m].parent)
               /\ Exact(tree', m) =>
                      /\ tree'[m].landing \in {None, tree'[m].target}
                      /\ tree'[m].resolved_target # Aot(tree'[m].target)
                             => Settled(tree', m)
    <3>1. Settled(tree', tree'[m].parent)
      BY <1>1, <1>9, <1>10, <2>1 DEF NodesSettled
    <3>2. CASE m = p
      BY <1>1, <1>4, <1>5, <1>9, <1>10, <3>1, <3>2 DEF NodesSettled
    <3>3. CASE m # p
      BY <1>1, <1>9, <1>10, <3>1, <3>3 DEF NodesSettled
    <3> QED
      BY <3>2, <3>3
  <2>3. QED
    BY <1>8, <1>9, <2>1, <2>2 DEF NodesSettled, CodeSane, Aot, Bitcode, Jit
<1>13. StackTyped' /\ StackSettled(t)'
  BY <1>1, <1>11, SameStack DEF Compile
<1>14. /\ pc' = [pc EXCEPT ![t] = "run"]
       /\ loc' = [loc EXCEPT ![t] = NoLocal]
       /\ NoLocal \in Local
  BY DEF Compile, Goto, NoLocal, Local, NoNode
<1>15. /\ pc' \in [Threads -> Steps] /\ pc'[t] = "run"
       /\ loc' \in [Threads -> Local]
  BY <1>1, <1>14 DEF TypeOK, Steps
<1>16. OthersKept(t) /\ LockKept(t)
  BY <1>1, <1>14 DEF TypeOK, OthersKept, LockKept, Compile
<1>17. TypeOK'
  BY <1>1, <1>8, <1>12, <1>13, <1>15 DEF TypeOK, StackTyped, Compile
<1>18. Calling(t)' /\ Arrived(t)' /\ Locked(t)'
  BY <1>15 DEF Calling, Arrived, Locked
<1> QED
  BY <1>11, <1>12, <1>13, <1>16, <1>17, <1>18, JumpStep

-----------------------------------------------------------------------------
(* The invariant holds, and what follows from it.                          *)

LEMMA InitJump == Init => JumpInv /\ ~aborted
<1> SUFFICES ASSUME Init PROVE JumpInv /\ ~aborted
  OBVIOUS
<1>1. TypeOK /\ ThreadOK /\ ~aborted
  BY InitOK DEF IInv
<1>2. NodesSettled
  BY DEF Init, NodesSettled, NodeIds
<1>3. ASSUME NEW t \in Threads PROVE StackSettled(t) /\ Arrived(t)
  <2>1. \A i \in 1 .. Len(stack[t]) : stack[t][i] = Frame(Aot(Root), NoNode)
    BY DEF Init
  <2>2. StackSettled(t)
    BY <2>1 DEF StackSettled, EntrySettled, Settled, Frame, CodeSane, Aot, Bitcode, Jit
  <2>3. Arrived(t)
    BY DEF Init, Arrived
  <2> QED
    BY <2>2, <2>3
<1> QED
  BY <1>1, <1>2, <1>3 DEF JumpInv, ThreadOK

LEMMA StutterJump == JumpInv /\ UNCHANGED vars => JumpInv'
<1> SUFFICES ASSUME JumpInv, UNCHANGED vars PROVE JumpInv'
  OBVIOUS
<1> USE DEF vars
<1>1. TypeOK'
  BY DEF JumpInv, TypeOK, NodeIds
<1>2. Grows /\ NodesSettled' /\ NodeIds' = NodeIds
  BY SameTree
<1>3. ASSUME NEW t \in Threads
      PROVE  StackSettled(t)' /\ Calling(t)' /\ Arrived(t)' /\ Locked(t)'
  <2>1. StackSettled(t) /\ Calling(t) /\ Arrived(t) /\ Locked(t)
    BY DEF JumpInv
  <2>2. Top(t)' = Top(t)
    BY DEF Top
  <2>3. StackSettled(t)'
    BY <2>1 DEF StackSettled, EntrySettled
  <2>4. Calling(t)'
    BY <1>2, <2>1, <2>2 DEF Calling, NodesOf
  <2>5. Arrived(t)'
    BY <2>1, <2>2 DEF Arrived, HasMagic, NodeAbi
  <2>6. Locked(t)'
    BY <2>1 DEF Locked
  <2> QED
    BY <2>3, <2>4, <2>5, <2>6
<1> QED
  BY <1>1, <1>2, <1>3 DEF JumpInv

(* Every step: one case per action.                                        *)
LEMMA NextJump ==
    ASSUME JumpInv, Next PROVE JumpInv' /\ AssertOnlyAfterJump'
<1>1. PICK t \in Threads : ProgramStep(t) \/ RuntimeStep(t)
  BY DEF Next
<1>2. ~aborted
  BY DEF Next
<1>3. CASE ProgramStep(t)
  <2>1. JumpInv'
    BY <1>3, EvaluateJump, CallDecoratedJump, PlainCallJump, JumpJump, ReturnJump, ThrowJump
       DEF ProgramStep
  <2>2. ~aborted'
    BY <1>2, <1>3 DEF ProgramStep, Evaluate, CallDecorated, PlainCall, Jump, Return, Throw
  <2> QED
    BY <2>1, <2>2 DEF AssertOnlyAfterJump
<1>4. CASE Insert(t)
  BY <1>2, <1>4, InsertJump DEF AssertOnlyAfterJump
<1>5. CASE Landing(t)
  BY <1>5, LandingJump DEF AssertOnlyAfterJump
<1>6. CASE \/ LookupHit(t) \/ LookupMiss(t) \/ Back(t) \/ Dispatch(t) \/ Claim(t) \/ Lock(t)
           \/ Construct(t) \/ ConstructFails(t) \/ Compile(t) \/ CompileFails(t)
  <2>1. JumpInv'
    BY <1>6, LookupHitJump, LookupMissJump, BackJump, DispatchJump, ClaimJump, LockJump,
       ConstructJump, ConstructFailsJump, CompileJump, CompileFailsJump
  <2>2. ~aborted'
    BY <1>2, <1>6 DEF LookupHit, LookupMiss, Back, Dispatch, Claim, Lock, Construct,
                      ConstructFails, Compile, CompileFails
  <2> QED
    BY <2>1, <2>2 DEF AssertOnlyAfterJump
<1> QED
  BY <1>1, <1>3, <1>4, <1>5, <1>6 DEF RuntimeStep

(* The invariant of programs with any tail calls whatever: types, control, *)
(* and every node whose target recognises the call has landed where it     *)
(* should before anything hangs from it.                                   *)
THEOREM JumpInvariance == Spec => []JumpInv
<1>1. Init => JumpInv
  BY InitJump
<1>2. JumpInv /\ [Next]_vars => JumpInv'
  BY NextJump, StutterJump
<1> QED
  BY <1>1, <1>2, PTL DEF Spec

(* Every variable keeps its type, entries and parents are nodes of the     *)
(* tree.                                                                   *)
THEOREM TypeCorrect == Spec => []TypeOK
<1>1. JumpInv => TypeOK
  BY DEF JumpInv
<1> QED
  BY <1>1, JumpInvariance, PTL

(* The lock keeps the compilations of different threads apart.             *)
THEOREM CompilationsApart == Spec => []CompilationsExclude
<1>1. JumpInv => CompilationsExclude
  BY DEF JumpInv, Locked, CompilationsExclude
<1> QED
  BY <1>1, JumpInvariance, PTL

(* An assert that fails stops an activation that was entered in place of   *)
(* the function its caller called: nothing but a jump makes it fail.       *)
THEOREM JumpsAlone == Spec => []AssertOnlyAfterJump
<1>1. Init => AssertOnlyAfterJump
  BY InitJump DEF AssertOnlyAfterJump
<1>2. JumpInv /\ AssertOnlyAfterJump /\ [Next]_vars => AssertOnlyAfterJump'
  <2> SUFFICES ASSUME JumpInv, AssertOnlyAfterJump, [Next]_vars PROVE AssertOnlyAfterJump'
    OBVIOUS
  <2>1. CASE Next
    BY <2>1, NextJump
  <2>2. CASE UNCHANGED vars
    BY <2>2 DEF vars, AssertOnlyAfterJump, Top
  <2> QED
    BY <2>1, <2>2
<1> QED
  BY <1>1, <1>2, JumpInvariance, PTL DEF Spec

-----------------------------------------------------------------------------
(* The counts of a site and of its nodes.                                  *)

(* The threads between the two counts go through nodes of their own site.  *)
OwnSite(t) == pc[t] = "dispatch" => tree[loc[t].node].location = loc[t].site

Balance(s, q) ==
    Cardinality(Counted(s)) + Cardinality(Between(s))
        = total_calls[s] + q * CounterModulus

CountInv ==
    /\ \A t \in Threads : OwnSite(t)
    /\ \A s \in Sites : \E q \in Int : Balance(s, q)

LEMMA ModExact ==
    ASSUME NEW m \in Nat \ {0}, NEW q \in Int, NEW r \in 0 .. m - 1
    PROVE  (r + q * m) % m = r
  OBVIOUS

LEMMA Wrap ==
    ASSUME NEW m \in Nat \ {0}, NEW r \in 0 .. m - 1
    PROVE  \/ (r + 1) % m = r + 1
           \/ r = m - 1 /\ (r + 1) % m = 0
<1>1. CASE r + 1 < m
  <2>1. r + 1 \in 0 .. m - 1
    BY <1>1
  <2>2. (r + 1 + 0 * m) % m = r + 1
    BY <2>1, ModExact
  <2> QED BY <2>2
<1>2. CASE r + 1 = m
  <2>2. (0 + 1 * m) % m = 0
    BY ModExact
  <2> QED BY <1>2, <2>2
<1> QED BY <1>1, <1>2

LEMMA NextTurn ==
    ASSUME NEW m \in Nat, NEW q \in Int
    PROVE  (q + 1) * m = q * m + m /\ (q - 1) * m = q * m - m
  OBVIOUS

LEMMA OneMore ==
    ASSUME NEW m \in Nat, NEW q \in Int, NEW c \in Int, NEW b \in Int, NEW x \in Int,
           NEW y, c + b = x + q * m, y = x + 1 \/ (x = m - 1 /\ y = 0)
    PROVE  c + (b + 1) = y + q * m \/ c + (b + 1) = y + (q + 1) * m
BY NextTurn

LEMMA MovedOn ==
    ASSUME NEW m \in Nat, NEW q \in Int, NEW c \in Int, NEW b \in Int, NEW x \in Int,
           NEW y \in {c + 1, c + 1 - m}, c + b = x + q * m
    PROVE  y + (b - 1) = x + q * m \/ y + (b - 1) = x + (q - 1) * m
BY NextTurn

LEMMA CountsFinite ==
    ASSUME TypeOK, NEW s \in Sites
    PROVE  /\ IsFiniteSet(Counted(s)) /\ IsFiniteSet(Between(s))
           /\ Cardinality(Counted(s)) \in Nat /\ Cardinality(Between(s)) \in Nat
<1>1. Len(tree) \in Nat /\ CounterModulus \in Nat
  BY CallTreeAssumption DEF TypeOK
<1>2. IsFiniteSet(1 .. Len(tree)) /\ IsFiniteSet(1 .. CounterModulus)
  BY <1>1, FS_Interval
<1>3. IsFiniteSet(NodesOf(s))
  BY <1>2, FS_Subset DEF NodesOf, NodeIds
<1>4. IsFiniteSet(NodesOf(s) \X (1 .. CounterModulus))
  BY <1>2, <1>3, FS_Product
<1>5. Counted(s) \subseteq NodesOf(s) \X (1 .. CounterModulus)
  BY DEF Counted
<1>6. Between(s) \subseteq Threads
  BY DEF Between
<1> QED
  BY <1>4, <1>5, <1>6, FS_Subset, FS_CardinalityType, CallTreeAssumption

(* Another thread's calls are counted no further by a step of t.           *)
LEMMA SameBetween ==
    ASSUME NEW t \in Threads, OthersKept(t), NEW s,
           pc'[t] \in LookupSteps /\ loc'[t].site = s
               <=> pc[t] \in LookupSteps /\ loc[t].site = s
    PROVE  Between(s)' = Between(s)
<1>1. \A u \in Threads : pc'[u] \in LookupSteps /\ loc'[u].site = s
                            <=> pc[u] \in LookupSteps /\ loc[u].site = s
  BY DEF OthersKept
<1> QED
  BY <1>1 DEF Between

(* The nodes keep what they have counted, and a new one has counted none.  *)
CountsKept ==
    /\ NodeIds \subseteq NodeIds'
    /\ \A n \in NodeIds :
        /\ tree'[n].location = tree[n].location
        /\ tree'[n].chain_calls = tree[n].chain_calls
    /\ \A n \in NodeIds' \ NodeIds : tree'[n].chain_calls = 0

LEMMA SameCounted ==
    ASSUME CountsKept, NEW s \in Sites
    PROVE  Counted(s)' = Counted(s)
<1>1. ASSUME NEW c \in NodeIds \X (1 .. CounterModulus)
      PROVE  c \in Counted(s)' <=> c \in Counted(s)
  <2>1. c[1] \in NodeIds /\ c[1] \in NodeIds'
    BY DEF CountsKept
  <2> QED
    BY <2>1 DEF CountsKept, Counted, NodesOf
<1>2. Counted(s) \subseteq NodeIds \X (1 .. CounterModulus)
  BY DEF Counted, NodesOf
<1>3. ASSUME NEW c \in Counted(s)' PROVE c \in NodeIds \X (1 .. CounterModulus)
  <2>1. /\ c \in NodeIds' \X (1 .. CounterModulus)
        /\ c[2] <= tree'[c[1]].chain_calls
    BY <1>3 DEF Counted, NodesOf
  <2>2. c[2] \in Nat /\ c[2] > 0
    BY <2>1, CallTreeAssumption
  <2>3. tree'[c[1]].chain_calls # 0
    BY <2>1, <2>2
  <2> QED
    BY <2>1, <2>3 DEF CountsKept
<1> QED
  BY <1>1, <1>2, <1>3

(* A step that counts nothing keeps the balance.                           *)
LEMMA NothingCounted ==
    ASSUME TypeOK, CountInv, NEW t \in Threads, OthersKept(t), CountsKept,
           total_calls' = total_calls,
           \A s \in Sites : pc'[t] \in LookupSteps /\ loc'[t].site = s
                               <=> pc[t] \in LookupSteps /\ loc[t].site = s
    PROVE  \A s \in Sites : \E q \in Int : Balance(s, q)'
<1> SUFFICES ASSUME NEW s \in Sites PROVE \E q \in Int : Balance(s, q)'
  OBVIOUS
<1>1. Between(s)' = Between(s) /\ Counted(s)' = Counted(s)
  BY SameBetween, SameCounted
<1> QED
  BY <1>1 DEF CountInv, Balance

(* A call counted on its site is between the two counts from then on.      *)
LEMMA CallCounted ==
    ASSUME JumpInv, CountInv, NEW t \in Threads, CallDecorated(t)
    PROVE  \A s \in Sites : \E q \in Int : Balance(s, q)'
<1> DEFINE here == loc[t].site
<1>1. TypeOK /\ here \in Sites
  BY DEF JumpInv, Calling, CallDecorated
<1>2. OthersKept(t) /\ CountsKept /\ loc' = loc /\ pc'[t] = "lookup" /\ pc[t] = "call"
  BY <1>1 DEF CallDecorated, Goto, TypeOK, OthersKept, CountsKept, NodeIds
<1> SUFFICES ASSUME NEW s \in Sites PROVE \E q \in Int : Balance(s, q)'
  OBVIOUS
<1>3. PICK q \in Int : Balance(s, q)
  BY DEF CountInv
<1>4. Counted(s)' = Counted(s)
  BY <1>2, SameCounted
<1>5. CASE s # here
  <2>1. Between(s)' = Between(s)
    BY <1>2, <1>5, SameBetween
  <2>2. total_calls'[s] = total_calls[s]
    BY <1>1, <1>5 DEF CallDecorated, TypeOK
  <2> QED
    BY <1>3, <1>4, <2>1, <2>2 DEF Balance
<1>6. CASE s = here
  <2>1. Between(s)' = Between(s) \cup {t} /\ t \notin Between(s)
    BY <1>2, <1>6 DEF Between, OthersKept, LookupSteps
  <2>2. /\ Cardinality(Between(s)') = Cardinality(Between(s)) + 1
        /\ Cardinality(Counted(s)) \in Nat /\ Cardinality(Between(s)) \in Nat
    BY <1>1, <2>1, CountsFinite, FS_AddElement
  <2>3. /\ CounterModulus \in Nat \ {0}
        /\ total_calls[s] \in 0 .. CounterModulus - 1
        /\ total_calls'[s] = (total_calls[s] + 1) % CounterModulus
    BY <1>1, <1>6, CallTreeAssumption DEF CallDecorated, TypeOK, Count, Increment
  <2>4. \/ total_calls'[s] = total_calls[s] + 1
        \/ total_calls[s] = CounterModulus - 1 /\ total_calls'[s] = 0
    BY <2>3, Wrap
  <2>5. /\ Cardinality(Counted(s)) + Cardinality(Between(s))
             = total_calls[s] + q * CounterModulus
        /\ total_calls[s] \in Int
    BY <1>3, <2>3 DEF Balance
  <2>6. Balance(s, q)' \/ Balance(s, q + 1)'
    BY <1>4, <2>2, <2>3, <2>4, <2>5, OneMore DEF Balance
  <2> QED
    BY <2>6
<1> QED
  BY <1>5, <1>6

(* A node's count moves on: by one more, or back to none.                  *)
LEMMA NodeCounts ==
    ASSUME JumpInv, NEW t \in Threads, Dispatch(t), OwnSite(t),
           NEW s \in Sites, s = loc[t].site
    PROVE  /\ Cardinality(Counted(s)') \in {Cardinality(Counted(s)) + 1,
                                            Cardinality(Counted(s)) + 1 - CounterModulus}
           /\ \A r \in Sites \ {s} : Counted(r)' = Counted(r)
           /\ NodeIds' = NodeIds
           /\ \A m \in NodeIds : tree'[m].location = tree[m].location
<1>0. PICK n : n = loc[t].node
  OBVIOUS
<1> DEFINE k == tree[n].chain_calls
           M == CounterModulus
<1>1. /\ TypeOK /\ tree \in Seq(NodeType)
      /\ n \in NodeIds /\ tree[n].location = s /\ n \in NodesOf(s)
  BY <1>0 DEF JumpInv, Calling, Dispatch, TypeOK, OwnSite, NodesOf
<1>2. tree' = [tree EXCEPT ![n].chain_calls = Increment(@)]
  BY <1>0 DEF Dispatch
<1>3. \A m \in NodeIds : tree[m] \in NodeType /\ tree[m].chain_calls \in Count
  <2>1. \A m \in NodeIds : tree[m] \in NodeType
    BY <1>1 DEF NodeIds
  <2> QED
    BY <2>1 DEF NodeType
<1>4. M \in Nat \ {0} /\ k \in 0 .. M - 1
  BY <1>1, <1>3, CallTreeAssumption DEF Count
<1>5. /\ NodeIds' = NodeIds
      /\ \A m \in NodeIds : /\ tree'[m].location = tree[m].location
                            /\ m # n => tree'[m].chain_calls = tree[m].chain_calls
      /\ tree'[n].chain_calls = Increment(k)
  BY <1>1, <1>2, <1>3 DEF NodeIds, NodeType
<1> HIDE DEF k, M
<1>6. ASSUME NEW r PROVE NodesOf(r)' = NodesOf(r)
  <2>1. NodeIds' = NodeIds /\ \A m \in NodeIds : tree'[m].location = tree[m].location
    BY <1>5
  <2> QED
    BY <2>1 DEF NodesOf
<1>7. ASSUME NEW r \in Sites \ {s} PROVE Counted(r)' = Counted(r)
  <2>1. ASSUME NEW m \in NodesOf(r) PROVE tree'[m].chain_calls = tree[m].chain_calls
    <3>1. m \in NodeIds /\ m # n
      BY <1>1 DEF NodesOf
    <3> QED
      BY <1>5, <3>1
  <2> QED
    BY <1>6, <2>1 DEF Counted
<1>8. ASSUME NEW c
      PROVE  /\ c \in Counted(s) <=> /\ c \in NodesOf(s) \X (1 .. M)
                                     /\ c[2] <= tree[c[1]].chain_calls
             /\ c \in Counted(s)' <=> /\ c \in NodesOf(s) \X (1 .. M)
                                      /\ c[2] <= tree'[c[1]].chain_calls
  <2>1. NodesOf(s)' = NodesOf(s)
    BY <1>6
  <2> QED
    BY <2>1 DEF Counted, M
<1>9. ASSUME NEW c \in NodesOf(s) \X (1 .. M)
      PROVE  /\ c = <<c[1], c[2]>> /\ c[1] \in NodesOf(s) /\ c[2] \in 1 .. M
             /\ c[1] # n => tree'[c[1]].chain_calls = tree[c[1]].chain_calls
  <2>1. c = <<c[1], c[2]>> /\ c[1] \in NodesOf(s) /\ c[2] \in 1 .. M
    OBVIOUS
  <2>2. c[1] \in NodeIds
    BY <2>1 DEF NodesOf
  <2> QED
    BY <1>5, <2>1, <2>2
<1>10. IsFiniteSet(Counted(s)) /\ Cardinality(Counted(s)) \in Nat
  BY <1>1, CountsFinite
<1>11. CASE Increment(k) = k + 1
  <2>0. k + 1 \in 1 .. M /\ <<n, k + 1>> \in NodesOf(s) \X (1 .. M)
    BY <1>1, <1>4
  <2>1. <<n, k + 1>> \notin Counted(s)
    BY <1>4, <1>8 DEF k
  <2>2. ASSUME NEW c \in NodesOf(s) \X (1 .. M)
        PROVE  c \in Counted(s)' <=> c \in Counted(s) \/ c = <<n, k + 1>>
    <3>1. CASE c[1] # n
      BY <1>8, <1>9, <3>1
    <3>2. CASE c[1] = n
      <4>1. c[2] <= k + 1 <=> c[2] <= k \/ c[2] = k + 1
        BY <1>4, <1>9
      <4>2. c[2] = k + 1 <=> c = <<n, k + 1>>
        BY <1>9, <3>2
      <4> QED
        BY <1>5, <1>8, <1>11, <3>2, <4>1, <4>2 DEF k
    <3> QED
      BY <3>1, <3>2
  <2>3. Counted(s)' = Counted(s) \cup {<<n, k + 1>>}
    BY <1>8, <2>0, <2>2
  <2>4. Cardinality(Counted(s)') = Cardinality(Counted(s)) + 1
    BY <1>10, <2>1, <2>3, FS_AddElement
  <2> QED
    BY <1>5, <1>7, <2>4
<1>12. CASE k = M - 1 /\ Increment(k) = 0
  <2> DEFINE gone == {n} \X (1 .. M - 1)
  <2>1. Cardinality(gone) = M - 1
    <3>1. IsFiniteSet({n}) /\ Cardinality({n}) = 1
      BY FS_Singleton
    <3>2. IsFiniteSet(1 .. M - 1)
          /\ Cardinality(1 .. M - 1) = IF 1 > M - 1 THEN 0 ELSE (M - 1) - 1 + 1
      BY <1>4, FS_Interval
    <3>3. Cardinality(1 .. M - 1) = M - 1
      BY <1>4, <3>2
    <3>4. Cardinality(gone) = Cardinality({n}) * Cardinality(1 .. M - 1)
      BY <3>1, <3>2, FS_Product, Zenon
    <3>5. M - 1 \in Int
      BY <1>4
    <3> HIDE DEF gone
    <3> QED
      BY <3>1, <3>3, <3>4, <3>5
  <2>2. ASSUME NEW c \in NodesOf(s) \X (1 .. M)
        PROVE  /\ c \in Counted(s)' <=> c \in Counted(s) /\ c \notin gone
               /\ c \in gone => c \in Counted(s)
    <3>1. CASE c[1] # n
      BY <1>8, <1>9, <3>1
    <3>2. CASE c[1] = n
      <4>1. c \in gone <=> c[2] <= k
        BY <1>4, <1>9, <1>12, <3>2
      <4>2. ~(c[2] <= 0)
        BY <1>4, <1>9
      <4> QED
        BY <1>5, <1>8, <1>12, <3>2, <4>1, <4>2 DEF k
    <3> QED
      BY <3>1, <3>2
  <2>3. gone \subseteq NodesOf(s) \X (1 .. M)
    BY <1>1, <1>4
  <2>4. Counted(s)' = Counted(s) \ gone /\ Counted(s) \cap gone = gone
    <3> HIDE DEF gone
    <3> QED
      BY <1>8, <2>2, <2>3
  <2>5. Cardinality(Counted(s)') = Cardinality(Counted(s)) - Cardinality(gone)
    <3> HIDE DEF gone
    <3>1. Cardinality(Counted(s) \ gone)
              = Cardinality(Counted(s)) - Cardinality(Counted(s) \cap gone)
      BY <1>10, FS_Difference
    <3> QED
      BY <2>4, <3>1
  <2>6. Cardinality(Counted(s)') = Cardinality(Counted(s)) + 1 - M
    BY <1>4, <1>10, <2>1, <2>5
  <2> QED
    BY <1>5, <1>7, <2>6 DEF M
<1> QED
  BY <1>4, <1>11, <1>12, Wrap DEF Increment, M

(* A call counted on its node is no longer between the two counts.         *)
LEMMA DispatchCounted ==
    ASSUME JumpInv, CountInv, NEW t \in Threads, Dispatch(t)
    PROVE  \A s \in Sites : \E q \in Int : Balance(s, q)'
<1> DEFINE here == loc[t].site
<1>1. TypeOK /\ here \in Sites /\ pc[t] = "dispatch" /\ OwnSite(t)
  BY DEF JumpInv, Calling, Dispatch, CountInv
<1>2. OthersKept(t) /\ pc'[t] \notin LookupSteps /\ total_calls' = total_calls
  BY <1>1 DEF Dispatch, Goto, Push, FirstStep, LookupSteps, TypeOK, OthersKept
<1> SUFFICES ASSUME NEW s \in Sites PROVE \E q \in Int : Balance(s, q)'
  OBVIOUS
<1>3. PICK q \in Int : Balance(s, q)
  BY DEF CountInv
<1>4. CASE s # here
  <2>1. Between(s)' = Between(s)
    BY <1>2, <1>4, SameBetween
  <2>2. Counted(s)' = Counted(s)
    BY <1>1, <1>4, NodeCounts
  <2> QED
    BY <1>2, <1>3, <2>1, <2>2 DEF Balance
<1>5. CASE s = here
  <2>1. Between(s)' = Between(s) \ {t} /\ t \in Between(s)
    BY <1>1, <1>2, <1>5 DEF Between, OthersKept, LookupSteps
  <2>2. /\ Cardinality(Between(s)') = Cardinality(Between(s)) - 1
        /\ Cardinality(Counted(s)) \in Nat /\ Cardinality(Between(s)) \in Nat
    BY <1>1, <2>1, CountsFinite, FS_RemoveElement
  <2>3. CounterModulus \in Nat /\ total_calls[s] \in Int
    BY <1>1, CallTreeAssumption DEF TypeOK, Count
  <2>4. Cardinality(Counted(s)') \in {Cardinality(Counted(s)) + 1,
                                     Cardinality(Counted(s)) + 1 - CounterModulus}
    BY <1>1, <1>5, NodeCounts
  <2>5. Cardinality(Counted(s)) + Cardinality(Between(s))
            = total_calls[s] + q * CounterModulus
    BY <1>3 DEF Balance
  <2>6. Balance(s, q)' \/ Balance(s, q - 1)'
    BY <1>2, <2>2, <2>3, <2>4, <2>5, MovedOn DEF Balance
  <2> QED
    BY <2>6
<1> QED
  BY <1>4, <1>5

(* The nodes of a site stay its own, so a thread that has its node keeps   *)
(* one of the site it calls from.                                          *)
LEMMA OtherSites ==
    ASSUME JumpInv, CountInv, NEW t \in Threads, OthersKept(t),
           NodeIds \subseteq NodeIds',
           \A n \in NodeIds : tree'[n].location = tree[n].location,
           OwnSite(t)'
    PROVE  \A u \in Threads : OwnSite(u)'
<1> SUFFICES ASSUME NEW u \in Threads \ {t} PROVE OwnSite(u)'
  OBVIOUS
<1>1. OwnSite(u) /\ (pc[u] = "dispatch" => loc[u].node \in NodeIds)
  BY DEF CountInv, JumpInv, Calling
<1> QED
  BY <1>1 DEF OthersKept, OwnSite

(* A step that neither counts a call nor makes a node.                     *)
LEMMA QuietStep ==
    ASSUME JumpInv, CountInv, NEW t \in Threads, OthersKept(t), NodeIds' = NodeIds,
           \A n \in NodeIds : /\ tree'[n].location = tree[n].location
                             /\ tree'[n].chain_calls = tree[n].chain_calls,
           total_calls' = total_calls,
           pc[t] \in LookupSteps <=> pc'[t] \in LookupSteps,
           pc[t] \in LookupSteps => loc'[t].site = loc[t].site,
           OwnSite(t)'
    PROVE  CountInv'
<1>1. CountsKept /\ TypeOK
  BY DEF CountsKept, JumpInv
<1>2. \A s \in Sites : \E q \in Int : Balance(s, q)'
  BY <1>1, NothingCounted
<1>3. \A u \in Threads : OwnSite(u)'
  BY OtherSites
<1> QED
  BY <1>2, <1>3 DEF CountInv

LEMMA LookupsCounted ==
    ASSUME JumpInv, CountInv, NEW t \in Threads,
           LookupHit(t) \/ LookupMiss(t) \/ Back(t)
    PROVE  CountInv'
<1>1. TypeOK /\ OthersKept(t)
  BY DEF JumpInv, TypeOK, OthersKept, LookupHit, LookupMiss, Back, Goto
<1>2. tree' = tree /\ NodeIds' = NodeIds /\ total_calls' = total_calls
  BY DEF LookupHit, LookupMiss, Back, NodeIds
<1>3. pc[t] \in LookupSteps /\ pc'[t] \in LookupSteps /\ loc'[t].site = loc[t].site
  BY <1>1 DEF TypeOK, Local, LookupHit, LookupMiss, Back, Goto, LookupSteps
<1>4. OwnSite(t)'
  BY <1>1, <1>3 DEF TypeOK, Local, LookupHit, LookupMiss, Back, Goto, OwnSite, Matches, NodesOf
<1> QED
  BY <1>1, <1>2, <1>3, <1>4, QuietStep

(* A new node has counted no call.                                         *)
LEMMA InsertCounted ==
    ASSUME JumpInv, CountInv, NEW t \in Threads, Insert(t)
    PROVE  CountInv'
<1>1. TypeOK /\ OthersKept(t) /\ tree \in Seq(NodeType) /\ loc' = loc
      /\ pc[t] = "insert" /\ pc'[t] = "back" /\ total_calls' = total_calls
  BY DEF JumpInv, TypeOK, OthersKept, Insert, Goto
<1>2. CountsKept
  <2> DEFINE new == Node(loc[t].site, Caller(t), loc[t].target)
  <2>1. tree' = Append(tree, new) /\ new.chain_calls = 0
    BY DEF Insert, Node
  <2> HIDE DEF new
  <2> QED
    BY <1>1, <2>1 DEF CountsKept, NodeIds
<1>3. \A s \in Sites : \E q \in Int : Balance(s, q)'
  BY <1>1, <1>2, NothingCounted DEF LookupSteps
<1>4. \A u \in Threads : OwnSite(u)'
  BY <1>1, <1>2, OtherSites DEF OwnSite, CountsKept
<1> QED
  BY <1>3, <1>4 DEF CountInv

(* The landing and the retargeting of nodes leave their counts alone.      *)
LEMMA ClaimCounted ==
    ASSUME JumpInv, CountInv, NEW t \in Threads, Claim(t) \/ Compile(t)
    PROVE  CountInv'
<1>1. TypeOK /\ OthersKept(t) /\ tree \in Seq(NodeType) /\ total_calls' = total_calls
  BY DEF JumpInv, TypeOK, OthersKept, Claim, Compile, Goto
<1>2. \A n \in NodeIds : tree[n] \in NodeType
  BY <1>1 DEF NodeIds
<1>3. /\ NodeIds' = NodeIds
      /\ \A n \in NodeIds : /\ tree'[n].location = tree[n].location
                            /\ tree'[n].chain_calls = tree[n].chain_calls
  <2>1. PICK m, x, y : tree' \in {[tree EXCEPT ![m].landing = x],
                                  [tree EXCEPT ![m].resolved_target = y]}
    BY DEF Claim, Compile
  <2> QED
    BY <1>1, <1>2, <2>1 DEF NodeIds, NodeType
<1>4. pc[t] \notin LookupSteps /\ pc'[t] \in {"run", "lock"}
  BY <1>1 DEF TypeOK, Claim, Compile, Goto, LookupSteps
<1>5. OwnSite(t)'
  BY <1>4 DEF OwnSite
<1> QED
  BY <1>1, <1>3, <1>4, <1>5, QuietStep DEF LookupSteps

(* The program's own steps, and the rest of the runtime.                   *)
LEMMA RestCounted ==
    ASSUME JumpInv, CountInv, NEW t \in Threads,
           \/ ProgramStep(t) /\ ~CallDecorated(t)
           \/ Landing(t) \/ Lock(t) \/ Construct(t) \/ ConstructFails(t) \/ CompileFails(t)
    PROVE  CountInv'
<1>1. TypeOK
  BY DEF JumpInv
<1> DEFINE Quiet == /\ OthersKept(t) /\ tree' = tree /\ total_calls' = total_calls
                    /\ pc[t] \notin LookupSteps /\ pc'[t] \notin LookupSteps
<1>2. Quiet
  <2>1. ASSUME NEW s \in Sites, NEW g \in Funcs, Evaluate(t, s, g) PROVE Quiet
    BY <1>1, <2>1 DEF TypeOK, OthersKept, Evaluate, AtSite, Goto, LookupSteps
  <2>2. CASE PlainCall(t)
    BY <1>1, <2>2 DEF TypeOK, OthersKept, PlainCall, Goto, Push, FirstStep, LookupSteps
  <2>3. CASE Jump(t)
    BY <1>1, <2>3 DEF TypeOK, OthersKept, Jump, Goto, FirstStep, LookupSteps
  <2>4. CASE Return(t)
    BY <1>1, <2>4 DEF TypeOK, OthersKept, Return, LookupSteps
  <2>5. ASSUME NEW k, Throw(t, k) PROVE Quiet
    BY <1>1, <2>5 DEF TypeOK, OthersKept, Throw, LookupSteps
  <2>6. CASE \/ Landing(t) \/ Lock(t)
             \/ Construct(t) \/ ConstructFails(t) \/ CompileFails(t)
    BY <1>1, <2>6 DEF TypeOK, OthersKept, Landing, Lock, Construct, ConstructFails,
                      CompileFails, Goto, LookupSteps
  <2> QED
    BY <2>1, <2>2, <2>3, <2>4, <2>5, <2>6 DEF ProgramStep
<1>3. NodeIds' = NodeIds
  BY <1>2 DEF NodeIds
<1>4. OwnSite(t)'
  BY <1>2 DEF OwnSite, LookupSteps
<1> QED
  BY <1>1, <1>2, <1>3, <1>4, QuietStep

LEMMA NextCounted ==
    ASSUME JumpInv, CountInv, Next
    PROVE  CountInv'
<1>1. PICK t \in Threads : ProgramStep(t) \/ RuntimeStep(t)
  BY DEF Next
<1>2. CASE CallDecorated(t)
  <2>1. TypeOK
    BY DEF JumpInv
  <2>2. OthersKept(t) /\ tree' = tree /\ NodeIds' = NodeIds /\ pc'[t] = "lookup"
    BY <1>2, <2>1 DEF CallDecorated, Goto, TypeOK, OthersKept, NodeIds
  <2>3. \A u \in Threads : OwnSite(u)'
    BY <2>2, OtherSites DEF OwnSite
  <2> QED
    BY <1>2, <2>3, CallCounted DEF CountInv
<1>3. CASE Dispatch(t)
  <2>1. TypeOK /\ OwnSite(t) /\ loc[t].site \in Sites
    BY <1>3 DEF JumpInv, CountInv, Calling, Dispatch
  <2>2. OthersKept(t) /\ pc'[t] # "dispatch"
    BY <1>3, <2>1 DEF Dispatch, Goto, Push, FirstStep, TypeOK, OthersKept
  <2>3. NodeIds' = NodeIds /\ \A n \in NodeIds : tree'[n].location = tree[n].location
    BY <1>3, <2>1, NodeCounts
  <2>4. \A u \in Threads : OwnSite(u)'
    BY <2>2, <2>3, OtherSites DEF OwnSite
  <2> QED
    BY <1>3, <2>4, DispatchCounted DEF CountInv
<1> QED
  BY <1>1, <1>2, <1>3, LookupsCounted, InsertCounted, ClaimCounted, RestCounted
     DEF RuntimeStep

(* Any number of threads may count at once, on any number of nodes, and a  *)
(* counter may wrap around at any value: a site's count is that of its     *)
(* nodes and of the calls on their way to one.                             *)
THEOREM CallsCounted == Spec => []CallsConserved
<1>1. Init => CountInv
  <2> SUFFICES ASSUME Init PROVE CountInv
    OBVIOUS
  <2>1. \A t \in Threads : OwnSite(t)
    BY DEF Init, OwnSite
  <2>2. ASSUME NEW s \in Sites PROVE Balance(s, 0)
    <3>1. Counted(s) = {} /\ Between(s) = {}
      BY DEF Init, Counted, Between, NodesOf, NodeIds, LookupSteps
    <3> QED
      BY <3>1, FS_EmptySet, CallTreeAssumption DEF Init, Balance
  <2> QED
    BY <2>1, <2>2 DEF CountInv
<1>2. JumpInv /\ CountInv /\ [Next]_vars => CountInv'
  <2> SUFFICES ASSUME JumpInv, CountInv, UNCHANGED vars PROVE CountInv'
    BY NextCounted
  <2>1. \A s \in Sites : Counted(s)' = Counted(s) /\ Between(s)' = Between(s)
    BY DEF vars, Counted, Between, NodesOf, NodeIds
  <2> QED
    BY <2>1 DEF vars, CountInv, OwnSite, Balance
<1>3. JumpInv /\ CountInv => CallsConserved
  <2> SUFFICES ASSUME JumpInv, CountInv, NEW s \in Sites
               PROVE  total_calls[s] =
                          (Cardinality(Counted(s)) + Cardinality(Between(s))) % CounterModulus
    BY DEF CallsConserved
  <2>1. PICK q \in Int : Balance(s, q)
    BY DEF CountInv
  <2>2. CounterModulus \in Nat \ {0} /\ total_calls[s] \in 0 .. CounterModulus - 1
    BY CallTreeAssumption DEF JumpInv, TypeOK, Count
  <2>3. (total_calls[s] + q * CounterModulus) % CounterModulus = total_calls[s]
    BY <2>2, ModExact
  <2> QED
    BY <2>1, <2>3 DEF Balance
<1> QED
  BY <1>1, <1>2, <1>3, JumpInvariance, PTL DEF Spec

=============================================================================
