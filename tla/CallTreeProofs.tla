--------------------------- MODULE CallTreeProofs ---------------------------
(***************************************************************************)
(* What holds of CallTree for every program, every number of threads and   *)
(* every bound, provided no call in tail position can reach a decorated    *)
(* function.                                                               *)
(***************************************************************************)
EXTENDS CallTree, TLAPS

TailSafe == \A s \in TailSites : SiteTargets[s] \cap Targets = {}

-----------------------------------------------------------------------------
(* The inductive invariant, in named parts.                                *)

(* Made at run time or not, code takes its short cut only for the pointer  *)
(* to the function it inlined.                                             *)
CodeOK(c) == c.known = c.leaf

(* r14 and the return address tell a target function the truth: the node   *)
(* they lead to in the tree T is a call of that very function.             *)
FrameOK(T, c, e) ==
    /\ CodeOK(c)
    /\ c.fn \in Targets /\ e # NoNode => T[e].target = c.fn

FramesOK(t) ==
    \A i \in 1 .. Len(stack[t]) : FrameOK(tree, stack[t][i].code, stack[t][i].entry)

TreeOK ==
    \A n \in NodeIds :
        /\ tree[n].landing \in {None, tree[n].target}
        /\ tree[n].resolved_target.fn = tree[n].target
        /\ CodeOK(tree[n].resolved_target)
        /\ tree[n].parent # NoNode =>
               tree[tree[n].parent].target = SiteFn[tree[n].location]

StackOK == \A t \in Threads : FramesOK(t)

(* From the evaluation of a call to its end, inside _drti_call_from or     *)
(* not: the call is at a site of the function that runs.                   *)
Calling(t) ==
    pc[t] \in {"call", "lookup", "insert", "back", "dispatch"} =>
        /\ loc[t].site \in Sites
        /\ loc[t].target \in Funcs \cap SiteTargets[loc[t].site]
        /\ Top(t).code.fn = SiteFn[loc[t].site]
        /\ pc[t] = "back" => NodesOf(loc[t].site) # {}
        /\ pc[t] = "dispatch" => loc[t].node \in NodeIds

(* Inside _drti_landed and beyond: a decorated function has been entered   *)
(* with a node, and the node to be compiled has a parent and has landed.   *)
Landed(t) ==
    pc[t] \in {"landing", "claim", "lock", "construct", "compile"} =>
        /\ HasMagic(Top(t).code, Top(t).entry)
        /\ pc[t] \in {"lock", "construct", "compile"} =>
               /\ tree[Top(t).entry].parent # NoNode
               /\ tree[Top(t).entry].landing = Top(t).code.fn
        /\ pc[t] = "compile" => loc[t].leaf = Top(t).code.fn

Locked(t) == pc[t] \in {"construct", "compile"} => owner = t /\ held > 0

ThreadOK == \A t \in Threads : Calling(t) /\ Landed(t) /\ Locked(t)

IInv == TypeOK /\ TreeOK /\ StackOK /\ ThreadOK /\ ~aborted

-----------------------------------------------------------------------------
(* Sequences of activations.                                               *)

(* A call adds one activation and changes nothing of the others but the    *)
(* `last` mark of its caller.                                              *)
LEMMA PushedSeq ==
    ASSUME NEW s \in Seq(FrameType), s # <<>>, NEW b \in BOOLEAN,
           NEW f \in FrameType
    PROVE  LET r == Append([s EXCEPT ![Len(s)].last = b], f)
           IN /\ r \in Seq(FrameType)
              /\ Len(r) = Len(s) + 1
              /\ r[Len(r)] = f
              /\ \A i \in 1 .. Len(s) : r[i].code = s[i].code /\ r[i].entry = s[i].entry
<1> DEFINE m == [s EXCEPT ![Len(s)].last = b]
           r == Append(m, f)
<1>1. Len(s) \in 1 .. Len(s) /\ Len(s) \in Nat
  OBVIOUS
<1>2. \A i \in 1 .. Len(s) : s[i] \in FrameType
  OBVIOUS
<1>3. \A i \in 1 .. Len(s) : /\ m[i] \in FrameType
                            /\ m[i].code = s[i].code
                            /\ m[i].entry = s[i].entry
  BY <1>1, <1>2 DEF FrameType
<1>4. m \in Seq(FrameType) /\ Len(m) = Len(s)
  BY <1>1, <1>3
<1> HIDE DEF m
<1>5. /\ r \in Seq(FrameType)
      /\ Len(r) = Len(s) + 1
      /\ r[Len(r)] = f
      /\ \A i \in 1 .. Len(s) : r[i] = m[i]
  BY <1>4
<1>6. QED
  BY <1>3, <1>5 DEF m

(* A jump replaces the last activation.                                    *)
LEMMA ReplacedSeq ==
    ASSUME NEW s \in Seq(FrameType), s # <<>>, NEW f \in FrameType
    PROVE  LET r == [s EXCEPT ![Len(s)] = f]
           IN /\ r \in Seq(FrameType)
              /\ Len(r) = Len(s)
              /\ r[Len(r)] = f
              /\ \A i \in 1 .. Len(s) - 1 : r[i] = s[i]
  OBVIOUS

(* A return and an exception keep a prefix.                                *)
LEMMA PrefixSeq ==
    ASSUME NEW s \in Seq(FrameType), NEW k \in 1 .. Len(s)
    PROVE  LET r == SubSeq(s, 1, k)
           IN /\ r \in Seq(FrameType)
              /\ Len(r) = k
              /\ \A i \in 1 .. k : r[i] = s[i]
  OBVIOUS

-----------------------------------------------------------------------------
(* What every step keeps.                                                  *)

(* Nodes are never removed and their location, parent and target never     *)
(* change; a node that has landed stays landed in the same function.       *)
TreeKept ==
    /\ NodeIds \subseteq NodeIds'
    /\ \A n \in NodeIds :
        /\ tree'[n].location = tree[n].location
        /\ tree'[n].parent = tree[n].parent
        /\ tree'[n].target = tree[n].target
        /\ tree[n].landing # None => tree'[n].landing = tree[n].landing

(* A step of thread t leaves the other threads alone ...                   *)
OthersKept(t) ==
    \A u \in Threads \ {t} :
        stack'[u] = stack[u] /\ pc'[u] = pc[u] /\ loc'[u] = loc[u]

(* ... and takes the lock from nobody.                                     *)
LockKept(t) ==
    \A u \in Threads \ {t} : owner = u /\ held > 0 => owner' = u /\ held' > 0

(* What an activation says of its node stays true.                         *)
LEMMA FrameKept ==
    ASSUME TreeKept, NEW c \in Code, NEW e \in {NoNode} \cup NodeIds,
           FrameOK(tree, c, e)
    PROVE  e \in {NoNode} \cup NodeIds' /\ FrameOK(tree', c, e)
  BY DEF TreeKept, FrameOK

(* Every activation on a stack has the types TypeOK gives it.              *)
LEMMA FrameAt ==
    ASSUME TypeOK, NEW t \in Threads, NEW i \in 1 .. Len(stack[t])
    PROVE  /\ stack[t][i] \in FrameType
           /\ stack[t][i].code \in Code
           /\ stack[t][i].entry \in {NoNode} \cup NodeIds
<1>1. stack[t] \in Seq(FrameType)
  BY DEF TypeOK
<1>2. stack[t][i] \in FrameType
  BY <1>1
<1>3. stack[t][i].entry \in {NoNode} \cup NodeIds
  BY DEF TypeOK
<1>4. QED
  BY <1>2, <1>3 DEF FrameType

(* So has the current one; a stack is never empty.                         *)
LEMMA TopType ==
    ASSUME TypeOK, NEW t \in Threads
    PROVE  /\ stack[t] \in Seq(FrameType)
           /\ Len(stack[t]) \in Nat \ {0}
           /\ Top(t) \in FrameType
           /\ Top(t).code \in Code
           /\ Top(t).entry \in {NoNode} \cup NodeIds
<1>1. stack[t] \in Seq(FrameType) /\ stack[t] # <<>>
  BY DEF TypeOK
<1>2. Len(stack[t]) \in Nat \ {0} /\ Len(stack[t]) \in 1 .. Len(stack[t])
  BY <1>1
<1>3. Top(t) \in FrameType
  BY <1>1, <1>2 DEF Top
<1>4. Top(t).entry \in {NoNode} \cup NodeIds
  BY <1>2 DEF TypeOK, Top
<1>5. QED
  BY <1>1, <1>2, <1>3, <1>4 DEF FrameType

(* The parts of the invariant that belong to other threads survive.        *)
LEMMA OtherThreads ==
    ASSUME IInv, NEW t \in Threads, TreeKept, OthersKept(t), LockKept(t)
    PROVE  \A u \in Threads \ {t} :
               Calling(u)' /\ Landed(u)' /\ Locked(u)' /\ FramesOK(u)'
<1> SUFFICES ASSUME NEW u \in Threads \ {t}
             PROVE  Calling(u)' /\ Landed(u)' /\ Locked(u)' /\ FramesOK(u)'
  OBVIOUS
<1>1. /\ stack'[u] = stack[u] /\ pc'[u] = pc[u] /\ loc'[u] = loc[u]
      /\ Top(u)' = Top(u)
  BY DEF OthersKept, Top
<1>2. Calling(u) /\ Landed(u) /\ Locked(u)
  BY DEF IInv, ThreadOK
<1>3. TypeOK
  BY DEF IInv
<1>4. Calling(u)'
  BY <1>1, <1>2, <1>3 DEF Calling, TreeKept, NodesOf
<1>5. Landed(u)'
  <2> DEFINE c == Top(u).code
             e == Top(u).entry
  <2>1. c \in Code /\ c.fn \in Funcs /\ e \in {NoNode} \cup NodeIds
    BY <1>3, TopType DEF Code
  <2>2. (HasMagic(c, e))' = HasMagic(c, e)
    BY <1>1, <2>1 DEF TreeKept, HasMagic, NodeAbi, NoNode
  <2>3. HasMagic(c, e) => e \in NodeIds
    BY <2>1 DEF HasMagic
  <2>4. c.fn # None
    BY <2>1, CallTreeAssumption
  <2> HIDE DEF c, e
  <2>5. QED
    BY <1>1, <1>2, <2>2, <2>3, <2>4 DEF Landed, TreeKept, c, e
<1>6. Locked(u)'
  BY <1>1, <1>2 DEF Locked, LockKept
<1>7. FramesOK(u)'
  <2>1. ASSUME NEW i \in 1 .. Len(stack[u])
        PROVE  FrameOK(tree', stack[u][i].code, stack[u][i].entry)
    BY <1>3, FrameAt, FrameKept DEF IInv, StackOK, FramesOK
  <2>2. QED
    BY <1>1, <2>1 DEF FramesOK
<1>8. QED
  BY <1>4, <1>5, <1>6, <1>7

(* A step that leaves the tree alone keeps everything about it.            *)
LEMMA TreeUnchanged ==
    ASSUME IInv, tree' = tree
    PROVE  TreeKept /\ TreeOK' /\ NodeIds' = NodeIds
  BY DEF IInv, TreeOK, TreeKept, NodeIds

-----------------------------------------------------------------------------
(* What a step does to the stack of its thread.                            *)

StackTyped ==
    /\ stack \in [Threads -> Seq(FrameType)]
    /\ \A t \in Threads :
        /\ stack[t] # <<>>
        /\ \A i \in 1 .. Len(stack[t]) : stack[t][i].entry \in {NoNode} \cup NodeIds

(* The stack of t becomes new: what is left to check is new itself.        *)
LEMMA StackReplaced ==
    ASSUME IInv, NEW t \in Threads, TreeKept,
           NEW new \in Seq(FrameType), new # <<>>,
           stack' = [stack EXCEPT ![t] = new],
           \A i \in 1 .. Len(new) : /\ new[i].entry \in {NoNode} \cup NodeIds'
                                    /\ FrameOK(tree', new[i].code, new[i].entry)
    PROVE  /\ StackTyped' /\ FramesOK(t)' /\ Top(t)' = new[Len(new)]
           /\ \A u \in Threads \ {t} : stack'[u] = stack[u]
<1>1. TypeOK
  BY DEF IInv
<1>2. stack \in [Threads -> Seq(FrameType)]
  BY <1>1 DEF TypeOK
<1>3. /\ stack' \in [Threads -> Seq(FrameType)]
      /\ stack'[t] = new
      /\ \A u \in Threads \ {t} : stack'[u] = stack[u]
  BY <1>2
<1>4. \A u \in Threads \ {t} :
         /\ stack[u] # <<>>
         /\ \A i \in 1 .. Len(stack[u]) : stack[u][i].entry \in {NoNode} \cup NodeIds'
  BY <1>1 DEF TypeOK, TreeKept
<1>5. StackTyped'
  BY <1>3, <1>4 DEF StackTyped
<1>6. FramesOK(t)' /\ Top(t)' = new[Len(new)]
  BY <1>3 DEF FramesOK, Top
<1>7. QED
  BY <1>3, <1>5, <1>6

(* A step that leaves the stacks alone keeps what is known of them.        *)
LEMMA StackUnchanged ==
    ASSUME IInv, NEW t \in Threads, TreeKept, stack' = stack
    PROVE  StackTyped' /\ FramesOK(t)' /\ Top(t)' = Top(t)
<1>1. TypeOK /\ FramesOK(t)
  BY DEF IInv, StackOK
<1>2. StackTyped'
  BY <1>1 DEF TypeOK, StackTyped, TreeKept
<1>3. ASSUME NEW i \in 1 .. Len(stack[t])
      PROVE  FrameOK(tree', stack[t][i].code, stack[t][i].entry)
  BY <1>1, FrameAt, FrameKept DEF FramesOK
<1>4. QED
  BY <1>2, <1>3 DEF FramesOK, Top

(* A call of code c with entry e.                                          *)
LEMMA Pushed ==
    ASSUME IInv, NEW t \in Threads, TreeKept,
           NEW s \in Sites, NEW c \in Code, NEW e \in {NoNode} \cup NodeIds,
           FrameOK(tree, c, e), Push(t, s, c, e)
    PROVE  /\ StackTyped' /\ FramesOK(t)' /\ Top(t)' = Frame(c, e)
           /\ \A u \in Threads \ {t} : stack'[u] = stack[u]
<1> DEFINE old == stack[t]
           b == s \in TailSites
           new == Append([old EXCEPT ![Len(old)].last = b], Frame(c, e))
<1>1. TypeOK /\ FramesOK(t)
  BY DEF IInv, StackOK
<1>2. old \in Seq(FrameType) /\ old # <<>>
  BY <1>1 DEF TypeOK
<1>3. /\ Frame(c, e) \in FrameType
      /\ Frame(c, e).code = c /\ Frame(c, e).entry = e
  BY <1>1 DEF Frame, FrameType, NoNode, NodeIds
<1>4. b \in BOOLEAN
  OBVIOUS
<1>5. /\ new \in Seq(FrameType)
      /\ Len(new) = Len(old) + 1
      /\ new[Len(new)] = Frame(c, e)
      /\ \A i \in 1 .. Len(old) : new[i].code = old[i].code /\ new[i].entry = old[i].entry
  <2> HIDE DEF old, b
  <2>1. QED
    BY <1>2, <1>3, <1>4, PushedSeq
<1>6. stack' = [stack EXCEPT ![t] = new]
  BY DEF Push
<1>7. \A i \in 1 .. Len(old) : /\ old[i].entry \in {NoNode} \cup NodeIds'
                               /\ FrameOK(tree', old[i].code, old[i].entry)
  BY <1>1, FrameAt, FrameKept DEF FramesOK
<1>8. e \in {NoNode} \cup NodeIds' /\ FrameOK(tree', c, e)
  BY FrameKept
<1>9. Len(old) \in Nat
  BY <1>2
<1> HIDE DEF new, b, old
<1>10. \A i \in 1 .. Len(new) : /\ new[i].entry \in {NoNode} \cup NodeIds'
                                /\ FrameOK(tree', new[i].code, new[i].entry)
  <2> SUFFICES ASSUME NEW i \in 1 .. Len(new)
               PROVE  /\ new[i].entry \in {NoNode} \cup NodeIds'
                      /\ FrameOK(tree', new[i].code, new[i].entry)
    OBVIOUS
  <2>1. CASE i = Len(new)
    BY <2>1, <1>3, <1>5, <1>8
  <2>2. CASE i \in 1 .. Len(old)
    BY <2>2, <1>5, <1>7
  <2>3. QED
    BY <2>1, <2>2, <1>5, <1>9
<1>11. new # <<>>
  BY <1>5, <1>9
<1>12. QED
  BY <1>5, <1>6, <1>10, <1>11, StackReplaced

(* A jump to code c.                                                       *)
LEMMA Jumped ==
    ASSUME IInv, NEW t \in Threads, TreeKept,
           NEW c \in Code, FrameOK(tree, c, Top(t).entry),
           stack' = [stack EXCEPT ![t][Len(stack[t])] = Frame(c, Top(t).entry)]
    PROVE  /\ StackTyped' /\ FramesOK(t)' /\ Top(t)' = Frame(c, Top(t).entry)
           /\ \A u \in Threads \ {t} : stack'[u] = stack[u]
<1> DEFINE old == stack[t]
           e == Top(t).entry
           new == [old EXCEPT ![Len(old)] = Frame(c, e)]
<1>1. TypeOK /\ FramesOK(t) /\ e \in {NoNode} \cup NodeIds
  BY TopType DEF IInv, StackOK
<1>2. old \in Seq(FrameType) /\ old # <<>>
  BY <1>1 DEF TypeOK
<1>3. /\ Frame(c, e) \in FrameType
      /\ Frame(c, e).code = c /\ Frame(c, e).entry = e
  BY <1>1 DEF Frame, FrameType, NoNode, NodeIds
<1>4. /\ new \in Seq(FrameType)
      /\ Len(new) = Len(old)
      /\ new[Len(new)] = Frame(c, e)
      /\ \A i \in 1 .. Len(old) - 1 : new[i] = old[i]
  <2> HIDE DEF old, e
  <2>1. QED
    BY <1>2, <1>3, ReplacedSeq
<1>5. stack' = [stack EXCEPT ![t] = new]
  OBVIOUS
<1>6. \A i \in 1 .. Len(old) : /\ old[i].entry \in {NoNode} \cup NodeIds'
                               /\ FrameOK(tree', old[i].code, old[i].entry)
  BY <1>1, FrameAt, FrameKept DEF FramesOK
<1>7. e \in {NoNode} \cup NodeIds' /\ FrameOK(tree', c, e)
  BY <1>1, FrameKept
<1>8. Len(old) \in Nat
  BY <1>2
<1> HIDE DEF new, old, e
<1>9. \A i \in 1 .. Len(new) : /\ new[i].entry \in {NoNode} \cup NodeIds'
                               /\ FrameOK(tree', new[i].code, new[i].entry)
  BY <1>3, <1>4, <1>6, <1>7, <1>8
<1>10. new # <<>>
  BY <1>2, <1>4
<1>11. QED
  BY <1>4, <1>5, <1>9, <1>10, StackReplaced DEF e

(* A return, or an exception caught k activations from the bottom.         *)
LEMMA Unwound ==
    ASSUME IInv, NEW t \in Threads, TreeKept,
           NEW k \in 1 .. Len(stack[t]),
           stack' = [stack EXCEPT ![t] = SubSeq(@, 1, k)]
    PROVE  /\ StackTyped' /\ FramesOK(t)'
           /\ \A u \in Threads \ {t} : stack'[u] = stack[u]
<1> DEFINE old == stack[t]
           new == SubSeq(old, 1, k)
<1>1. TypeOK /\ FramesOK(t)
  BY DEF IInv, StackOK
<1>2. old \in Seq(FrameType)
  BY <1>1 DEF TypeOK
<1>3. /\ new \in Seq(FrameType)
      /\ Len(new) = k
      /\ \A i \in 1 .. k : new[i] = old[i]
  <2> HIDE DEF old
  <2>1. k \in 1 .. Len(old)
    BY DEF old
  <2>2. QED
    BY <1>2, <2>1, PrefixSeq
<1>4. \A i \in 1 .. Len(old) : /\ old[i].entry \in {NoNode} \cup NodeIds'
                               /\ FrameOK(tree', old[i].code, old[i].entry)
  BY <1>1, FrameAt, FrameKept DEF FramesOK
<1>5. Len(old) \in Nat
  BY <1>2
<1> HIDE DEF new
<1>6. \A i \in 1 .. Len(new) : /\ new[i].entry \in {NoNode} \cup NodeIds'
                               /\ FrameOK(tree', new[i].code, new[i].entry)
  BY <1>3, <1>4, <1>5
<1>7. new # <<>>
  BY <1>3
<1>8. stack' = [stack EXCEPT ![t] = new]
  BY DEF new
<1>9. QED
  BY <1>3, <1>6, <1>7, <1>8, StackReplaced

-----------------------------------------------------------------------------
(* A step of thread t preserves the invariant when the types, the tree and *)
(* t's own part of it are right afterwards.                                *)
LEMMA StepOK ==
    ASSUME IInv, NEW t \in Threads, TreeKept, OthersKept(t), LockKept(t),
           TypeOK', TreeOK', FramesOK(t)', Calling(t)', Landed(t)', Locked(t)',
           ~aborted'
    PROVE  IInv'
  BY OtherThreads DEF IInv, StackOK, ThreadOK

(* Types of what the action does not change.                               *)
LEMMA CodeTypes ==
    /\ \A f \in Funcs : /\ Aot(f) \in Code /\ CodeOK(Aot(f)) /\ Aot(f).fn = f
                        /\ Bitcode(f) \in Code /\ CodeOK(Bitcode(f)) /\ Bitcode(f).fn = f
    /\ \A f \in Funcs, s \in Sites, g \in Funcs :
           Jit(f, s, g, g) \in Code /\ CodeOK(Jit(f, s, g, g)) /\ Jit(f, s, g, g).fn = f
  BY DEF Aot, Bitcode, Jit, Code, CodeOK

(* An undecorated call of g enters a form of g.                            *)
LEMMA CalleesFaithful ==
    ASSUME NEW c \in Code, CodeOK(c), NEW s \in Sites, NEW g \in Funcs,
           NEW d \in Callees(c, s, g)
    PROVE  d \in Code /\ CodeOK(d) /\ d.fn = g
<1>1. d = Aot(g) \/ d = Bitcode(g)
  BY CallTreeAssumption DEF Callees, CodeOK, Code
<1>2. QED
  BY <1>1, CodeTypes

(* A counter stays within its width.                                       *)
LEMMA IncrementType == \A n \in Count : Increment(n) \in Count
  BY CallTreeAssumption DEF Count, Increment

-----------------------------------------------------------------------------
(* Each action preserves the invariant: the program's first.               *)

(* The program evaluates a call.                                           *)
LEMMA EvaluateOK ==
    ASSUME IInv, NEW t \in Threads, NEW s \in Sites, NEW g \in Funcs,
           Evaluate(t, s, g)
    PROVE  IInv'
<1>1. TreeKept /\ TreeOK' /\ NodeIds' = NodeIds
  BY TreeUnchanged DEF Evaluate
<1>2. StackTyped' /\ FramesOK(t)' /\ Top(t)' = Top(t)
  BY <1>1, StackUnchanged DEF Evaluate
<1>3. TypeOK
  BY DEF IInv
<1>4. /\ pc' = [pc EXCEPT ![t] = "call"]
      /\ loc' = [loc EXCEPT ![t] = [NoLocal EXCEPT !.site = s, !.target = g]]
      /\ [NoLocal EXCEPT !.site = s, !.target = g] \in Local
  BY DEF Evaluate, Goto, NoLocal, Local, NoNode
<1>5. /\ loc' \in [Threads -> Local] /\ loc'[t].site = s /\ loc'[t].target = g
      /\ pc' \in [Threads -> Steps] /\ pc'[t] = "call"
  BY <1>3, <1>4 DEF TypeOK, NoLocal, Steps
<1>6. OthersKept(t) /\ LockKept(t) /\ ~aborted'
  BY <1>3, <1>4 DEF TypeOK, OthersKept, LockKept, Evaluate, IInv
<1>7. TypeOK'
  BY <1>1, <1>2, <1>3, <1>5 DEF TypeOK, StackTyped, Evaluate
<1>8. Calling(t)' /\ Landed(t)' /\ Locked(t)'
  BY <1>2, <1>5 DEF Calling, Landed, Locked, Evaluate, AtSite
<1>9. QED
  BY <1>1, <1>2, <1>6, <1>7, <1>8, StepOK

(* A decorated call is counted on its site.                                *)
LEMMA CallDecoratedOK ==
    ASSUME IInv, NEW t \in Threads, CallDecorated(t)
    PROVE  IInv'
<1>1. TreeKept /\ TreeOK' /\ NodeIds' = NodeIds
  BY TreeUnchanged DEF CallDecorated
<1>2. StackTyped' /\ FramesOK(t)' /\ Top(t)' = Top(t)
  BY <1>1, StackUnchanged DEF CallDecorated
<1>3. TypeOK /\ Calling(t) /\ pc[t] = "call"
  BY DEF IInv, ThreadOK, CallDecorated
<1>4. pc' = [pc EXCEPT ![t] = "lookup"] /\ loc' = loc
  BY DEF CallDecorated, Goto
<1>5. pc' \in [Threads -> Steps] /\ pc'[t] = "lookup"
  BY <1>3, <1>4 DEF TypeOK, Steps, RuntimeSteps, LookupSteps
<1>6. OthersKept(t) /\ LockKept(t) /\ ~aborted'
  BY <1>3, <1>4 DEF TypeOK, OthersKept, LockKept, CallDecorated, IInv
<1>7. total_calls' \in [Sites -> Count]
  BY <1>3, IncrementType DEF TypeOK, CallDecorated
<1>8. TypeOK'
  BY <1>1, <1>2, <1>3, <1>5, <1>7 DEF TypeOK, StackTyped, CallDecorated
<1>9. Calling(t)' /\ Landed(t)' /\ Locked(t)'
  BY <1>2, <1>3, <1>4, <1>5 DEF Calling, Landed, Locked
<1>10. QED
  BY <1>1, <1>2, <1>6, <1>8, <1>9, StepOK

(* An undecorated call pushes a return address that leads to no node.      *)
LEMMA PlainCallOK ==
    ASSUME IInv, NEW t \in Threads, PlainCall(t)
    PROVE  IInv'
<1> DEFINE s == loc[t].site
           g == loc[t].target
<1>1. TreeKept /\ TreeOK' /\ NodeIds' = NodeIds
  BY TreeUnchanged DEF PlainCall
<1>2. TypeOK /\ Top(t).code \in Code /\ CodeOK(Top(t).code)
  BY TopType DEF IInv, StackOK, FramesOK, FrameOK, Top
<1>3. PICK c \in Callees(Top(t).code, s, g) :
          Push(t, s, c, NoNode) /\ Goto(t, FirstStep(c, NoNode))
  BY DEF PlainCall, PlainEntry
<1>4. s \in Sites /\ c \in Code /\ FrameOK(tree, c, NoNode)
  <2>1. s \in Sites /\ g \in Funcs
    BY DEF IInv, ThreadOK, Calling, PlainCall
  <2>2. QED
    BY <1>2, <2>1, CalleesFaithful DEF FrameOK
<1>5. /\ StackTyped' /\ FramesOK(t)'
      /\ \A u \in Threads \ {t} : stack'[u] = stack[u]
  BY <1>1, <1>3, <1>4, Pushed
<1>6. /\ pc' = [pc EXCEPT ![t] = "run"]
      /\ loc' = [loc EXCEPT ![t] = NoLocal]
      /\ NoLocal \in Local
  BY <1>3 DEF PlainCall, Goto, FirstStep, HasMagic, NoLocal, Local, NoNode
<1>7. OthersKept(t) /\ LockKept(t) /\ ~aborted'
  BY <1>2, <1>5, <1>6 DEF TypeOK, OthersKept, LockKept, PlainCall, IInv
<1>8. TypeOK' /\ pc'[t] = "run"
  BY <1>1, <1>2, <1>5, <1>6 DEF TypeOK, StackTyped, PlainCall, Steps, RuntimeSteps, LookupSteps
<1>9. Calling(t)' /\ Landed(t)' /\ Locked(t)'
  BY <1>8 DEF Calling, Landed, Locked
<1>10. QED
  BY <1>1, <1>5, <1>7, <1>8, <1>9, StepOK

(* The only action that needs TailSafe: what a jump enters is no target.   *)
LEMMA JumpOK ==
    ASSUME IInv, TailSafe, NEW t \in Threads, Jump(t)
    PROVE  IInv'
<1> DEFINE s == loc[t].site
           g == loc[t].target
<1>1. TreeKept /\ TreeOK' /\ NodeIds' = NodeIds
  BY TreeUnchanged DEF Jump
<1>2. TypeOK /\ Top(t).code \in Code /\ CodeOK(Top(t).code)
  BY TopType DEF IInv, StackOK, FramesOK, FrameOK, Top
<1>3. PICK c \in Callees(Top(t).code, s, g) :
          /\ stack' = [stack EXCEPT ![t][Len(stack[t])] = Frame(c, Top(t).entry)]
          /\ Goto(t, FirstStep(c, Top(t).entry))
  BY DEF Jump
<1>4. s \in Sites /\ g \in Funcs /\ g \notin Targets
  BY DEF IInv, ThreadOK, Calling, TailSafe, Jump
<1>5. c \in Code /\ c.fn \notin Targets /\ FrameOK(tree, c, Top(t).entry)
  BY <1>2, <1>4, CalleesFaithful DEF FrameOK
<1>6. /\ StackTyped' /\ FramesOK(t)'
      /\ \A u \in Threads \ {t} : stack'[u] = stack[u]
  BY <1>1, <1>3, <1>5, Jumped
<1>7. /\ pc' = [pc EXCEPT ![t] = "run"]
      /\ loc' = [loc EXCEPT ![t] = NoLocal]
      /\ NoLocal \in Local
  BY <1>3, <1>5 DEF Jump, Goto, FirstStep, HasMagic, NoLocal, Local, NoNode
<1>8. OthersKept(t) /\ LockKept(t) /\ ~aborted'
  BY <1>2, <1>6, <1>7 DEF TypeOK, OthersKept, LockKept, Jump, IInv
<1>9. TypeOK' /\ pc'[t] = "run"
  BY <1>1, <1>2, <1>6, <1>7 DEF TypeOK, StackTyped, Jump, Steps, RuntimeSteps, LookupSteps
<1>10. Calling(t)' /\ Landed(t)' /\ Locked(t)'
  BY <1>9 DEF Calling, Landed, Locked
<1>11. QED
  BY <1>1, <1>6, <1>8, <1>9, <1>10, StepOK

(* A return cuts one activation off.                                       *)
LEMMA ReturnOK ==
    ASSUME IInv, NEW t \in Threads, Return(t)
    PROVE  IInv'
<1>1. TreeKept /\ TreeOK' /\ NodeIds' = NodeIds
  BY TreeUnchanged DEF Return
<1>2. TypeOK /\ Len(stack[t]) \in Nat
  BY TopType DEF IInv
<1>3. /\ StackTyped' /\ FramesOK(t)'
      /\ \A u \in Threads \ {t} : stack'[u] = stack[u]
  <2>1. Len(stack[t]) - 1 \in 1 .. Len(stack[t])
    BY <1>2 DEF Return
  <2>2. stack' = [stack EXCEPT ![t] = SubSeq(@, 1, Len(stack[t]) - 1)]
    BY DEF Return
  <2>3. QED
    BY <1>1, <2>1, <2>2, Unwound
<1>4. OthersKept(t) /\ LockKept(t) /\ ~aborted'
  BY <1>3 DEF OthersKept, LockKept, Return, IInv
<1>5. TypeOK' /\ pc'[t] = "run"
  BY <1>1, <1>2, <1>3 DEF TypeOK, StackTyped, Return
<1>6. Calling(t)' /\ Landed(t)' /\ Locked(t)'
  BY <1>5 DEF Calling, Landed, Locked
<1>7. QED
  BY <1>1, <1>3, <1>4, <1>5, <1>6, StepOK

(* An exception cuts off any number of activations.                        *)
LEMMA ThrowOK ==
    ASSUME IInv, NEW t \in Threads, NEW k \in DOMAIN stack[t], Throw(t, k)
    PROVE  IInv'
<1>1. TreeKept /\ TreeOK' /\ NodeIds' = NodeIds
  BY TreeUnchanged DEF Throw
<1>2. TypeOK /\ k \in 1 .. Len(stack[t])
  BY TopType DEF IInv
<1>3. /\ StackTyped' /\ FramesOK(t)'
      /\ \A u \in Threads \ {t} : stack'[u] = stack[u]
  BY <1>1, <1>2, Unwound DEF Throw
<1>4. OthersKept(t) /\ LockKept(t) /\ ~aborted'
  BY <1>3 DEF OthersKept, LockKept, Throw, IInv
<1>5. TypeOK' /\ pc'[t] = "run"
  BY <1>1, <1>2, <1>3 DEF TypeOK, StackTyped, Throw
<1>6. Calling(t)' /\ Landed(t)' /\ Locked(t)'
  BY <1>5 DEF Calling, Landed, Locked
<1>7. QED
  BY <1>1, <1>3, <1>4, <1>5, <1>6, StepOK

-----------------------------------------------------------------------------
(* The steps of _drti_call_from.                                           *)

(* The lookup finds a node of the site.                                    *)
LEMMA LookupHitOK ==
    ASSUME IInv, NEW t \in Threads, LookupHit(t)
    PROVE  IInv'
<1>1. TreeKept /\ TreeOK' /\ NodeIds' = NodeIds
  BY TreeUnchanged DEF LookupHit
<1>2. StackTyped' /\ FramesOK(t)' /\ Top(t)' = Top(t)
  BY <1>1, StackUnchanged DEF LookupHit
<1>3. TypeOK /\ Calling(t)
  BY DEF IInv, ThreadOK
<1>4. PICK n \in NodeIds : loc' = [loc EXCEPT ![t].node = n]
  BY DEF LookupHit, Matches
<1>5. n \in Nat
  BY <1>3 DEF NodeIds
<1>6. pc' = [pc EXCEPT ![t] = "dispatch"] /\ pc[t] = "lookup"
  BY DEF LookupHit, Goto
<1>7. /\ loc' \in [Threads -> Local] /\ loc'[t] = [loc[t] EXCEPT !.node = n]
      /\ pc' \in [Threads -> Steps] /\ pc'[t] = "dispatch"
  BY <1>3, <1>4, <1>5, <1>6 DEF TypeOK, Local, Steps, RuntimeSteps, LookupSteps
<1>8. loc'[t].site = loc[t].site /\ loc'[t].target = loc[t].target /\ loc'[t].node = n
  BY <1>3, <1>7 DEF TypeOK, Local
<1>9. OthersKept(t) /\ LockKept(t) /\ ~aborted'
  BY <1>3, <1>4, <1>6 DEF TypeOK, OthersKept, LockKept, LookupHit, IInv
<1>10. TypeOK'
  BY <1>1, <1>2, <1>3, <1>7 DEF TypeOK, StackTyped, LookupHit
<1>11. Calling(t)' /\ Landed(t)' /\ Locked(t)'
  BY <1>1, <1>2, <1>3, <1>6, <1>7, <1>8 DEF Calling, Landed, Locked
<1>12. QED
  BY <1>1, <1>2, <1>9, <1>10, <1>11, StepOK

(* The lookup finds none.                                                  *)
LEMMA LookupMissOK ==
    ASSUME IInv, NEW t \in Threads, LookupMiss(t)
    PROVE  IInv'
<1>1. TreeKept /\ TreeOK' /\ NodeIds' = NodeIds
  BY TreeUnchanged DEF LookupMiss
<1>2. StackTyped' /\ FramesOK(t)' /\ Top(t)' = Top(t)
  BY <1>1, StackUnchanged DEF LookupMiss
<1>3. TypeOK /\ Calling(t)
  BY DEF IInv, ThreadOK
<1>4. pc' = [pc EXCEPT ![t] = "insert"] /\ pc[t] = "lookup"
  BY DEF LookupMiss, Goto
<1>5. pc' \in [Threads -> Steps] /\ pc'[t] = "insert"
  BY <1>3, <1>4 DEF TypeOK, Steps, RuntimeSteps, LookupSteps
<1>6. OthersKept(t) /\ LockKept(t) /\ ~aborted'
  BY <1>3, <1>4 DEF TypeOK, OthersKept, LockKept, LookupMiss, IInv
<1>7. TypeOK'
  BY <1>1, <1>2, <1>3, <1>5 DEF TypeOK, StackTyped, LookupMiss
<1>8. Calling(t)' /\ Landed(t)' /\ Locked(t)'
  BY <1>2, <1>3, <1>4, <1>5 DEF Calling, Landed, Locked, LookupMiss
<1>9. QED
  BY <1>1, <1>2, <1>6, <1>7, <1>8, StepOK

(* A node that is made by a decorated function entered with a node is a    *)
(* child of that node, which stands for a call of this very function.      *)
LEMMA CallerDirect ==
    ASSUME IInv, NEW t \in Threads, Caller(t) # NoNode
    PROVE  /\ Caller(t) \in NodeIds
           /\ tree[Caller(t)].target = Top(t).code.fn
           /\ NodeAbi(Caller(t)) = AbiVersion[Top(t).code.fn]
<1>1. TypeOK /\ FramesOK(t) /\ Top(t).entry \in {NoNode} \cup NodeIds
  BY TopType DEF IInv, StackOK
<1>2. FrameOK(tree, Top(t).code, Top(t).entry)
  BY <1>1, TopType DEF FramesOK, Top
<1>3. QED
  BY <1>1, <1>2 DEF Caller, HasMagic, FrameOK

(* A new node is right: unlanded, not retargeted, with a direct parent.    *)
LEMMA InsertOK ==
    ASSUME IInv, NEW t \in Threads, Insert(t)
    PROVE  IInv'
<1> DEFINE s == loc[t].site
           g == loc[t].target
           new == Node(s, Caller(t), g)
<1>1. TypeOK /\ TreeOK /\ Calling(t) /\ tree \in Seq(NodeType)
  BY DEF IInv, ThreadOK, TypeOK
<1>2. /\ pc[t] = "insert" /\ s \in Sites /\ g \in Funcs \cap SiteTargets[s]
      /\ Top(t).code.fn = SiteFn[s]
  BY <1>1 DEF Insert, Calling
<1>3. Caller(t) \in {NoNode} \cup NodeIds
  BY CallerDirect
<1>4. new \in NodeType /\ new.location = s /\ new.parent = Caller(t)
  BY <1>2, <1>3, CodeTypes, CallTreeAssumption
     DEF Node, NodeType, NoNode, NodeIds, Count
<1>5. /\ tree' \in Seq(NodeType)
      /\ Len(tree') = Len(tree) + 1 /\ Len(tree) \in Nat
      /\ tree'[Len(tree) + 1] = new
      /\ \A n \in NodeIds : tree'[n] = tree[n]
  <2>1. tree' = Append(tree, new)
    BY DEF Insert
  <2> HIDE DEF new
  <2>2. QED
    BY <1>1, <1>4, <2>1 DEF NodeIds
<1>6. NodeIds' = NodeIds \cup {Len(tree) + 1} /\ TreeKept
  BY <1>5 DEF NodeIds, TreeKept
<1>7. TreeOK'
  <2>1. /\ new.landing = None
        /\ new.target = g
        /\ new.resolved_target.fn = new.target
        /\ CodeOK(new.resolved_target)
    BY <1>2, CodeTypes DEF Node
  <2>2. Caller(t) # NoNode => tree'[Caller(t)].target = SiteFn[s]
    BY <1>2, <1>5, CallerDirect
  <2>3. ASSUME NEW n \in NodeIds, tree[n].parent # NoNode
        PROVE  tree[n].parent \in NodeIds
    BY <1>1, <2>3 DEF TypeOK
  <2> HIDE DEF new, s
  <2>4. QED
    BY <1>1, <1>4, <1>5, <1>6, <2>1, <2>2, <2>3 DEF TreeOK
<1>8. StackTyped' /\ FramesOK(t)' /\ Top(t)' = Top(t)
  BY <1>6, StackUnchanged DEF Insert
<1>9. pc' = [pc EXCEPT ![t] = "back"]
  BY DEF Insert, Goto
<1>10. pc' \in [Threads -> Steps] /\ pc'[t] = "back"
  BY <1>1, <1>9 DEF TypeOK, Steps, RuntimeSteps, LookupSteps
<1>11. ~aborted'
  BY <1>2, CallerDirect DEF Insert
<1>12. OthersKept(t) /\ LockKept(t)
  BY <1>1, <1>9 DEF TypeOK, OthersKept, LockKept, Insert
<1>13. TypeOK'
  <2>1. \A n \in NodeIds' : tree'[n].parent \in {NoNode} \cup NodeIds'
    <3> HIDE DEF new
    <3>1. QED
      BY <1>1, <1>3, <1>4, <1>5, <1>6 DEF TypeOK
  <2>2. QED
    BY <1>1, <1>5, <1>8, <1>10, <1>11, <2>1 DEF TypeOK, StackTyped, Insert
<1>14. Calling(t)' /\ Landed(t)' /\ Locked(t)'
  <2>1. Len(tree) + 1 \in NodesOf(s)'
    <3> HIDE DEF new
    <3>1. loc' = loc
      BY DEF Insert
    <3>2. QED
      BY <1>4, <1>5, <1>6, <3>1 DEF NodesOf
  <2>2. QED
    BY <1>2, <1>8, <1>10, <2>1 DEF Calling, Landed, Locked, Insert
<1>15. QED
  BY <1>6, <1>7, <1>8, <1>11, <1>12, <1>13, <1>14, StepOK

(* The node read back is some node of the site, if not the right one.      *)
LEMMA BackOK ==
    ASSUME IInv, NEW t \in Threads, Back(t)
    PROVE  IInv'
<1>1. TreeKept /\ TreeOK' /\ NodeIds' = NodeIds
  BY TreeUnchanged DEF Back
<1>2. StackTyped' /\ FramesOK(t)' /\ Top(t)' = Top(t)
  BY <1>1, StackUnchanged DEF Back
<1>3. TypeOK /\ Calling(t)
  BY DEF IInv, ThreadOK
<1>4. PICK n \in NodeIds : loc' = [loc EXCEPT ![t].node = n]
  BY DEF Back, NodesOf
<1>5. n \in Nat
  BY <1>3 DEF NodeIds
<1>6. pc' = [pc EXCEPT ![t] = "dispatch"] /\ pc[t] = "back"
  BY DEF Back, Goto
<1>7. /\ loc' \in [Threads -> Local] /\ loc'[t] = [loc[t] EXCEPT !.node = n]
      /\ pc' \in [Threads -> Steps] /\ pc'[t] = "dispatch"
  BY <1>3, <1>4, <1>5, <1>6 DEF TypeOK, Local, Steps, RuntimeSteps, LookupSteps
<1>8. loc'[t].site = loc[t].site /\ loc'[t].target = loc[t].target /\ loc'[t].node = n
  BY <1>3, <1>7 DEF TypeOK, Local
<1>9. OthersKept(t) /\ LockKept(t) /\ ~aborted'
  BY <1>3, <1>4, <1>6 DEF TypeOK, OthersKept, LockKept, Back, IInv
<1>10. TypeOK'
  BY <1>1, <1>2, <1>3, <1>7 DEF TypeOK, StackTyped, Back
<1>11. Calling(t)' /\ Landed(t)' /\ Locked(t)'
  BY <1>1, <1>2, <1>3, <1>6, <1>7, <1>8 DEF Calling, Landed, Locked
<1>12. QED
  BY <1>1, <1>2, <1>9, <1>10, <1>11, StepOK

(* Counting the call changes nothing a node stands for, and the code that  *)
(* is entered is a form of the node's target.                              *)
LEMMA DispatchOK ==
    ASSUME IInv, NEW t \in Threads, Dispatch(t)
    PROVE  IInv'
<1> DEFINE n == loc[t].node
           s == loc[t].site
           c == tree[n].resolved_target
<1>1. TypeOK /\ TreeOK /\ Calling(t) /\ tree \in Seq(NodeType)
  BY DEF IInv, ThreadOK, TypeOK
<1>2. pc[t] = "dispatch" /\ s \in Sites /\ n \in NodeIds
  BY <1>1 DEF Dispatch, Calling
<1>3. tree' = [tree EXCEPT ![n].chain_calls = Increment(@)]
  BY DEF Dispatch
<1>4. tree[n] \in NodeType /\ Increment(tree[n].chain_calls) \in Count
  <2>1. tree[n] \in NodeType
    BY <1>1, <1>2 DEF NodeIds
  <2> HIDE DEF n
  <2>2. tree[n].chain_calls \in Count
    BY <2>1 DEF NodeType
  <2>3. QED
    BY <2>1, <2>2, IncrementType
<1>5. tree' \in Seq(NodeType) /\ NodeIds' = NodeIds
  <2> HIDE DEF n
  <2>1. [tree[n] EXCEPT !.chain_calls = Increment(@)] \in NodeType
    BY <1>4 DEF NodeType
  <2>2. QED
    BY <1>1, <1>2, <1>3, <2>1 DEF NodeIds
<1>6. \A m \in NodeIds : /\ tree'[m].location = tree[m].location
                         /\ tree'[m].parent = tree[m].parent
                         /\ tree'[m].target = tree[m].target
                         /\ tree'[m].resolved_target = tree[m].resolved_target
                         /\ tree'[m].landing = tree[m].landing
  BY <1>1, <1>3, <1>4 DEF NodeIds, NodeType
<1>7. TreeKept
  BY <1>5, <1>6 DEF TreeKept
<1>8. TreeOK' /\ \A m \in NodeIds' : tree'[m].parent \in {NoNode} \cup NodeIds'
  <2>1. \A m \in NodeIds : tree[m].parent \in {NoNode} \cup NodeIds
    BY <1>1 DEF TypeOK
  <2>2. QED
    BY <1>1, <1>5, <1>6, <2>1 DEF TreeOK
<1>9. c \in Code /\ FrameOK(tree, c, n)
  BY <1>1, <1>2, <1>4 DEF TreeOK, FrameOK, NodeType
<1>10. Push(t, s, c, n)
  BY DEF Dispatch
<1>11. /\ StackTyped' /\ FramesOK(t)' /\ Top(t)' = Frame(c, n)
       /\ \A u \in Threads \ {t} : stack'[u] = stack[u]
  BY <1>2, <1>7, <1>9, <1>10, Pushed
<1>12. /\ pc' = [pc EXCEPT ![t] = FirstStep(c, n)]
       /\ loc' = [loc EXCEPT ![t] = NoLocal]
       /\ FirstStep(c, n) \in {"run", "landing"}
       /\ NoLocal \in Local
  BY DEF Dispatch, Goto, FirstStep, NoLocal, Local, NoNode
<1>13. /\ pc' \in [Threads -> Steps] /\ pc'[t] = FirstStep(c, n)
       /\ loc' \in [Threads -> Local]
  BY <1>1, <1>12 DEF TypeOK, Steps, RuntimeSteps, LookupSteps
<1>14. OthersKept(t) /\ LockKept(t) /\ ~aborted'
  BY <1>1, <1>11, <1>12 DEF TypeOK, OthersKept, LockKept, Dispatch, IInv
<1>15. TypeOK'
  BY <1>1, <1>5, <1>8, <1>11, <1>13 DEF TypeOK, StackTyped, Dispatch
<1>16. pc'[t] = "landing" => HasMagic(Top(t).code, Top(t).entry)'
  <2>1. Top(t)'.code = c /\ Top(t)'.entry = n
    BY <1>11 DEF Frame
  <2>2. pc'[t] = "landing" => HasMagic(c, n)
    BY <1>13 DEF FirstStep
  <2> HIDE DEF c, n
  <2>3. QED
    BY <1>2, <1>6, <2>1, <2>2 DEF HasMagic, NodeAbi
<1>17. Calling(t)' /\ Landed(t)' /\ Locked(t)'
  BY <1>12, <1>13, <1>16 DEF Calling, Landed, Locked
<1>18. QED
  BY <1>7, <1>8, <1>11, <1>14, <1>15, <1>17, StepOK

-----------------------------------------------------------------------------
(* The steps of _drti_landed, inspect_treenode and the compiler.           *)

(* Past the check of the magic, the current code is a target function, its *)
(* entry is a node, and the node is a call of that function.               *)
LEMMA LandedEntry ==
    ASSUME IInv, NEW t \in Threads,
           pc[t] \in {"landing", "claim", "lock", "construct", "compile"}
    PROVE  /\ Top(t).entry \in NodeIds
           /\ Top(t).code.fn \in Targets
           /\ tree[Top(t).entry].target = Top(t).code.fn
           /\ tree[Top(t).entry] \in NodeType
           /\ tree[Top(t).entry].landing \in {None, Top(t).code.fn}
           /\ NodeAbi(Top(t).entry) = AbiVersion[Top(t).code.fn]
<1>1. TypeOK /\ FramesOK(t) /\ Top(t).entry \in {NoNode} \cup NodeIds /\ TreeOK
  BY TopType DEF IInv, StackOK
<1>2. FrameOK(tree, Top(t).code, Top(t).entry)
  BY <1>1, TopType DEF FramesOK, Top
<1>3. HasMagic(Top(t).code, Top(t).entry)
  BY DEF IInv, ThreadOK, Landed
<1>4. Top(t).entry \in NodeIds /\ Top(t).code.fn \in Targets
  BY <1>1, <1>3 DEF HasMagic
<1>5. tree[Top(t).entry] \in NodeType
  BY <1>1, <1>4 DEF TypeOK, NodeIds
<1>6. QED
  BY <1>1, <1>2, <1>3, <1>4, <1>5 DEF HasMagic, FrameOK, TreeOK

(* Neither assert of _drti_landed fails: the node landed here before, or   *)
(* comes from a module of the same version.                                *)
LEMMA LandingOK ==
    ASSUME IInv, NEW t \in Threads, Landing(t)
    PROVE  IInv'
<1>1. TreeKept /\ TreeOK' /\ NodeIds' = NodeIds /\ tree' = tree
  BY TreeUnchanged DEF Landing
<1>2. StackTyped' /\ FramesOK(t)' /\ Top(t)' = Top(t)
  BY <1>1, StackUnchanged DEF Landing
<1>3. TypeOK /\ pc[t] = "landing" /\ Landed(t)
  BY DEF IInv, Landing, ThreadOK
<1>4. /\ Top(t).code.fn \in Targets
      /\ tree[Top(t).entry].landing \in {None, Top(t).code.fn}
      /\ NodeAbi(Top(t).entry) = AbiVersion[Top(t).code.fn]
  BY <1>3, LandedEntry
<1>5. ~aborted' /\ \E step \in {"run", "claim"} : pc' = [pc EXCEPT ![t] = step]
  BY <1>4 DEF Landing, HasLanded, Goto
<1>6. pc' \in [Threads -> Steps] /\ pc'[t] \in {"run", "claim"}
  BY <1>3, <1>5 DEF TypeOK, Steps, RuntimeSteps, LookupSteps
<1>7. OthersKept(t) /\ LockKept(t)
  BY <1>3, <1>5 DEF TypeOK, OthersKept, LockKept, Landing
<1>8. total_called' \in [Targets -> Count]
  BY <1>3, IncrementType DEF TypeOK, Landing
<1>9. TypeOK'
  BY <1>1, <1>2, <1>3, <1>5, <1>6, <1>8 DEF TypeOK, StackTyped, Landing
<1>10. Calling(t)' /\ Landed(t)' /\ Locked(t)'
  <2>1. HasMagic(Top(t).code, Top(t).entry)'
    BY <1>1, <1>2, <1>3 DEF Landed, HasMagic, NodeAbi
  <2>2. QED
    BY <1>6, <2>1 DEF Calling, Landed, Locked
<1>11. QED
  BY <1>1, <1>2, <1>5, <1>7, <1>9, <1>10, StepOK

(* The landing is set to the function the node is a call of.               *)
LEMMA ClaimOK ==
    ASSUME IInv, NEW t \in Threads, Claim(t)
    PROVE  IInv'
<1> DEFINE n == Top(t).entry
           f == Top(t).code.fn
<1>1. TypeOK /\ TreeOK /\ pc[t] = "claim" /\ Landed(t) /\ tree \in Seq(NodeType)
  BY DEF IInv, ThreadOK, TypeOK, Claim
<1>2. /\ n \in NodeIds /\ f \in Targets /\ tree[n] \in NodeType
      /\ tree[n].target = f /\ tree[n].landing \in {None, f}
  BY <1>1, LandedEntry
<1>3. tree' = [tree EXCEPT ![n].landing = f]
  BY DEF Claim
<1>4. tree' \in Seq(NodeType) /\ NodeIds' = NodeIds
  <2>1. [tree[n] EXCEPT !.landing = f] \in NodeType
    BY <1>2, CallTreeAssumption DEF NodeType
  <2> HIDE DEF n, f
  <2>2. QED
    BY <1>1, <1>2, <1>3, <2>1 DEF NodeIds
<1>5. /\ \A m \in NodeIds : /\ tree'[m].location = tree[m].location
                            /\ tree'[m].parent = tree[m].parent
                            /\ tree'[m].target = tree[m].target
                            /\ tree'[m].resolved_target = tree[m].resolved_target
                            /\ m # n => tree'[m].landing = tree[m].landing
      /\ tree'[n].landing = f
  <2> HIDE DEF n, f
  <2>1. QED
    BY <1>1, <1>2, <1>3 DEF NodeIds, NodeType
<1>6. TreeKept
  <2> HIDE DEF n, f
  <2>1. QED
    BY <1>2, <1>4, <1>5 DEF TreeKept
<1>7. TreeOK' /\ \A m \in NodeIds' : tree'[m].parent \in {NoNode} \cup NodeIds'
  <2>1. \A m \in NodeIds : tree[m].parent \in {NoNode} \cup NodeIds
    BY <1>1 DEF TypeOK
  <2> HIDE DEF n, f
  <2>2. QED
    BY <1>1, <1>2, <1>4, <1>5, <2>1 DEF TreeOK
<1>8. StackTyped' /\ FramesOK(t)' /\ Top(t)' = Top(t)
  BY <1>6, StackUnchanged DEF Claim
<1>9. PICK step \in {"run", "lock"} : pc' = [pc EXCEPT ![t] = step]
  BY DEF Claim, Goto
<1>10. /\ pc' \in [Threads -> Steps] /\ pc'[t] \in {"run", "lock"}
       /\ \A u \in Threads \ {t} : pc'[u] = pc[u]
  BY <1>1, <1>9 DEF TypeOK, Steps, RuntimeSteps, LookupSteps
<1>11. /\ OthersKept(t) /\ LockKept(t) /\ ~aborted'
       /\ pc'[t] = "lock" => tree[n].parent # NoNode
  <2>1. OthersKept(t) /\ LockKept(t) /\ ~aborted'
    BY <1>10 DEF OthersKept, LockKept, Claim, IInv
  <2>2. ASSUME tree[n].parent = NoNode
        PROVE  pc'[t] = "run"
    <3>1. ~Inspected(n)
      BY <2>2 DEF Inspected
    <3>2. pc' = [pc EXCEPT ![t] = "run"]
      BY <3>1 DEF Claim, Goto
    <3>3. QED
      BY <1>1, <3>2 DEF TypeOK
  <2>3. QED
    BY <2>1, <2>2
<1>12. TypeOK'
  BY <1>1, <1>4, <1>7, <1>8, <1>10 DEF TypeOK, StackTyped, Claim
<1>13. Calling(t)' /\ Landed(t)' /\ Locked(t)'
  <2>1. HasMagic(Top(t).code, Top(t).entry)'
    BY <1>1, <1>2, <1>5, <1>8 DEF Landed, HasMagic, NodeAbi
  <2>2. tree'[n].parent = tree[n].parent
    BY <1>2, <1>5
  <2>3. QED
    BY <1>5, <1>8, <1>10, <1>11, <2>1, <2>2 DEF Calling, Landed, Locked
<1>14. QED
  BY <1>6, <1>7, <1>8, <1>11, <1>12, <1>13, StepOK

(* The lock is taken by a thread only when no other one holds it.          *)
LEMMA LockOK ==
    ASSUME IInv, NEW t \in Threads, Lock(t)
    PROVE  IInv'
<1>1. TreeKept /\ TreeOK' /\ NodeIds' = NodeIds /\ tree' = tree
  BY TreeUnchanged DEF Lock
<1>2. StackTyped' /\ FramesOK(t)' /\ Top(t)' = Top(t)
  BY <1>1, StackUnchanged DEF Lock
<1>3. TypeOK /\ pc[t] = "lock" /\ Landed(t)
  BY DEF IInv, Lock, ThreadOK
<1>4. pc' = [pc EXCEPT ![t] = "construct"]
  BY DEF Lock, Goto
<1>5. pc' \in [Threads -> Steps] /\ pc'[t] = "construct"
  BY <1>3, <1>4 DEF TypeOK, Steps, RuntimeSteps, LookupSteps
<1>6. owner \in {None, t} /\ owner' = t /\ held' = held + 1 /\ held \in Nat
  BY <1>3 DEF Lock, LockFree, Acquire, TypeOK
<1>7. OthersKept(t) /\ LockKept(t) /\ ~aborted'
  BY <1>3, <1>4, <1>6, CallTreeAssumption
     DEF TypeOK, OthersKept, LockKept, Lock, IInv
<1>8. TypeOK'
  BY <1>1, <1>2, <1>3, <1>5, <1>6 DEF TypeOK, StackTyped, Lock
<1>9. Calling(t)' /\ Landed(t)' /\ Locked(t)'
  <2>1. HasMagic(Top(t).code, Top(t).entry)'
    BY <1>1, <1>2, <1>3 DEF Landed, HasMagic, NodeAbi
  <2>2. QED
    BY <1>1, <1>2, <1>3, <1>5, <1>6, <2>1 DEF Calling, Landed, Locked
<1>10. QED
  BY <1>1, <1>2, <1>7, <1>8, <1>9, StepOK

(* The leaf to be inlined is the function the thread is in.                *)
LEMMA ConstructOK ==
    ASSUME IInv, NEW t \in Threads, Construct(t)
    PROVE  IInv'
<1> DEFINE f == tree[Top(t).entry].landing
<1>1. TreeKept /\ TreeOK' /\ NodeIds' = NodeIds /\ tree' = tree
  BY TreeUnchanged DEF Construct
<1>2. StackTyped' /\ FramesOK(t)' /\ Top(t)' = Top(t)
  BY <1>1, StackUnchanged DEF Construct
<1>3. TypeOK /\ pc[t] = "construct" /\ Landed(t) /\ Locked(t)
  BY DEF IInv, Construct, ThreadOK
<1>4. f = Top(t).code.fn /\ f \in Funcs
  BY <1>3, LandedEntry, CallTreeAssumption DEF Landed
<1>5. pc' = [pc EXCEPT ![t] = "compile"] /\ loc' = [loc EXCEPT ![t].leaf = f]
  BY DEF Construct, Goto
<1> HIDE DEF f
<1>6. /\ pc' \in [Threads -> Steps] /\ pc'[t] = "compile"
      /\ loc' \in [Threads -> Local] /\ loc'[t].leaf = f
  BY <1>3, <1>4, <1>5 DEF TypeOK, Steps, RuntimeSteps, LookupSteps, Local
<1>7. OthersKept(t) /\ LockKept(t) /\ ~aborted'
  BY <1>3, <1>5 DEF TypeOK, OthersKept, LockKept, Construct, IInv
<1>8. TypeOK'
  BY <1>1, <1>2, <1>3, <1>6 DEF TypeOK, StackTyped, Construct
<1>9. Calling(t)' /\ Landed(t)' /\ Locked(t)'
  <2>1. HasMagic(Top(t).code, Top(t).entry)'
    BY <1>1, <1>2, <1>3 DEF Landed, HasMagic, NodeAbi
  <2>2. QED
    BY <1>1, <1>2, <1>3, <1>4, <1>6, <2>1 DEF Calling, Landed, Locked, Construct
<1>10. QED
  BY <1>1, <1>2, <1>7, <1>8, <1>9, StepOK

(* A failed constructor gives back what it took of the lock.               *)
LEMMA ConstructFailsOK ==
    ASSUME IInv, NEW t \in Threads, ConstructFails(t)
    PROVE  IInv'
<1>1. TreeKept /\ TreeOK' /\ NodeIds' = NodeIds
  BY TreeUnchanged DEF ConstructFails
<1>2. StackTyped' /\ FramesOK(t)' /\ Top(t)' = Top(t)
  BY <1>1, StackUnchanged DEF ConstructFails
<1>3. TypeOK /\ pc[t] = "construct" /\ Locked(t)
  BY DEF IInv, ConstructFails, ThreadOK
<1>4. pc' = [pc EXCEPT ![t] = "run"]
  BY DEF ConstructFails, Goto
<1>5. pc' \in [Threads -> Steps] /\ pc'[t] = "run"
  BY <1>3, <1>4 DEF TypeOK, Steps
<1>6. /\ owner = t /\ held' \in Nat
      /\ owner' \in Threads \cup {None}
  BY <1>3 DEF ConstructFails, Release, Locked, TypeOK
<1>7. OthersKept(t) /\ LockKept(t) /\ ~aborted'
  BY <1>3, <1>4, <1>6 DEF TypeOK, OthersKept, LockKept, ConstructFails, IInv
<1>8. TypeOK'
  BY <1>1, <1>2, <1>3, <1>5, <1>6 DEF TypeOK, StackTyped, ConstructFails
<1>9. Calling(t)' /\ Landed(t)' /\ Locked(t)'
  BY <1>5 DEF Calling, Landed, Locked
<1>10. QED
  BY <1>1, <1>2, <1>7, <1>8, <1>9, StepOK

(* The compilation of a node makes a form of its parent's target whose     *)
(* short cut, if any, is for the node's own target.                        *)
LEMMA RecompiledFaithful ==
    ASSUME NEW n \in NodeIds, tree[n] \in NodeType
    PROVE  LET c == Recompiled(n, tree[n].target)
           IN c \in Code /\ CodeOK(c) /\ c.fn = SiteFn[tree[n].location]
<1>1. /\ tree[n].location \in Sites /\ tree[n].target \in Funcs
      /\ SiteFn[tree[n].location] \in Funcs
  BY ProgramAssumption DEF NodeType
<1>2. QED
  BY <1>1, CodeTypes DEF Recompiled

(* What replaces the parent's resolved_target is a form of its target.     *)
LEMMA CompileOK ==
    ASSUME IInv, NEW t \in Threads, Compile(t)
    PROVE  IInv'
<1> DEFINE n == Top(t).entry
           p == tree[n].parent
           c == Recompiled(n, loc[t].leaf)
<1>1. /\ TypeOK /\ TreeOK /\ pc[t] = "compile" /\ Landed(t)
      /\ tree \in Seq(NodeType)
  BY DEF IInv, ThreadOK, TypeOK, Compile
<1>2. /\ n \in NodeIds /\ tree[n] \in NodeType /\ loc[t].leaf = tree[n].target
  BY <1>1, LandedEntry DEF Landed
<1>3. p \in NodeIds
  BY <1>1, <1>2 DEF TypeOK, Landed
<1>4. tree[p].target = SiteFn[tree[n].location]
  BY <1>1, <1>2 DEF TreeOK, Landed
<1>5. c \in Code /\ CodeOK(c) /\ c.fn = tree[p].target
  BY <1>2, <1>4, RecompiledFaithful
<1>6. tree' = [tree EXCEPT ![p].resolved_target = c]
  BY DEF Compile
<1> HIDE DEF n, p, c
<1>7. tree[p] \in NodeType
  BY <1>1, <1>3 DEF NodeIds
<1>8. tree' \in Seq(NodeType) /\ NodeIds' = NodeIds
  <2>1. [tree[p] EXCEPT !.resolved_target = c] \in NodeType
    BY <1>5, <1>7 DEF NodeType
  <2>2. QED
    BY <1>1, <1>3, <1>6, <2>1 DEF NodeIds
<1>9. /\ \A m \in NodeIds : /\ tree'[m].location = tree[m].location
                            /\ tree'[m].parent = tree[m].parent
                            /\ tree'[m].target = tree[m].target
                            /\ tree'[m].landing = tree[m].landing
                            /\ m # p => tree'[m].resolved_target = tree[m].resolved_target
      /\ tree'[p].resolved_target = c
  BY <1>1, <1>3, <1>6, <1>7 DEF NodeIds, NodeType
<1>10. TreeKept
  BY <1>8, <1>9 DEF TreeKept
<1>11. TreeOK' /\ \A m \in NodeIds' : tree'[m].parent \in {NoNode} \cup NodeIds'
  <2>1. \A m \in NodeIds : tree[m].parent \in {NoNode} \cup NodeIds
    BY <1>1 DEF TypeOK
  <2>2. QED
    BY <1>1, <1>3, <1>5, <1>8, <1>9, <2>1 DEF TreeOK
<1>12. StackTyped' /\ FramesOK(t)'
  BY <1>10, StackUnchanged DEF Compile
<1>13. /\ pc' = [pc EXCEPT ![t] = "run"]
       /\ loc' = [loc EXCEPT ![t] = NoLocal]
       /\ NoLocal \in Local
  BY DEF Compile, Goto, NoLocal, Local, NoNode
<1>14. /\ pc' \in [Threads -> Steps] /\ pc'[t] = "run"
       /\ loc' \in [Threads -> Local]
  BY <1>1, <1>13 DEF TypeOK, Steps
<1>15. OthersKept(t) /\ LockKept(t) /\ ~aborted'
  BY <1>1, <1>13 DEF TypeOK, OthersKept, LockKept, Compile, IInv
<1>16. TypeOK'
  BY <1>1, <1>8, <1>11, <1>12, <1>14 DEF TypeOK, StackTyped, Compile
<1>17. Calling(t)' /\ Landed(t)' /\ Locked(t)'
  BY <1>14 DEF Calling, Landed, Locked
<1>18. QED
  BY <1>10, <1>11, <1>12, <1>15, <1>16, <1>17, StepOK

(* A failed compilation changes nothing in the tree.                       *)
LEMMA CompileFailsOK ==
    ASSUME IInv, NEW t \in Threads, CompileFails(t)
    PROVE  IInv'
<1>1. TreeKept /\ TreeOK' /\ NodeIds' = NodeIds
  BY TreeUnchanged DEF CompileFails
<1>2. StackTyped' /\ FramesOK(t)' /\ Top(t)' = Top(t)
  BY <1>1, StackUnchanged DEF CompileFails
<1>3. TypeOK
  BY DEF IInv
<1>4. /\ pc' = [pc EXCEPT ![t] = "run"]
      /\ loc' = [loc EXCEPT ![t] = NoLocal]
      /\ NoLocal \in Local
  BY DEF CompileFails, Goto, NoLocal, Local, NoNode
<1>5. /\ pc' \in [Threads -> Steps] /\ pc'[t] = "run"
      /\ loc' \in [Threads -> Local]
  BY <1>3, <1>4 DEF TypeOK, Steps
<1>6. OthersKept(t) /\ LockKept(t) /\ ~aborted'
  BY <1>3, <1>4 DEF TypeOK, OthersKept, LockKept, CompileFails, IInv
<1>7. TypeOK'
  BY <1>1, <1>2, <1>3, <1>5 DEF TypeOK, StackTyped, CompileFails
<1>8. Calling(t)' /\ Landed(t)' /\ Locked(t)'
  BY <1>5 DEF Calling, Landed, Locked
<1>9. QED
  BY <1>1, <1>2, <1>6, <1>7, <1>8, StepOK

-----------------------------------------------------------------------------
(* The invariant holds, and what follows from it.                          *)

(* An empty tree, and no thread entered from a node.                       *)
LEMMA InitOK == Init => IInv
<1> SUFFICES ASSUME Init PROVE IInv
  OBVIOUS
<1> DEFINE first == Frame(Aot(Root), NoNode)
<1>1. /\ first \in FrameType /\ first.entry = NoNode
      /\ CodeOK(first.code) /\ first.code = Aot(Root)
  BY CodeTypes, ProgramAssumption DEF Frame, FrameType, NoNode
<1> HIDE DEF first
<1>2. <<first>> \in Seq(FrameType) /\ Len(<<first>>) = 1 /\ <<first>>[1] = first
  BY <1>1
<1>3. \A t \in Threads : stack[t] = <<first>>
  BY DEF Init, first
<1>4. stack \in [Threads -> Seq(FrameType)]
  BY <1>2 DEF Init, first
<1>5. tree = <<>> /\ tree \in Seq(NodeType) /\ NodeIds = {}
  BY DEF Init, NodeIds
<1>6. 0 \in Count
  BY CallTreeAssumption DEF Count
<1>7. TypeOK
  <2>1. \A t \in Threads :
           /\ stack[t] # <<>>
           /\ \A i \in 1 .. Len(stack[t]) : stack[t][i].entry \in {NoNode} \cup NodeIds
    <3> SUFFICES ASSUME NEW t \in Threads
                 PROVE  /\ <<first>> # <<>>
                        /\ \A i \in 1 .. Len(<<first>>) :
                               <<first>>[i].entry \in {NoNode} \cup NodeIds
      BY <1>3
    <3>1. <<first>> # <<>>
      BY <1>2
    <3>2. ASSUME NEW i \in 1 .. Len(<<first>>)
          PROVE  <<first>>[i].entry \in {NoNode} \cup NodeIds
      <4>1. i = 1
        BY <1>2
      <4>2. QED
        BY <4>1, <1>1, <1>2
    <3>3. QED
      BY <3>1, <3>2
  <2>2. NoLocal \in Local
    BY DEF NoLocal, Local, NoNode
  <2>3. /\ pc \in [Threads -> Steps]
        /\ loc \in [Threads -> Local]
        /\ total_calls \in [Sites -> Count]
        /\ total_called \in [Targets -> Count]
    BY <1>6, <2>2 DEF Init, Steps
  <2>4. owner \in Threads \cup {None} /\ held \in Nat /\ aborted \in BOOLEAN
    BY DEF Init
  <2>5. QED
    BY <1>4, <1>5, <2>1, <2>3, <2>4 DEF TypeOK
<1>8. TreeOK /\ ~aborted
  BY <1>5 DEF TreeOK, Init
<1>9. StackOK
  BY <1>1, <1>2, <1>3 DEF StackOK, FramesOK, FrameOK
<1>10. ThreadOK
  BY DEF ThreadOK, Calling, Landed, Locked, Init
<1>11. QED
  BY <1>7, <1>8, <1>9, <1>10 DEF IInv

(* A step that changes no variable.                                        *)
LEMMA StutterOK == IInv /\ UNCHANGED vars => IInv'
<1> SUFFICES ASSUME IInv, UNCHANGED vars PROVE IInv'
  OBVIOUS
<1> USE DEF vars
<1>1. TypeOK'
  BY DEF IInv, TypeOK, NodeIds
<1>2. TreeOK' /\ StackOK' /\ ~aborted'
  BY DEF IInv, TreeOK, StackOK, FramesOK, NodeIds
<1>3. ThreadOK'
  <2> SUFFICES ASSUME NEW t \in Threads
               PROVE  Calling(t)' /\ Landed(t)' /\ Locked(t)'
    BY DEF ThreadOK
  <2>1. Calling(t) /\ Landed(t) /\ Locked(t)
    BY DEF IInv, ThreadOK
  <2>2. Top(t)' = Top(t) /\ NodeIds' = NodeIds
    BY DEF Top, NodeIds
  <2>3. Calling(t)'
    BY <2>1, <2>2 DEF Calling, NodesOf
  <2>4. Landed(t)'
    BY <2>1, <2>2 DEF Landed, HasMagic, NodeAbi
  <2>5. Locked(t)'
    BY <2>1 DEF Locked
  <2>6. QED
    BY <2>3, <2>4, <2>5
<1>4. QED
  BY <1>1, <1>2, <1>3 DEF IInv

(* Every step: one case per action.                                        *)
LEMMA NextOK == ASSUME TailSafe, IInv, Next PROVE IInv'
<1>1. PICK t \in Threads : ProgramStep(t) \/ RuntimeStep(t)
  BY DEF Next
<1>2. CASE ProgramStep(t)
  BY <1>2, EvaluateOK, CallDecoratedOK, PlainCallOK, JumpOK, ReturnOK, ThrowOK DEF ProgramStep
<1>3. CASE RuntimeStep(t)
  BY <1>3, LookupHitOK, LookupMissOK, InsertOK, BackOK, DispatchOK, LandingOK,
     ClaimOK, LockOK, ConstructOK, ConstructFailsOK, CompileOK, CompileFailsOK
     DEF RuntimeStep
<1>4. QED
  BY <1>1, <1>2, <1>3

(* IInv holds for ever. This is the inductive argument behind all theorems *)
(* below; its hypothesis is needed, for a jump to a decorated function     *)
(* makes _drti_landed take another function's node for its own.            *)
THEOREM Invariance == ASSUME TailSafe PROVE Spec => []IInv
<1>1. Init => IInv
  BY InitOK
<1>2. IInv /\ [Next]_vars => IInv'
  BY NextOK, StutterOK
<1>3. QED
  BY <1>1, <1>2, PTL DEF Spec

(* None of the asserts of drti-inline.cpp can fail, whatever the threads   *)
(* do and however many versions of DRTI the program was decorated with.    *)
THEOREM AssertsHold == ASSUME TailSafe PROVE Spec => []NoAssertFailure
<1>1. IInv => NoAssertFailure
  BY DEF IInv, NoAssertFailure
<1>2. QED
  BY <1>1, Invariance, PTL

(* A node's parent is always a call of the function that contains the      *)
(* node's site: a chain A* -> B -> C* with an undecorated B is never taken *)
(* for A* -> C*.                                                           *)
THEOREM EdgesDirect == ASSUME TailSafe PROVE Spec => []DirectEdges
<1>1. IInv => DirectEdges
  BY DEF IInv, TreeOK, DirectEdges
<1>2. QED
  BY <1>1, Invariance, PTL

(* A node lands nowhere but in its target.                                 *)
THEOREM LandsExactly == ASSUME TailSafe PROVE Spec => []LandingExact
<1>1. IInv => LandingExact
  BY DEF IInv, TreeOK, LandingExact
<1>2. QED
  BY <1>1, Invariance, PTL

(* resolved_target is always a form of the node's target, with a short cut *)
(* that leads where the pointer does.                                      *)
THEOREM ResolvesFaithfully == ASSUME TailSafe PROVE Spec => []ResolvedFaithful
<1>1. IInv => ResolvedFaithful
  BY DEF IInv, TreeOK, CodeOK, ResolvedFaithful
<1>2. QED
  BY <1>1, Invariance, PTL
=============================================================================
