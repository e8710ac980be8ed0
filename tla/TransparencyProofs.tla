------------------------- MODULE TransparencyProofs -------------------------
(***************************************************************************)
(* A program of one thread does not notice DRTI: CallTree implements       *)
(* Program.  It rests on facts that hold of one thread only, for they are  *)
(* what concurrent lookups break: a site has one node for each caller and  *)
(* target, and a call goes through the node it has asked for.              *)
(***************************************************************************)
EXTENDS CallTreeProofs

OneThread == \A t, u \in Threads : t = u

-----------------------------------------------------------------------------
(* The invariant of one thread, in addition to IInv.                       *)

(* Node n is the one that t's call asks for.                               *)
Requested(t, n) ==
    /\ tree[n].location = loc[t].site
    /\ tree[n].parent = Caller(t)
    /\ tree[n].target = loc[t].target

(* A node is inserted when there is none, it is the last one when it is    *)
(* read back, and a node that is claimed has not landed.                   *)
Own(t) ==
    /\ pc[t] = "insert" => Matches(loc[t].site, Caller(t), loc[t].target) = {}
    /\ pc[t] = "back" => Len(tree) \in NodeIds /\ Requested(t, Len(tree))
    /\ pc[t] = "dispatch" => Requested(t, loc[t].node)
    /\ pc[t] = "claim" => tree[Top(t).entry].landing = None

SoloInv == NodesUnique /\ \A t \in Threads : Own(t)

(* The nodes stay what they are calls of.                                  *)
NodesKept ==
    /\ NodeIds' = NodeIds
    /\ \A n \in NodeIds :
        /\ tree'[n].location = tree[n].location
        /\ tree'[n].parent = tree[n].parent
        /\ tree'[n].target = tree[n].target

LEMMA KeptUnique == ASSUME NodesUnique, NodesKept PROVE NodesUnique'
BY DEF NodesUnique, NodesKept

LEMMA SameTreeKept == ASSUME tree' = tree PROVE NodesKept
BY DEF NodesKept, NodeIds

(* The actions that change a node change none of these fields.             *)
LEMMA ChangedNodesKept ==
    ASSUME IInv, IInv', NEW t \in Threads, Dispatch(t) \/ Claim(t) \/ Compile(t)
    PROVE  NodesKept
<1>1. tree \in Seq(NodeType) /\ tree' \in Seq(NodeType)
  BY DEF IInv, TypeOK
<1>2. \A m \in NodeIds : tree[m] \in NodeType
  BY <1>1 DEF NodeIds
<1>3. \/ \E n, x : tree' = [tree EXCEPT ![n].chain_calls = x]
      \/ \E n, x : tree' = [tree EXCEPT ![n].landing = x]
      \/ \E n, x : tree' = [tree EXCEPT ![n].resolved_target = x]
  BY DEF Dispatch, Claim, Compile
<1>4. DOMAIN tree' = DOMAIN tree
  BY <1>3
<1>5. NodeIds' = NodeIds
  BY <1>1, <1>4 DEF NodeIds
<1>6. ASSUME NEW m \in NodeIds
      PROVE  /\ tree'[m].location = tree[m].location
             /\ tree'[m].parent = tree[m].parent
             /\ tree'[m].target = tree[m].target
  <2>1. tree[m] \in NodeType /\ m \in DOMAIN tree
    BY <1>1, <1>2 DEF NodeIds
  <2>2. CASE \E n, x : tree' = [tree EXCEPT ![n].chain_calls = x]
    BY <2>1, <2>2 DEF NodeType
  <2>3. CASE \E n, x : tree' = [tree EXCEPT ![n].landing = x]
    BY <2>1, <2>3 DEF NodeType
  <2>4. CASE \E n, x : tree' = [tree EXCEPT ![n].resolved_target = x]
    BY <2>1, <2>4 DEF NodeType
  <2> QED
    BY <1>3, <2>2, <2>3, <2>4
<1> QED
  BY <1>5, <1>6 DEF NodesKept

(* What is left to check of the only thread.                               *)
LEMMA SoloStep ==
    ASSUME OneThread, NEW t \in Threads, NodesUnique', Own(t)'
    PROVE  SoloInv'
BY DEF OneThread, SoloInv

(* Nothing, outside of the lookup and the landing.                         *)
LEMMA QuietStep ==
    ASSUME OneThread, SoloInv, NEW t \in Threads, NodesKept,
           pc'[t] \notin {"insert", "back", "dispatch", "claim"}
    PROVE  SoloInv'
BY KeptUnique, SoloStep DEF SoloInv, Own

-----------------------------------------------------------------------------

LEMMA LookupSolo ==
    ASSUME OneThread, IInv, SoloInv, NEW t \in Threads, LookupHit(t) \/ LookupMiss(t)
    PROVE  SoloInv'
<1>1. tree' = tree /\ stack' = stack /\ pc[t] = "lookup"
  BY DEF LookupHit, LookupMiss
<1>2. NodesUnique'
  BY <1>1, SameTreeKept, KeptUnique DEF SoloInv
<1>3. Caller(t)' = Caller(t)
  BY <1>1 DEF Caller, Top, HasMagic, NodeAbi
<1>4. loc \in [Threads -> Local] /\ loc[t] \in Local /\ pc \in [Threads -> Steps]
  BY DEF IInv, TypeOK
<1>5. ASSUME LookupHit(t) PROVE Own(t)'
  <2>1. PICK n \in Matches(loc[t].site, Caller(t), loc[t].target) :
            loc' = [loc EXCEPT ![t].node = n]
    BY <1>5 DEF LookupHit
  <2>2. loc'[t].node = n /\ loc'[t].site = loc[t].site /\ loc'[t].target = loc[t].target
    BY <1>4, <2>1 DEF Local
  <2>3. pc'[t] = "dispatch"
    BY <1>4, <1>5 DEF LookupHit, Goto
  <2>4. Requested(t, n)' /\ loc'[t].node = n
    BY <1>1, <1>3, <2>1, <2>2 DEF Matches, Requested
  <2>5. Requested(t, loc[t].node)'
    BY <2>4 DEF Requested
  <2> QED
    BY <2>3, <2>5 DEF Own
<1>6. ASSUME LookupMiss(t) PROVE Own(t)'
  <2>1. loc' = loc /\ pc'[t] = "insert"
    BY <1>4, <1>6 DEF LookupMiss, Goto
  <2>2. Matches(loc[t].site, Caller(t), loc[t].target)' = {}
    BY <1>1, <1>3, <1>6, <2>1 DEF LookupMiss, Matches, NodeIds
  <2> QED
    BY <2>1, <2>2 DEF Own
<1> QED
  BY <1>2, <1>5, <1>6, SoloStep

(* The new node is the only one of its kind.                               *)
LEMMA InsertSolo ==
    ASSUME OneThread, IInv, SoloInv, NEW t \in Threads, Insert(t)
    PROVE  SoloInv'
<1> DEFINE s == loc[t].site
           p == Caller(t)
           g == loc[t].target
           new == Node(s, p, g)
           last == Len(tree) + 1
<1>1. tree \in Seq(NodeType) /\ Len(tree) \in Nat
  BY DEF IInv, TypeOK
<1>2. /\ tree' = Append(tree, new) /\ stack' = stack /\ loc' = loc
      /\ pc[t] = "insert" /\ pc' = [pc EXCEPT ![t] = "back"]
  BY DEF Insert, Goto
<1>3. new.location = s /\ new.parent = p /\ new.target = g
  BY DEF Node
<1>4. /\ NodeIds' = NodeIds \cup {last} /\ Len(tree') = last
      /\ tree'[last] = new
      /\ \A n \in NodeIds : tree'[n] = tree[n]
  <2> HIDE DEF new
  <2> QED
    BY <1>1, <1>2 DEF NodeIds
<1>5. \A n \in NodeIds :
          ~(tree[n].location = s /\ tree[n].parent = p /\ tree[n].target = g)
  BY <1>2 DEF SoloInv, Own, Matches
<1>6. NodesUnique'
  <2> HIDE DEF new, s, p, g, last
  <2> QED
    BY <1>3, <1>4, <1>5 DEF SoloInv, NodesUnique
<1>7. Caller(t)' = p
  <2>1. Top(t)' = Top(t) /\ Top(t).entry \in {NoNode} \cup NodeIds
    BY <1>2, TopType DEF IInv, Top
  <2>2. Top(t).entry # NoNode => tree'[Top(t).entry] = tree[Top(t).entry]
    BY <1>4, <2>1
  <2>3. HasMagic(Top(t).code, Top(t).entry)' <=> HasMagic(Top(t).code, Top(t).entry)
    BY <2>1, <2>2 DEF HasMagic, NodeAbi
  <2> QED
    BY <2>1, <2>3 DEF Caller
<1>8. Requested(t, Len(tree))' /\ Len(tree') \in NodeIds'
  <2> HIDE DEF new
  <2> QED
    BY <1>2, <1>3, <1>4, <1>7 DEF Requested
<1>9. pc'[t] = "back"
  BY <1>2 DEF IInv, TypeOK
<1>10. Own(t)'
  BY <1>8, <1>9 DEF Own
<1> QED
  BY <1>6, <1>10, SoloStep

(* It is what _drti_lookup_or_insert returns.                              *)
LEMMA BackSolo ==
    ASSUME OneThread, IInv, SoloInv, NEW t \in Threads, Back(t)
    PROVE  SoloInv'
<1>1. tree' = tree /\ stack' = stack /\ pc[t] = "back"
  BY DEF Back
<1>2. NodesUnique'
  BY <1>1, SameTreeKept, KeptUnique DEF SoloInv
<1>3. Caller(t)' = Caller(t)
  BY <1>1 DEF Caller, Top, HasMagic, NodeAbi
<1>4. loc \in [Threads -> Local] /\ loc[t] \in Local /\ pc \in [Threads -> Steps]
  BY DEF IInv, TypeOK
<1>5. PICK n \in NodesOf(loc[t].site) :
          /\ \A m \in NodesOf(loc[t].site) : m <= n
          /\ loc' = [loc EXCEPT ![t].node = n]
  BY DEF Back
<1>6. Len(tree) \in NodesOf(loc[t].site) /\ Requested(t, Len(tree))
  BY <1>1 DEF SoloInv, Own, Requested, NodesOf
<1>7. n = Len(tree)
  <2>1. Len(tree) <= n
    BY <1>5, <1>6
  <2>2. n \in 1 .. Len(tree)
    BY DEF NodesOf, NodeIds
  <2>3. Len(tree) \in Nat
    BY DEF IInv, TypeOK
  <2> QED
    BY <2>1, <2>2, <2>3
<1>8. loc'[t].node = n /\ loc'[t].site = loc[t].site /\ loc'[t].target = loc[t].target
  BY <1>4, <1>5 DEF Local
<1>9. Requested(t, loc[t].node)'
  BY <1>1, <1>3, <1>6, <1>7, <1>8 DEF Requested
<1>10. pc'[t] = "dispatch"
  BY <1>4 DEF Back, Goto
<1>11. Own(t)'
  BY <1>9, <1>10 DEF Own
<1> QED
  BY <1>2, <1>11, SoloStep

(* A node is claimed only by the arrival that found it not landed.         *)
LEMMA LandingSolo ==
    ASSUME OneThread, IInv, SoloInv, NEW t \in Threads, Landing(t)
    PROVE  SoloInv'
<1>1. tree' = tree /\ stack' = stack
  BY DEF Landing
<1>2. NodesUnique'
  BY <1>1, SameTreeKept, KeptUnique DEF SoloInv
<1>3. pc \in [Threads -> Steps]
  BY DEF IInv, TypeOK
<1>4. CASE HasLanded(Top(t).entry)
  <2>1. pc'[t] = "run"
    BY <1>3, <1>4 DEF Landing, Goto
  <2> QED
    BY <1>2, <2>1, SoloStep DEF Own
<1>5. CASE ~HasLanded(Top(t).entry)
  <2>1. pc'[t] = "claim"
    BY <1>3, <1>5 DEF Landing, Goto
  <2>2. tree'[Top(t)'.entry].landing = None
    BY <1>1, <1>5 DEF HasLanded, Top
  <2> QED
    BY <1>2, <2>1, <2>2, SoloStep DEF Own
<1> QED
  BY <1>4, <1>5

(* Everything else.                                                        *)
LEMMA OtherSolo ==
    ASSUME OneThread, IInv, IInv', SoloInv, NEW t \in Threads,
           \/ \E s \in Sites, g \in Funcs : Evaluate(t, s, g)
           \/ CallDecorated(t) \/ PlainCall(t) \/ Jump(t)
           \/ Return(t) \/ \E k \in DOMAIN stack[t] : Throw(t, k)
           \/ Dispatch(t) \/ Claim(t) \/ Lock(t)
           \/ Construct(t) \/ ConstructFails(t) \/ Compile(t) \/ CompileFails(t)
    PROVE  SoloInv'
<1>1. NodesKept
  BY SameTreeKept, ChangedNodesKept
     DEF Evaluate, CallDecorated, PlainCall, Jump, Return, Throw, Lock, Construct,
         ConstructFails, CompileFails
<1>2. pc \in [Threads -> Steps]
  BY DEF IInv, TypeOK
<1>3. pc'[t] \notin {"insert", "back", "dispatch", "claim"}
  <2>1. ASSUME NEW step \in {"run", "call", "lookup", "landing", "lock", "construct", "compile"},
               pc' = [pc EXCEPT ![t] = step]
        PROVE  pc'[t] \notin {"insert", "back", "dispatch", "claim"}
    BY <1>2, <2>1
  <2>2. CASE UNCHANGED pc /\ pc[t] = "run"
    BY <2>2
  <2>3. \A c, e : FirstStep(c, e) \in {"run", "landing"}
    BY DEF FirstStep
  <2>4. CASE (\E s \in Sites, g \in Funcs : Evaluate(t, s, g)) \/ CallDecorated(t)
    BY <2>1, <2>4 DEF Evaluate, CallDecorated, Goto
  <2>5. CASE PlainCall(t) \/ Jump(t)
    BY <2>1, <2>3, <2>5 DEF PlainCall, Jump, Goto
  <2>6. CASE Dispatch(t)
    BY <2>1, <2>3, <2>6 DEF Dispatch, Goto
  <2>7. CASE Return(t) \/ \E k \in DOMAIN stack[t] : Throw(t, k)
    BY <2>2, <2>7 DEF Return, Throw
  <2>8. CASE Claim(t)
    BY <2>1, <2>8 DEF Claim, Goto
  <2>9. CASE Lock(t) \/ Construct(t) \/ ConstructFails(t) \/ Compile(t) \/ CompileFails(t)
    BY <2>1, <2>9 DEF Lock, Construct, ConstructFails, Compile, CompileFails, Goto
  <2> QED
    BY <2>4, <2>5, <2>6, <2>7, <2>8, <2>9
<1> QED
  BY <1>1, <1>3, QuietStep

LEMMA SoloNext ==
    ASSUME OneThread, IInv, IInv', SoloInv, [Next]_vars
    PROVE  SoloInv'
<1>1. CASE UNCHANGED vars
  <2>1. /\ tree' = tree /\ stack' = stack /\ pc' = pc /\ loc' = loc
    BY <1>1 DEF vars
  <2>2. NodesUnique'
    BY <2>1, SameTreeKept, KeptUnique DEF SoloInv
  <2>3. ASSUME NEW t \in Threads PROVE Own(t)'
    <3>1. Own(t) /\ Top(t)' = Top(t) /\ NodeIds' = NodeIds
      BY <2>1 DEF SoloInv, Top, NodeIds
    <3>2. Caller(t)' = Caller(t)
      BY <2>1, <3>1 DEF Caller, HasMagic, NodeAbi
    <3> QED
      BY <2>1, <3>1, <3>2 DEF Own, Requested, Matches
  <2> QED
    BY <2>2, <2>3 DEF SoloInv
<1>2. CASE Next
  <2>1. PICK t \in Threads : ProgramStep(t) \/ RuntimeStep(t)
    BY <1>2 DEF Next
  <2> QED
    BY <2>1, OtherSolo, LookupSolo, InsertSolo, BackSolo, LandingSolo
       DEF ProgramStep, RuntimeStep
<1> QED
  BY <1>1, <1>2

LEMMA SoloInit == Init => SoloInv
BY DEF Init, SoloInv, NodesUnique, NodeIds, Own

(* With one thread the vector of a site is a function of what is asked for *)
(* and never gives a call another one's node.                              *)
THEOREM SoloInvariance == ASSUME TailSafe, OneThread PROVE Spec => [](IInv /\ SoloInv)
<1>1. IInv /\ IInv' /\ SoloInv /\ [Next]_vars => SoloInv'
  BY SoloNext
<1>2. Init => SoloInv
  BY SoloInit
<1> QED
  BY <1>1, <1>2, Invariance, PTL DEF Spec

(* A site has one node for each caller and target, so a chain is not       *)
(* recompiled again under another node.                                    *)
THEOREM NodesAreUnique == ASSUME TailSafe, OneThread PROVE Spec => []NodesUnique
<1>1. SoloInv => NodesUnique
  BY DEF SoloInv
<1> QED
  BY <1>1, SoloInvariance, PTL

(* The node a call goes through is that of its site, caller and target.    *)
THEOREM CallsAsRequested == ASSUME TailSafe, OneThread PROVE Spec => []CallsRequestedTarget
<1>1. SoloInv => CallsRequestedTarget
  BY DEF SoloInv, Own, Requested, CallsRequestedTarget
<1> QED
  BY <1>1, SoloInvariance, PTL

(* No node is inspected twice.                                             *)
THEOREM InspectsOnce == ASSUME TailSafe, OneThread PROVE Spec => InspectOnce
<1> DEFINE Unlanded == \A t \in Threads :
               pc[t] = "claim" /\ pc'[t] # "claim" => tree[Top(t).entry].landing = None
<1>1. SoloInv => [Unlanded]_vars
  BY DEF SoloInv, Own
<1> QED
  BY <1>1, SoloInvariance, PTL DEF InspectOnce, Spec

-----------------------------------------------------------------------------
(* The refinement.                                                         *)

Act == [fn : Funcs, last : BOOLEAN]

LEMMA SameSeq ==
    ASSUME NEW S, NEW q \in Seq(S), NEW r \in Seq(S), Len(q) = Len(r),
           \A i \in 1 .. Len(q) : q[i] = r[i]
    PROVE  q = r
<1>1. /\ q = [i \in 1 .. Len(q) |-> q[i]] /\ r = [i \in 1 .. Len(r) |-> r[i]]
  OBVIOUS
<1> QED
  BY <1>1

(* What a thread of the program sees of its stack, element by element.     *)
LEMMA ShownSeq ==
    ASSUME NEW q \in Seq(FrameType)
    PROVE  /\ Shown(q) \in Seq(Act)
           /\ Len(Shown(q)) = Len(q)
           /\ \A i \in 1 .. Len(q) : /\ Shown(q)[i].fn = q[i].code.fn
                                     /\ Shown(q)[i].last = q[i].last
<1> DEFINE f(i) == [fn |-> q[i].code.fn, last |-> q[i].last]
<1>1. \A i \in 1 .. Len(q) : f(i) \in Act
  <2> SUFFICES ASSUME NEW i \in 1 .. Len(q) PROVE f(i) \in Act
    OBVIOUS
  <2>1. q[i] \in FrameType
    OBVIOUS
  <2> QED
    BY <2>1 DEF FrameType, Code, Act
<1>2. \A i \in 1 .. Len(q) : f(i).fn = q[i].code.fn /\ f(i).last = q[i].last
  OBVIOUS
<1>3. Shown(q) = [i \in 1 .. Len(q) |-> f(i)] /\ Len(q) \in Nat
  BY DEF Shown
<1> HIDE DEF f
<1>4. Shown(q) \in Seq(Act) /\ Len(Shown(q)) = Len(q)
  BY <1>1, <1>3
<1> QED
  BY <1>2, <1>3, <1>4

(* It is a sequence of the same length with the same names and marks.      *)
LEMMA ShownIs ==
    ASSUME NEW q \in Seq(FrameType), NEW r \in Seq(Act), Len(r) = Len(q),
           \A i \in 1 .. Len(q) : r[i].fn = q[i].code.fn /\ r[i].last = q[i].last
    PROVE  Shown(q) = r
<1>1. ASSUME NEW i \in 1 .. Len(q) PROVE Shown(q)[i] = r[i]
  <2>1. Shown(q)[i] \in Act /\ r[i] \in Act
    BY ShownSeq
  <2>2. Shown(q)[i].fn = r[i].fn /\ Shown(q)[i].last = r[i].last
    BY ShownSeq
  <2> QED
    BY <2>1, <2>2 DEF Act
<1> QED
  BY <1>1, ShownSeq, SameSeq

(* A call marks the last activation ...                                    *)
LEMMA ShownMarked ==
    ASSUME NEW q \in Seq(FrameType), q # <<>>, NEW b \in BOOLEAN
    PROVE  /\ [q EXCEPT ![Len(q)].last = b] \in Seq(FrameType)
           /\ Shown([q EXCEPT ![Len(q)].last = b])
                  = [Shown(q) EXCEPT ![Len(Shown(q))].last = b]
<1> DEFINE m == [q EXCEPT ![Len(q)].last = b]
           r == [Shown(q) EXCEPT ![Len(q)].last = b]
<1>1. Len(q) \in 1 .. Len(q) /\ Len(q) \in Nat
  OBVIOUS
<1>2. \A i \in 1 .. Len(q) : q[i] \in FrameType
  OBVIOUS
<1>3. \A i \in 1 .. Len(q) : /\ m[i] \in FrameType
                            /\ m[i].code.fn = q[i].code.fn
                            /\ m[i].last = IF i = Len(q) THEN b ELSE q[i].last
  BY <1>1, <1>2 DEF FrameType
<1>4. m \in Seq(FrameType) /\ Len(m) = Len(q)
  BY <1>1, <1>3
<1>5. Shown(q) \in Seq(Act) /\ Len(Shown(q)) = Len(q)
  BY ShownSeq
<1>6. \A i \in 1 .. Len(q) : Shown(q)[i] \in Act
  BY <1>5
<1>7. \A i \in 1 .. Len(q) : /\ r[i] \in Act
                            /\ r[i].fn = Shown(q)[i].fn
                            /\ r[i].last = IF i = Len(q) THEN b ELSE Shown(q)[i].last
  BY <1>1, <1>5, <1>6 DEF Act
<1>8. r \in Seq(Act) /\ Len(r) = Len(q)
  BY <1>1, <1>5, <1>7
<1> HIDE DEF m, r
<1>9. \A i \in 1 .. Len(m) : r[i].fn = m[i].code.fn /\ r[i].last = m[i].last
  BY <1>3, <1>4, <1>7, ShownSeq
<1>10. Shown(m) = r
  BY <1>4, <1>8, <1>9, ShownIs
<1> QED
  BY <1>4, <1>5, <1>10 DEF m, r

(* ... and pushes one.                                                     *)
LEMMA ShownPushed ==
    ASSUME NEW q \in Seq(FrameType), NEW f \in FrameType
    PROVE  Shown(Append(q, f)) = Append(Shown(q), [fn |-> f.code.fn, last |-> f.last])
<1> DEFINE a == [fn |-> f.code.fn, last |-> f.last]
<1>1. a \in Act /\ a.fn = f.code.fn /\ a.last = f.last
  BY DEF FrameType, Code, Act
<1> HIDE DEF a
<1>2. /\ Append(q, f) \in Seq(FrameType) /\ Len(Append(q, f)) = Len(q) + 1
      /\ Append(q, f)[Len(q) + 1] = f
      /\ \A i \in 1 .. Len(q) : Append(q, f)[i] = q[i]
  OBVIOUS
<1>3. Shown(q) \in Seq(Act) /\ Len(Shown(q)) = Len(q)
  BY ShownSeq
<1>4. /\ Append(Shown(q), a) \in Seq(Act) /\ Len(Append(Shown(q), a)) = Len(q) + 1
      /\ Append(Shown(q), a)[Len(q) + 1] = a
      /\ \A i \in 1 .. Len(q) : Append(Shown(q), a)[i] = Shown(q)[i]
  BY <1>1, <1>3
<1>5. ASSUME NEW i \in 1 .. Len(Append(q, f))
      PROVE  /\ Append(Shown(q), a)[i].fn = Append(q, f)[i].code.fn
             /\ Append(Shown(q), a)[i].last = Append(q, f)[i].last
  <2>1. i \in 1 .. Len(q) \/ i = Len(q) + 1
    BY <1>2
  <2>2. CASE i \in 1 .. Len(q)
    BY <1>2, <1>4, <2>2, ShownSeq
  <2>3. CASE i = Len(q) + 1
    BY <1>1, <1>2, <1>4, <2>3
  <2> QED
    BY <2>1, <2>2, <2>3
<1>6. Shown(Append(q, f)) = Append(Shown(q), a)
  BY <1>2, <1>4, <1>5, ShownIs
<1> QED
  BY <1>6 DEF a

(* A jump replaces the last activation.                                    *)
LEMMA ShownReplaced ==
    ASSUME NEW q \in Seq(FrameType), q # <<>>, NEW f \in FrameType
    PROVE  Shown([q EXCEPT ![Len(q)] = f])
               = [Shown(q) EXCEPT ![Len(Shown(q))] = [fn |-> f.code.fn, last |-> f.last]]
<1> DEFINE a == [fn |-> f.code.fn, last |-> f.last]
           m == [q EXCEPT ![Len(q)] = f]
           r == [Shown(q) EXCEPT ![Len(q)] = a]
<1>1. a \in Act /\ a.fn = f.code.fn /\ a.last = f.last
  BY DEF FrameType, Code, Act
<1> HIDE DEF a
<1>2. /\ m \in Seq(FrameType) /\ Len(m) = Len(q) /\ m[Len(q)] = f
      /\ \A i \in 1 .. Len(q) - 1 : m[i] = q[i]
  OBVIOUS
<1>3. Shown(q) \in Seq(Act) /\ Len(Shown(q)) = Len(q)
  BY ShownSeq
<1>4. /\ r \in Seq(Act) /\ Len(r) = Len(q) /\ r[Len(q)] = a
      /\ \A i \in 1 .. Len(q) - 1 : r[i] = Shown(q)[i]
  BY <1>1, <1>3
<1>5. ASSUME NEW i \in 1 .. Len(m) PROVE r[i].fn = m[i].code.fn /\ r[i].last = m[i].last
  <2>1. i \in 1 .. Len(q) /\ (i \in 1 .. Len(q) - 1 \/ i = Len(q))
    <3> HIDE DEF m
    <3>1. i \in 1 .. Len(q)
      BY <1>2
    <3>2. Len(q) \in Nat
      OBVIOUS
    <3> QED
      BY <3>1, <3>2
  <2>2. CASE i \in 1 .. Len(q) - 1
    <3> HIDE DEF m, r
    <3> QED
      BY <1>2, <1>4, <2>1, <2>2, ShownSeq
  <2>3. CASE i = Len(q)
    <3> HIDE DEF m, r
    <3> QED
      BY <1>1, <1>2, <1>4, <2>3
  <2> QED
    BY <2>1, <2>2, <2>3
<1>6. Shown(m) = r
  <2> HIDE DEF m, r
  <2> QED
    BY <1>2, <1>4, <1>5, ShownIs
<1> QED
  BY <1>3, <1>6 DEF a

(* A return and an exception keep a prefix.                                *)
LEMMA ShownPrefix ==
    ASSUME NEW q \in Seq(FrameType), NEW k \in 1 .. Len(q)
    PROVE  Shown(SubSeq(q, 1, k)) = SubSeq(Shown(q), 1, k)
<1> DEFINE m == SubSeq(q, 1, k)
           r == SubSeq(Shown(q), 1, k)
<1>1. m \in Seq(FrameType) /\ Len(m) = k /\ \A i \in 1 .. k : m[i] = q[i]
  BY PrefixSeq
<1>2. Shown(q) \in Seq(Act) /\ Len(Shown(q)) = Len(q)
  BY ShownSeq
<1>3. r \in Seq(Act) /\ Len(r) = k /\ \A i \in 1 .. k : r[i] = Shown(q)[i]
  BY <1>2
<1>4. \A i \in 1 .. k : i \in 1 .. Len(q)
  OBVIOUS
<1> HIDE DEF m, r
<1>5. ASSUME NEW i \in 1 .. Len(m) PROVE r[i].fn = m[i].code.fn /\ r[i].last = m[i].last
  <2>1. i \in 1 .. k /\ i \in 1 .. Len(q)
    BY <1>1, <1>4
  <2>2. Shown(q)[i].fn = q[i].code.fn /\ Shown(q)[i].last = q[i].last
    BY <2>1, ShownSeq
  <2>3. m[i] = q[i] /\ r[i] = Shown(q)[i]
    BY <1>1, <1>3, <2>1
  <2> QED
    BY <2>2, <2>3
<1>6. Shown(m) = r
  BY <1>1, <1>3, <1>5, ShownIs
<1> QED
  BY <1>6 DEF m, r

-----------------------------------------------------------------------------
(* The refinement: initial states and steps.                               *)

(* A step of t that replaces its stack replaces the one that is seen.      *)
LEMMA ShowsStack ==
    ASSUME IInv, NEW t \in Threads, NEW q, stack' = [stack EXCEPT ![t] = q]
    PROVE  SourceCalls' = [SourceCalls EXCEPT ![t] = Shown(q)]
<1>1. stack'[t] = q /\ \A u \in Threads \ {t} : stack'[u] = stack[u]
  BY DEF IInv, TypeOK
<1>2. SourceCalls' = [u \in Threads |-> Shown(stack'[u])]
  BY DEF SourceCalls, Shown
<1>3. \A u \in Threads : SourceCalls[u] = Shown(stack[u])
  BY DEF SourceCalls
<1>4. DOMAIN SourceCalls = Threads /\ SourceCalls = [u \in Threads |-> SourceCalls[u]]
  BY DEF SourceCalls
<1> QED
  BY <1>1, <1>2, <1>3, <1>4

(* A step of t changes the evaluated call of no other thread.              *)
LEMMA ShowsWant ==
    ASSUME NEW t \in Threads, NEW w, SourceWant'[t] = w,
           \A u \in Threads \ {t} : pc'[u] = pc[u] /\ loc'[u] = loc[u]
    PROVE  SourceWant' = [SourceWant EXCEPT ![t] = w]
<1>1. \A u \in Threads \ {t} : SourceWant'[u] = SourceWant[u]
  BY DEF SourceWant
<1>2. /\ DOMAIN SourceWant = Threads /\ SourceWant = [u \in Threads |-> SourceWant[u]]
      /\ SourceWant' = [u \in Threads |-> SourceWant'[u]]
  BY DEF SourceWant
<1> QED
  BY <1>1, <1>2

LEMMA WantIs ==
    ASSUME NEW t \in Threads
    PROVE  /\ pc[t] \in {"call"} \cup LookupSteps =>
                  SourceWant[t] = <<loc[t].site, loc[t].target>>
           /\ pc[t] \notin {"call"} \cup LookupSteps => SourceWant[t] = <<>>
BY DEF SourceWant

(* Nothing but the stacks and the operands of calls is visible.            *)
LEMMA Invisible ==
    ASSUME stack' = stack, NEW t \in Threads,
           \A u \in Threads \ {t} : pc'[u] = pc[u] /\ loc'[u] = loc[u],
           SourceWant'[t] = SourceWant[t]
    PROVE  UNCHANGED Source!vars
<1>1. SourceCalls' = SourceCalls
  BY DEF SourceCalls, Shown
<1>2. \A u \in Threads : SourceWant'[u] = SourceWant[u]
  BY DEF SourceWant
<1>3. SourceWant' = SourceWant
  BY <1>2 DEF SourceWant
<1> QED
  BY <1>1, <1>3 DEF Source!vars

LEMMA InitMaps == Init => Source!Init
<1> SUFFICES ASSUME Init PROVE Source!Init
  OBVIOUS
<1>1. \A t \in Threads : stack[t] = <<Frame(Aot(Root), NoNode)>> /\ pc[t] = "run"
  BY DEF Init
<1>2. Shown(<<Frame(Aot(Root), NoNode)>>) = <<Source!Activation(Root)>>
  <2> DEFINE f == Frame(Aot(Root), NoNode)
             a == Source!Activation(Root)
  <2>1. Root \in Funcs
    BY ProgramAssumption
  <2>2. Aot(Root) \in Code /\ Aot(Root).fn = Root
    BY <2>1, CodeTypes DEF Aot, Bitcode, Jit
  <2>3. f \in FrameType /\ f.code.fn = a.fn /\ f.last = a.last
    BY <2>2 DEF Frame, FrameType, NoNode, Source!Activation
  <2>4. a \in Act
    BY <2>1 DEF Source!Activation, Act
  <2> HIDE DEF f, a
  <2>5. /\ <<f>> \in Seq(FrameType) /\ <<a>> \in Seq(Act) /\ Len(<<a>>) = Len(<<f>>)
        /\ \A i \in 1 .. Len(<<f>>) : <<f>>[i] = f /\ <<a>>[i] = a
    BY <2>3, <2>4
  <2>6. \A i \in 1 .. Len(<<f>>) : /\ <<a>>[i].fn = <<f>>[i].code.fn
                                  /\ <<a>>[i].last = <<f>>[i].last
    BY <2>3, <2>5
  <2>7. Shown(<<f>>) = <<a>>
    BY <2>5, <2>6, ShownIs
  <2> QED
    BY <2>7 DEF f, a
<1>3. SourceCalls = [t \in Threads |-> <<Source!Activation(Root)>>]
  BY <1>1, <1>2 DEF SourceCalls
<1>4. SourceWant = [t \in Threads |-> <<>>]
  BY <1>1, WantIs DEF SourceWant, LookupSteps
<1> QED
  BY <1>3, <1>4 DEF Source!Init

(* The end of a call: no call is evaluated.                                *)
LEMMA CallEnds ==
    ASSUME IInv, NEW t \in Threads, NEW c, NEW e, Goto(t, FirstStep(c, e)),
           loc' = [loc EXCEPT ![t] = NoLocal]
    PROVE  SourceWant' = [SourceWant EXCEPT ![t] = <<>>]
<1>1. pc \in [Threads -> Steps] /\ loc \in [Threads -> Local]
  BY DEF IInv, TypeOK
<1>2. pc'[t] \in {"run", "landing"}
  BY <1>1 DEF Goto, FirstStep
<1>3. SourceWant'[t] = <<>>
  BY <1>2 DEF SourceWant, LookupSteps
<1>4. \A u \in Threads \ {t} : pc'[u] = pc[u] /\ loc'[u] = loc[u]
  BY <1>1 DEF Goto
<1> QED
  BY <1>3, <1>4, ShowsWant

(* A step that pushes an activation of the function that was asked for.    *)
LEMMA PushMaps ==
    ASSUME IInv, NEW t \in Threads, NEW c \in Code, NEW e \in Nat,
           pc[t] \in {"call", "dispatch"},
           Push(t, loc[t].site, c, e), c.fn = loc[t].target,
           Goto(t, FirstStep(c, e)), loc' = [loc EXCEPT ![t] = NoLocal]
    PROVE  Source!Enter(t)
<1> DEFINE s == loc[t].site
           b == s \in TailSites
           q == stack[t]
           m == [q EXCEPT ![Len(q)].last = b]
           calls == SourceCalls[t]
<1>1. q \in Seq(FrameType) /\ q # <<>> /\ b \in BOOLEAN
  BY DEF IInv, TypeOK
<1>2. stack' = [stack EXCEPT ![t] = Append(m, Frame(c, e))]
  BY DEF Push
<1>3. calls = Shown(q)
  BY DEF SourceCalls
<1>4. m \in Seq(FrameType) /\ Shown(m) = [calls EXCEPT ![Len(calls)].last = b]
  <2> HIDE DEF q, b, calls
  <2> QED
    BY <1>1, <1>3, ShownMarked
<1>5. Frame(c, e) \in FrameType /\ Frame(c, e).code.fn = c.fn /\ Frame(c, e).last = FALSE
  BY DEF Frame, FrameType
<1>6. Shown(Append(m, Frame(c, e))) = Append(Shown(m), Source!Activation(c.fn))
  <2> HIDE DEF m
  <2> QED
    BY <1>4, <1>5, ShownPushed DEF Source!Activation
<1>7. SourceCalls' = [SourceCalls EXCEPT ![t] = Append(Shown(m), Source!Activation(c.fn))]
  <2> HIDE DEF m
  <2> QED
    BY <1>2, <1>6, ShowsStack
<1>8. SourceWant[t] = <<s, c.fn>> /\ SourceWant' = [SourceWant EXCEPT ![t] = <<>>]
  BY WantIs, CallEnds DEF LookupSteps
<1>9. SourceWant[t][1] = s /\ SourceWant[t][2] = c.fn /\ SourceWant[t] # <<>>
  BY <1>8
<1>10. Source!Called(t, s, c.fn) = Append(Shown(m), Source!Activation(c.fn))
  BY <1>4 DEF Source!Called
<1> HIDE DEF s, m
<1> QED
  BY <1>7, <1>8, <1>9, <1>10 DEF Source!Enter

LEMMA JumpMaps ==
    ASSUME IInv, NEW t \in Threads, Jump(t) PROVE Source!Jump(t)
<1> DEFINE q == stack[t]
           calls == SourceCalls[t]
<1>1. q \in Seq(FrameType) /\ q # <<>> /\ Top(t) \in FrameType /\ Top(t).code \in Code
  BY TopType DEF IInv, TypeOK
<1>2. Top(t).entry \in Nat
  BY <1>1 DEF FrameType
<1>3. pc[t] = "call" /\ loc[t].site \in Sites /\ loc[t].target \in Funcs
  BY DEF Jump, IInv, ThreadOK, Calling
<1>4. PICK c \in Callees(Top(t).code, loc[t].site, loc[t].target) :
          /\ stack' = [stack EXCEPT ![t][Len(stack[t])] = Frame(c, Top(t).entry)]
          /\ Goto(t, FirstStep(c, Top(t).entry))
  BY DEF Jump
<1>5. c \in Code /\ c.fn = loc[t].target
  <2>1. CodeOK(Top(t).code)
    BY <1>1 DEF IInv, StackOK, FramesOK, FrameOK, Top
  <2> QED
    BY <1>1, <1>3, <2>1, CalleesFaithful
<1> DEFINE f == Frame(c, Top(t).entry)
<1>6. f \in FrameType /\ [fn |-> f.code.fn, last |-> f.last] = Source!Activation(loc[t].target)
  BY <1>2, <1>5 DEF Frame, FrameType, Source!Activation
<1>7. stack' = [stack EXCEPT ![t] = [q EXCEPT ![Len(q)] = f]]
  BY <1>4
<1>8. calls = Shown(q)
  BY DEF SourceCalls
<1>9. Shown([q EXCEPT ![Len(q)] = f])
          = [calls EXCEPT ![Len(calls)] = Source!Activation(loc[t].target)]
  <2> HIDE DEF q, f, calls
  <2> QED
    BY <1>1, <1>6, <1>8, ShownReplaced
<1>10. SourceCalls' = [SourceCalls EXCEPT ![t] =
                          [calls EXCEPT ![Len(calls)] = Source!Activation(loc[t].target)]]
  <2> HIDE DEF q, f, calls
  <2> QED
    BY <1>7, <1>9, ShowsStack
<1>11. SourceWant[t] = <<loc[t].site, loc[t].target>> /\ SourceWant' = [SourceWant EXCEPT ![t] = <<>>]
  BY <1>3, <1>4, WantIs, CallEnds DEF Jump
<1>12. SourceWant[t][1] = loc[t].site /\ SourceWant[t][2] = loc[t].target /\ SourceWant[t] # <<>>
  BY <1>11
<1> QED
  BY <1>10, <1>11, <1>12 DEF Source!Jump, Jump

LEMMA PlainCallMaps ==
    ASSUME IInv, NEW t \in Threads, PlainCall(t) PROVE Source!Enter(t)
<1>1. Top(t).code \in Code /\ stack[t] \in Seq(FrameType) /\ stack[t] # <<>>
  BY TopType DEF IInv, TypeOK
<1>2. CodeOK(Top(t).code)
  BY <1>1 DEF IInv, StackOK, FramesOK, FrameOK, Top
<1>3. pc[t] = "call" /\ loc[t].site \in Sites /\ loc[t].target \in Funcs
  BY DEF PlainCall, IInv, ThreadOK, Calling
<1>4. PICK c \in Callees(Top(t).code, loc[t].site, loc[t].target) :
          /\ Push(t, loc[t].site, c, PlainEntry(t))
          /\ Goto(t, FirstStep(c, PlainEntry(t)))
  BY DEF PlainCall
<1>5. c \in Code /\ c.fn = loc[t].target
  BY <1>1, <1>2, <1>3, CalleesFaithful
<1>6. PlainEntry(t) \in Nat
  BY DEF PlainEntry, NoNode
<1>7. loc' = [loc EXCEPT ![t] = NoLocal]
  BY DEF PlainCall
<1> QED
  BY <1>3, <1>4, <1>5, <1>6, <1>7, PushMaps

(* The decorated call enters a form of the function that was asked for:    *)
(* the node is the requested one, and what it resolves to is faithful.     *)
LEMMA DispatchMaps ==
    ASSUME IInv, SoloInv, NEW t \in Threads, Dispatch(t) PROVE Source!Enter(t)
<1> DEFINE n == loc[t].node
           c == tree[n].resolved_target
<1>1. pc[t] = "dispatch" /\ n \in NodeIds
  BY DEF Dispatch, IInv, ThreadOK, Calling
<1>2. n \in Nat /\ c \in Code
  <2>1. tree \in Seq(NodeType) /\ n \in 1 .. Len(tree)
    BY <1>1 DEF IInv, TypeOK, NodeIds
  <2>2. tree[n] \in NodeType /\ n \in Nat
    BY <2>1
  <2> QED
    BY <2>2 DEF NodeType
<1>3. c.fn = loc[t].target
  BY <1>1 DEF IInv, TreeOK, SoloInv, Own, Requested
<1>4. Push(t, loc[t].site, c, n) /\ Goto(t, FirstStep(c, n)) /\ loc' = [loc EXCEPT ![t] = NoLocal]
  BY DEF Dispatch
<1> QED
  BY <1>1, <1>2, <1>3, <1>4, PushMaps

LEMMA CurrentIs ==
    ASSUME IInv, NEW t \in Threads
    PROVE  /\ stack[t] \in Seq(FrameType) /\ SourceCalls[t] = Shown(stack[t])
           /\ Len(SourceCalls[t]) = Len(stack[t]) /\ Len(stack[t]) \in Nat
           /\ Source!Current(t).fn = Top(t).code.fn
           /\ Source!Current(t).last = Top(t).last
<1>1. /\ stack[t] \in Seq(FrameType) /\ Len(stack[t]) \in 1 .. Len(stack[t])
      /\ Len(stack[t]) \in Nat
  <2>1. stack[t] \in Seq(FrameType) /\ stack[t] # <<>>
    BY DEF IInv, TypeOK
  <2> QED
    BY <2>1
<1>2. SourceCalls[t] = Shown(stack[t])
  BY DEF SourceCalls
<1> QED
  BY <1>1, <1>2, ShownSeq DEF Source!Current, Top

LEMMA EvaluateMaps ==
    ASSUME IInv, NEW t \in Threads, NEW s \in Sites, NEW g \in Funcs, Evaluate(t, s, g)
    PROVE  Source!Evaluate(t, s, g)
<1>1. pc \in [Threads -> Steps] /\ loc \in [Threads -> Local]
  BY DEF IInv, TypeOK
<1>2. pc[t] = "run" /\ AtSite(t, s, g)
  BY DEF Evaluate, AtSite
<1>3. Source!Runs(t, s, g)
  <2>1. SourceWant[t] = <<>>
    BY <1>2, WantIs DEF LookupSteps
  <2> QED
    BY <1>2, <2>1, CurrentIs DEF Source!Runs, AtSite
<1>4. /\ pc'[t] = "call" /\ loc'[t].site = s /\ loc'[t].target = g
      /\ \A u \in Threads \ {t} : pc'[u] = pc[u] /\ loc'[u] = loc[u]
  BY <1>1 DEF Evaluate, Goto, NoLocal
<1>5. SourceWant'[t] = <<s, g>>
  BY <1>4 DEF SourceWant
<1>6. SourceWant' = [SourceWant EXCEPT ![t] = <<s, g>>]
  BY <1>4, <1>5, ShowsWant
<1>7. SourceCalls' = SourceCalls
  BY DEF Evaluate, SourceCalls, Shown
<1> QED
  BY <1>3, <1>6, <1>7 DEF Source!Evaluate

(* A return or an exception leaves a prefix of the stack.                  *)
LEMMA PrefixMaps ==
    ASSUME IInv, NEW t \in Threads, NEW k \in 1 .. Len(stack[t]), pc[t] = "run",
           stack' = [stack EXCEPT ![t] = SubSeq(@, 1, k)], UNCHANGED <<pc, loc>>
    PROVE  /\ SourceCalls' = [SourceCalls EXCEPT ![t] = SubSeq(@, 1, k)]
           /\ SourceWant[t] = <<>> /\ UNCHANGED SourceWant
<1>1. stack[t] \in Seq(FrameType) /\ SourceCalls[t] = Shown(stack[t])
  BY CurrentIs
<1>2. stack' = [stack EXCEPT ![t] = SubSeq(stack[t], 1, k)]
  OBVIOUS
<1>3. Shown(SubSeq(stack[t], 1, k)) = SubSeq(SourceCalls[t], 1, k)
  BY <1>1, ShownPrefix
<1>4. SourceCalls' = [SourceCalls EXCEPT ![t] = SubSeq(SourceCalls[t], 1, k)]
  <2> DEFINE q == SubSeq(stack[t], 1, k)
  <2>1. stack' = [stack EXCEPT ![t] = q] /\ Shown(q) = SubSeq(SourceCalls[t], 1, k)
    BY <1>2, <1>3
  <2> HIDE DEF q
  <2>2. SourceCalls' = [SourceCalls EXCEPT ![t] = Shown(q)]
    BY <2>1, ShowsStack
  <2> QED
    BY <2>1, <2>2
<1>5. SourceWant[t] = <<>> /\ UNCHANGED SourceWant
  BY WantIs DEF SourceWant, LookupSteps
<1> QED
  BY <1>4, <1>5

LEMMA ReturnMaps ==
    ASSUME IInv, NEW t \in Threads, Return(t) PROVE Source!Return(t)
<1>1. Len(stack[t]) - 1 \in 1 .. Len(stack[t]) /\ Len(SourceCalls[t]) = Len(stack[t])
  BY CurrentIs DEF Return
<1>2. /\ SourceCalls' = [SourceCalls EXCEPT ![t] = SubSeq(@, 1, Len(stack[t]) - 1)]
      /\ SourceWant[t] = <<>> /\ UNCHANGED SourceWant
  BY <1>1, PrefixMaps DEF Return
<1> QED
  BY <1>1, <1>2 DEF Source!Return, Return

LEMMA ThrowMaps ==
    ASSUME IInv, NEW t \in Threads, NEW k \in DOMAIN stack[t], Throw(t, k)
    PROVE  k \in DOMAIN SourceCalls[t] /\ Source!Throw(t, k)
<1>1. /\ k \in 1 .. Len(stack[t]) /\ DOMAIN SourceCalls[t] = 1 .. Len(stack[t])
      /\ SourceCalls[t][k].last = stack[t][k].last
  BY CurrentIs, ShownSeq
<1>2. /\ SourceCalls' = [SourceCalls EXCEPT ![t] = SubSeq(@, 1, k)]
      /\ SourceWant[t] = <<>> /\ UNCHANGED SourceWant
  BY <1>1, PrefixMaps DEF Throw
<1> QED
  BY <1>1, <1>2, CurrentIs DEF Source!Throw, Throw

(* Everything that the runtime does on the way is a stutter.               *)
LEMMA RuntimeStutters ==
    ASSUME IInv, NEW t \in Threads,
           \/ CallDecorated(t) \/ LookupHit(t) \/ LookupMiss(t) \/ Insert(t) \/ Back(t)
           \/ Landing(t) \/ Claim(t) \/ Lock(t)
           \/ Construct(t) \/ ConstructFails(t) \/ Compile(t) \/ CompileFails(t)
    PROVE  UNCHANGED Source!vars
<1>1. pc \in [Threads -> Steps] /\ loc \in [Threads -> Local] /\ loc[t] \in Local
  BY DEF IInv, TypeOK
<1>2. stack' = stack
  BY DEF CallDecorated, LookupHit, LookupMiss, Insert, Back, Landing, Claim, Lock,
         Construct, ConstructFails, Compile, CompileFails
<1>3. CASE CallDecorated(t) \/ LookupMiss(t) \/ Insert(t)
  <2>1. /\ pc[t] \in {"call"} \cup LookupSteps /\ pc'[t] \in {"call"} \cup LookupSteps
        /\ loc' = loc /\ \A u \in Threads \ {t} : pc'[u] = pc[u]
    BY <1>1, <1>3 DEF CallDecorated, LookupMiss, Insert, Goto, LookupSteps
  <2>2. SourceWant'[t] = SourceWant[t]
    BY <2>1 DEF SourceWant
  <2> QED
    BY <1>2, <2>1, <2>2, Invisible
<1>4. CASE LookupHit(t) \/ Back(t)
  <2>1. /\ pc[t] \in {"call"} \cup LookupSteps /\ pc'[t] \in {"call"} \cup LookupSteps
        /\ \A u \in Threads \ {t} : pc'[u] = pc[u]
        /\ \E n : loc' = [loc EXCEPT ![t].node = n]
    BY <1>1, <1>4 DEF LookupHit, Back, Goto, LookupSteps
  <2>2. /\ loc'[t].site = loc[t].site /\ loc'[t].target = loc[t].target
        /\ \A u \in Threads \ {t} : loc'[u] = loc[u]
    BY <1>1, <2>1 DEF Local
  <2>3. SourceWant'[t] = SourceWant[t]
    BY <2>1, <2>2 DEF SourceWant
  <2> QED
    BY <1>2, <2>1, <2>2, <2>3, Invisible
<1>5. CASE Landing(t) \/ Claim(t) \/ Lock(t) \/ Construct(t) \/ ConstructFails(t)
           \/ Compile(t) \/ CompileFails(t)
  <2>1. /\ pc[t] \in {"landing", "claim", "lock", "construct", "compile"}
        /\ pc'[t] \in {"run", "claim", "lock", "construct", "compile"}
        /\ \A u \in Threads \ {t} : pc'[u] = pc[u]
    BY <1>1, <1>5 DEF Landing, Claim, Lock, Construct, ConstructFails, Compile,
                      CompileFails, Goto
  <2>2. \A u \in Threads \ {t} : loc'[u] = loc[u]
    BY <1>1, <1>5 DEF Landing, Claim, Lock, Construct, ConstructFails, Compile, CompileFails
  <2>3. SourceWant'[t] = SourceWant[t]
    BY <2>1 DEF SourceWant, LookupSteps
  <2> QED
    BY <1>2, <2>1, <2>2, <2>3, Invisible
<1> QED
  BY <1>3, <1>4, <1>5

LEMMA NextMaps ==
    ASSUME IInv, SoloInv, [Next]_vars PROVE [Source!Next]_Source!vars
<1>1. CASE UNCHANGED vars
  <2>1. stack' = stack /\ pc' = pc /\ loc' = loc
    BY <1>1 DEF vars
  <2>2. SourceCalls' = SourceCalls /\ SourceWant' = SourceWant
    BY <2>1 DEF SourceCalls, Shown, SourceWant
  <2> QED
    BY <2>2 DEF Source!vars
<1>2. CASE Next
  <2>1. PICK t \in Threads : ProgramStep(t) \/ RuntimeStep(t)
    BY <1>2 DEF Next
  <2>2. CASE \E s \in Sites, g \in Funcs : Evaluate(t, s, g)
    BY <2>2, EvaluateMaps DEF Source!Next
  <2>3. CASE PlainCall(t) \/ Dispatch(t)
    BY <2>3, PlainCallMaps, DispatchMaps DEF Source!Next
  <2>4. CASE Jump(t)
    BY <2>4, JumpMaps DEF Source!Next
  <2>5. CASE Return(t)
    BY <2>5, ReturnMaps DEF Source!Next
  <2>6. CASE \E k \in DOMAIN stack[t] : Throw(t, k)
    BY <2>6, ThrowMaps DEF Source!Next
  <2>7. CASE \/ CallDecorated(t) \/ LookupHit(t) \/ LookupMiss(t) \/ Insert(t) \/ Back(t)
             \/ Landing(t) \/ Claim(t) \/ Lock(t)
             \/ Construct(t) \/ ConstructFails(t) \/ Compile(t) \/ CompileFails(t)
    BY <2>7, RuntimeStutters
  <2> QED
    BY <2>1, <2>2, <2>3, <2>4, <2>5, <2>6, <2>7 DEF ProgramStep, RuntimeStep
<1> QED
  BY <1>1, <1>2

(* A program of one thread makes the calls its source asks for, however    *)
(* many of its functions are recompiled under it.                          *)
THEOREM ProgramIsTransparent == ASSUME TailSafe, OneThread PROVE Spec => Transparent
<1>1. Init => Source!Init
  BY InitMaps
<1>2. IInv /\ SoloInv /\ [Next]_vars => [Source!Next]_Source!vars
  BY NextMaps
<1> QED
  BY <1>1, <1>2, SoloInvariance, PTL DEF Spec, Transparent, Source!Spec

=============================================================================
