---------------------------- MODULE StashProofs ----------------------------
(***************************************************************************)
(* Stash for every start, every length and every number of calls: a        *)
(* decorated call is recognised, an ordinary one never is, and looking     *)
(* for the magic value is safe whoever has called.                         *)
(***************************************************************************)
EXTENDS Stash, TLAPS

USE DEF RetAlign, StashBytes

(* The assembler aligns upwards, to the next multiple.                     *)
LEMMA AlignUpIs ==
    ASSUME NEW a \in Nat
    PROVE  /\ AlignUp(a) \in Nat
           /\ AlignUp(a) >= a
           /\ AlignUp(a) % RetAlign = 0
BY DEF AlignUp

(* Two aligned addresses differ by a whole unit, which is what puts the    *)
(* return address of a decorated call on an aligned address again.         *)
LEMMA AlignedAgain ==
    ASSUME NEW a \in Nat, a % RetAlign = 0
    PROVE  (a + RetAlign) % RetAlign = 0
OBVIOUS

(* A page begins at an aligned address, so the unit that ends at an        *)
(* aligned address lies on one page.                                       *)
LEMMA UnitOnOnePage ==
    ASSUME NEW r \in Nat, r > 0, ReadsMagic(r)
    PROVE  /\ r >= RetAlign
           /\ PageOf(r - RetAlign) = PageOf(r - 1)
           /\ PageOf(r - RetAlign + StashBytes - 1) = PageOf(r - 1)
<1>1. PICK q \in Nat : r = 32 * q
  BY DEF ReadsMagic
<1>2. q >= 1
  BY <1>1
<1>3. PICK p \in Nat, k \in 0 .. 127 : q - 1 = 128 * p + k
  <2>1. q - 1 \in Nat
    BY <1>2
  <2>2. q - 1 = 128 * ((q - 1) \div 128) + ((q - 1) % 128)
    BY <2>1
  <2>3. (q - 1) \div 128 \in Nat /\ ((q - 1) % 128) \in 0 .. 127
    BY <2>1
  <2> QED
    BY <2>2, <2>3
<1>4. r - 32 = 4096 * p + (32 * k)
  BY <1>1, <1>3
<1>5. \A x \in 0 .. 4095 : (4096 * p + x) \div 4096 = p
  BY <1>3
<1>6. /\ (r - 32) \div 4096 = p
      /\ (r - 1) \div 4096 = p
      /\ (r - 25) \div 4096 = p
  <2>1. 32 * k \in 0 .. 4095 /\ 32 * k + 31 \in 0 .. 4095 /\ 32 * k + 7 \in 0 .. 4095
    BY <1>3
  <2>2. /\ r - 32 = 4096 * p + (32 * k)
        /\ r - 1 = 4096 * p + (32 * k + 31)
        /\ r - 25 = 4096 * p + (32 * k + 7)
    BY <1>1, <1>2, <1>4
  <2> QED
    BY <1>5, <2>1, <2>2
<1>7. r >= 32
  BY <1>1, <1>2
<1> QED
  BY <1>6, <1>7 DEF PageOf, PageSize

(* Every stash is aligned and its call ends a unit after it, no later than *)
(* what is emitted next; a return address is the end of something emitted. *)
StashInv ==
    /\ StashTypeOK
    /\ \A m \in stashes : m % RetAlign = 0 /\ m + RetAlign <= addr
    /\ \A r \in returns : r.ret <= addr /\ r.ret > 0
    /\ \A r \in returns : r.decorated <=> r.ret - RetAlign \in stashes /\ r.ret >= RetAlign

LEMMA StashInitial == StashInit => StashInv
BY StashAssumption DEF StashInit, StashInv, StashTypeOK

LEMMA CodeKeeps ==
    ASSUME StashInv, NEW n \in Lengths, EmitCode(n)
    PROVE  StashInv'
<1> n \in Nat /\ n > 0
  BY StashAssumption
<1> QED
  BY DEF StashInv, StashTypeOK, EmitCode

(* A new ordinary call ends after every stash's unit.                      *)
LEMMA CallKeeps ==
    ASSUME StashInv, NEW n \in Lengths, EmitCall(n)
    PROVE  StashInv'
<1> n \in Nat /\ n > 0
  BY StashAssumption
<1> DEFINE new == [ret |-> addr + n, decorated |-> FALSE]
<1>1. StashTypeOK'
  <2>1. addr + n \in Nat
    BY DEF StashInv, StashTypeOK
  <2>2. new \in [ret : Nat, decorated : BOOLEAN]
    BY <2>1
  <2>3. /\ addr' = addr + n
        /\ returns' = returns \cup {new}
        /\ stashes' = stashes
        /\ tooLong' = tooLong
    BY DEF EmitCall
  <2> HIDE DEF new
  <2> QED
    BY <2>1, <2>2, <2>3 DEF StashInv, StashTypeOK
<1>2. (\A m \in stashes : m % RetAlign = 0 /\ m + RetAlign <= addr)'
  BY DEF StashInv, StashTypeOK, EmitCall
<1>3. (\A r \in returns : r.ret <= addr /\ r.ret > 0)'
  BY DEF StashInv, StashTypeOK, EmitCall
<1>4. new.ret - RetAlign \notin stashes
  BY DEF StashInv, StashTypeOK
<1>5. (\A r \in returns : r.decorated <=> r.ret - RetAlign \in stashes /\ r.ret >= RetAlign)'
  BY <1>4 DEF StashInv, EmitCall
<1> QED
  BY <1>1, <1>2, <1>3, <1>5 DEF StashInv

(* A new stash lies after every earlier return address.                    *)
LEMMA DecoratedCallKeeps ==
    ASSUME StashInv, NEW j \in Lengths, NEW n \in Lengths, EmitDecoratedCall(j, n)
    PROVE  StashInv'
<1> DEFINE stash == AlignUp(addr + j)
           new == [ret |-> stash + RetAlign, decorated |-> TRUE]
<1>1. /\ n \in Nat /\ n > 0
      /\ j \in Nat /\ j > 0
      /\ addr \in Nat
  BY StashAssumption DEF StashInv, StashTypeOK
<1>2. stash \in Nat /\ stash > addr /\ stash % RetAlign = 0
  <2>1. addr + j \in Nat
    BY <1>1
  <2> QED
    BY <1>1, <2>1, AlignUpIs
<1> HIDE DEF stash
<1>3. /\ addr' = stash + RetAlign
      /\ returns' = returns \cup {new}
      /\ stashes' = stashes \cup {stash}
      /\ tooLong' = tooLong
  BY <1>1, <1>2 DEF EmitDecoratedCall, Padding, stash
<1>4. StashTypeOK'
  <2>1. new \in [ret : Nat, decorated : BOOLEAN]
    BY <1>2
  <2> HIDE DEF new
  <2> QED
    BY <1>2, <1>3, <2>1 DEF StashInv, StashTypeOK
<1>5. (\A m \in stashes : m % RetAlign = 0 /\ m + RetAlign <= addr)'
  BY <1>1, <1>2, <1>3 DEF StashInv, StashTypeOK
<1>6. (\A r \in returns : r.ret <= addr /\ r.ret > 0)'
  BY <1>1, <1>2, <1>3 DEF StashInv, StashTypeOK
<1>7. \A r \in returns : r.ret - RetAlign # stash
  BY <1>1, <1>2 DEF StashInv, StashTypeOK
<1>8. (\A r \in returns : r.decorated <=> r.ret - RetAlign \in stashes /\ r.ret >= RetAlign)'
  BY <1>2, <1>3, <1>7 DEF StashInv, StashTypeOK
<1> QED
  BY <1>4, <1>5, <1>6, <1>8 DEF StashInv

(* Recognition and its safety follow from the invariant.                   *)
LEMMA StashMeans == StashInv => StashTypeOK /\ MagicExact /\ MagicReadable
<1> SUFFICES ASSUME StashInv
             PROVE  MagicExact /\ MagicReadable
  BY DEF StashInv
<1>1. ASSUME NEW r \in returns, r.decorated
      PROVE  Recognised(r.ret)
  <2> DEFINE m == r.ret - RetAlign
  <2>1. m \in Nat /\ m \in stashes /\ m % RetAlign = 0 /\ r.ret = m + RetAlign
    BY <1>1 DEF StashInv, StashTypeOK
  <2> QED
    BY <2>1, AlignedAgain DEF Recognised, ReadsMagic
<1>2. ASSUME NEW r \in returns, Recognised(r.ret)
      PROVE  r.decorated
  <2>1. r.ret \in Nat /\ r.ret > 0 /\ ReadsMagic(r.ret)
    BY <1>2 DEF StashInv, StashTypeOK, Recognised
  <2>2. r.ret >= RetAlign
    BY <2>1, UnitOnOnePage
  <2> QED
    BY <1>2, <2>2 DEF StashInv, StashTypeOK, Recognised
<1>3. MagicExact
  <2>1. \A r \in returns : r.decorated \in BOOLEAN
    BY DEF StashInv, StashTypeOK
  <2> QED
    BY <1>1, <1>2, <2>1 DEF MagicExact
<1>4. MagicReadable
  <2>1. \A r \in returns : r.ret \in Nat /\ r.ret > 0
    BY DEF StashInv, StashTypeOK
  <2> QED
    BY <2>1, UnitOnOnePage DEF MagicReadable
<1> QED
  BY <1>3, <1>4

LEMMA StashStep == StashInv /\ [StashNext]_stashVars => StashInv'
<1> SUFFICES ASSUME StashInv, [StashNext]_stashVars
             PROVE  StashInv'
  OBVIOUS
<1>1. CASE UNCHANGED stashVars
  BY <1>1 DEF StashInv, StashTypeOK, stashVars
<1>2. ASSUME NEW n \in Lengths, EmitCode(n)
      PROVE  StashInv'
  BY <1>2, CodeKeeps
<1>3. ASSUME NEW n \in Lengths, EmitCall(n)
      PROVE  StashInv'
  BY <1>3, CallKeeps
<1>4. ASSUME NEW n \in Lengths, NEW j \in Lengths, EmitDecoratedCall(j, n)
      PROVE  StashInv'
  BY <1>4, DecoratedCallKeeps
<1>5. ASSUME NEW n \in Lengths, EmitFails(n)
      PROVE  StashInv'
  BY <1>5 DEF StashInv, StashTypeOK, EmitFails
<1> QED
  BY <1>1, <1>2, <1>3, <1>4, <1>5 DEF StashNext

(* Whatever is emitted, in whatever order: the invariant holds.            *)
THEOREM StashInvariance == StashSpec => []StashInv
<1>1. StashInit => StashInv
  BY StashInitial
<1>2. StashInv /\ [StashNext]_stashVars => StashInv'
  BY StashStep
<1> QED
  BY <1>1, <1>2, PTL DEF StashSpec

(* The prologue recognises exactly the decorated calls.                    *)
THEOREM RecognitionExact == StashSpec => []MagicExact
<1>1. StashInv => MagicExact
  BY StashMeans
<1> QED
  BY <1>1, StashInvariance, PTL

(* Reading where the magic value would be never faults.                    *)
THEOREM ReadingSafe == StashSpec => []MagicReadable
<1>1. StashInv => MagicReadable
  BY StashMeans
<1> QED
  BY <1>1, StashInvariance, PTL
=============================================================================
