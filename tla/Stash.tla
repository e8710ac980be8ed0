------------------------------- MODULE Stash -------------------------------
(***************************************************************************)
(* Where the assembler puts the magic value of a decorated call            *)
(* (passes/drti-target.cpp, insertInlineAsm), and what the prologue of a   *)
(* decorated function makes of its return address.                         *)
(*                                                                         *)
(* Before a decorated call comes a jump over the stash: the magic value at *)
(* an aligned address, then as much padding as makes the call end, and so  *)
(* the return address lie, one alignment unit after the magic value.  The  *)
(* length of the call is only known to the assembler; it includes whatever *)
(* code the register allocator has put before the call.                    *)
(*                                                                         *)
(* That no instruction contains the magic value is an assumption here, as  *)
(* it is in the README.                                                    *)
(***************************************************************************)
EXTENDS Integers

CONSTANTS
    Starts,         \* addresses at which a section of code may begin
    Lengths         \* of instructions and sequences of them, in bytes

ASSUME StashAssumption ==
    /\ Starts \subseteq Nat
    /\ Lengths \subseteq Nat \ {0}

VARIABLES
    addr,           \* where the next instruction goes
    returns,        \* the return addresses of the calls so far
    stashes,        \* the addresses of the magic values
    tooLong         \* the padding of some call is negative: an assembler error

stashVars == <<addr, returns, stashes, tooLong>>

RetAlign == 32      \* DRTI_RETALIGN

StashBytes == 8     \* DRTI_STASH_BYTES

PageSize == 4096

StashTypeOK ==
    /\ addr \in Nat
    /\ returns \subseteq [ret : Nat, decorated : BOOLEAN]
    /\ stashes \subseteq Nat
    /\ tooLong \in BOOLEAN

AlignUp(a) == ((a + RetAlign - 1) \div RetAlign) * RetAlign

(* mutant: the bytes of the magic value are not subtracted                 *)
PaddingAfterMagic(n) == RetAlign - n

Padding(n) == RetAlign - StashBytes - n

-----------------------------------------------------------------------------

StashInit ==
    /\ addr \in Starts
    /\ returns = {}
    /\ stashes = {}
    /\ tooLong = FALSE

EmitCode(n) ==
    /\ addr' = addr + n
    /\ UNCHANGED <<returns, stashes, tooLong>>

EmitCall(n) ==
    /\ addr' = addr + n
    /\ returns' = returns \cup {[ret |-> addr + n, decorated |-> FALSE]}
    /\ UNCHANGED <<stashes, tooLong>>

(* j is the length of the jump over the stash, n that of the call.         *)
EmitDecoratedCall(j, n) ==
    LET stash == AlignUp(addr + j)
        end == stash + StashBytes + Padding(n) + n
    IN /\ n <= RetAlign - StashBytes
       /\ addr' = end
       /\ returns' = returns \cup {[ret |-> end, decorated |-> TRUE]}
       /\ stashes' = stashes \cup {stash}
       /\ UNCHANGED tooLong

EmitFails(n) ==
    /\ n > RetAlign - StashBytes
    /\ tooLong' = TRUE
    /\ UNCHANGED <<addr, returns, stashes>>

StashNext ==
    \E n \in Lengths :
        \/ EmitCode(n)
        \/ EmitCall(n)
        \/ \E j \in Lengths : EmitDecoratedCall(j, n)
        \/ EmitFails(n)

StashSpec == StashInit /\ [][StashNext]_stashVars

-----------------------------------------------------------------------------
(* mutant: the prologue does not look at the alignment first               *)
ReadsAlways(ret) == TRUE

(* The prologue looks for the magic value of an aligned return address.    *)
ReadsMagic(ret) == ret % RetAlign = 0

Recognised(ret) == ReadsMagic(ret) /\ ret - RetAlign \in stashes

(* The prologue recognises the calls that were decorated and no others:    *)
(* no ordinary call returns to where a stash makes it look decorated, and  *)
(* each decorated call returns to the place its own stash was made for.    *)
MagicExact == \A r \in returns : Recognised(r.ret) <=> r.decorated

PageOf(a) == a \div PageSize

(* README, "Communication": reading the eight bytes before a return        *)
(* address, of any call whatsoever, cannot touch a page that the call      *)
(* itself was not on.                                                      *)
MagicReadable ==
    \A r \in returns : ReadsMagic(r.ret) =>
        /\ r.ret >= RetAlign
        /\ PageOf(r.ret - RetAlign) = PageOf(r.ret - 1)
        /\ PageOf(r.ret - RetAlign + StashBytes - 1) = PageOf(r.ret - 1)
=============================================================================
