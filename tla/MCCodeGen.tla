----------------------------- MODULE MCCodeGen -----------------------------
(***************************************************************************)
(* Functions for CodeGen: one block with up to two pieces after the        *)
(* prologue, which are ordinary code, an ordinary call, or a decorated     *)
(* call with nothing, code or another call after its _drti_set_caller.     *)
(***************************************************************************)
EXTENDS CodeGen

MCCallees == {"C", "log", "memcpy"}
MCNodes == {"k1", "k2"}
MCDecorated == {"C"}

(* DRTI's callback and another library's, before and after allocation.     *)
MCRegistrars == {"first", "second"}
MCCallbacks == {[point |-> "PreRegAlloc", pass |-> "drti"],
                [point |-> "PostRegAlloc", pass |-> "other"]}

(* The third has a decorated call of the greatest length, the last one a   *)
(* call that is too long.                                                  *)
MCStarts == {0, 4059}
MCLengths == {2, 3, 5, 7, 24, 25, 32}
MCLayouts == {[plain |-> 3, call |-> 5, decorated |-> 2, jump |-> 2],
              [plain |-> 32, call |-> 32, decorated |-> 7, jump |-> 5],
              [plain |-> 5, call |-> 7, decorated |-> 24, jump |-> 5],
              [plain |-> 3, call |-> 5, decorated |-> 25, jump |-> 2]}

Between == {<<>>, <<OtherCode>>, <<CallOf("memcpy", None)>>}

DecoratedPieces(k) ==
    {<<Arg(k), SetCaller>> \o s \o <<CallOf(f, k)>> : s \in Between, f \in {"C", "log"}}

OrdinaryPieces == {<<>>, <<OtherCode>>, <<CallOf("log", None)>>}

Bodies ==
    {p \o q : p \in DecoratedPieces("k1") \cup OrdinaryPieces,
              q \in DecoratedPieces("k2") \cup OrdinaryPieces}

Landing == <<GetCaller, Use("rax"), CallOf("log", None)>>

MCFunctions ==
    {[native |-> TRUE, blocks |-> <<Landing, b>>] : b \in Bodies}
        \cup {[native |-> TRUE, blocks |-> <<Landing, b, Landing>>] : b \in DecoratedPieces("k1")}
        \cup {[native |-> n, blocks |-> <<b>>] :
                n \in BOOLEAN, b \in OrdinaryPieces \cup {<<CallOf("C", None)>>}}
=============================================================================
