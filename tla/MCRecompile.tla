---------------------------- MODULE MCRecompile ----------------------------
(***************************************************************************)
(* Programs of two units for Recompile.  B.cpp has the caller B, a second  *)
(* target D and the function `match`, which is there to make calls of its  *)
(* type targets (as in tests/test_class.hpp); C.cpp has the leaf C and,    *)
(* in some programs, `create`, through which alone B.cpp depends on C.     *)
(***************************************************************************)
EXTENDS Recompile

MCUnits == {"B.cpp", "C.cpp"}
MCNames == {"B", "C", "D", "match", "create", "log", "llvm.cos", "llvm.returnaddress", "llvm.used",
            "count", "total", "shared", "table", "_drti_landed", "inspect_treenode",
            "_drti_call_from", "_drti_caller", "_drti_set_caller"}
MCLlvmNames == {"llvm.cos", "llvm.returnaddress", "llvm.used"}
MCTypes == {"Base", "Derived", "Flag", "void"}
MCCallIds == MCNames \cup {"asm", "call", "first", "log in C"}
MCTargetNames == {"B", "C", "D", "match"}
MCExported == {"inspect_treenode"}
MCHelperType == [params |-> <<>>, ret |-> "void"]

Var(name, constant, local, defined) ==
    [name |-> name, constant |-> constant, local |-> local, defined |-> defined]

Declare(name, type) ==
    [name |-> name, intrinsic |-> name \in MCLlvmNames, local |-> FALSE, defined |-> FALSE,
     type |-> type, body |-> <<>>, uses |-> {}]

Define(name, type, body, uses) ==
    [Declare(name, type) EXCEPT !.defined = TRUE, !.body = body, !.uses = uses]

CallTo(id, kind, aims, type) == [id |-> id, kind |-> kind, aims |-> aims, type |-> type]

MCHelpers ==
    [vars |-> <<>>,
     funcs |-> <<Define("_drti_landed", MCHelperType,
                     <<CallTo("inspect_treenode", "direct", {"inspect_treenode"}, MCHelperType)>>, {}),
                 Declare("inspect_treenode", MCHelperType),
                 Define("_drti_call_from", MCHelperType, <<>>, {})>>,
     converters |-> {}, native |-> TRUE]

Plain == [params |-> <<>>, ret |-> "void"]
Takes(params) == [params |-> params, ret |-> "Flag"]

(* How the type of the call compares with the leaf's.                      *)
Signatures ==
    {[call |-> Takes(<<"Base">>), leaf |-> Takes(<<"Base">>), converters |-> {}],
     [call |-> Takes(<<"Base">>), leaf |-> Takes(<<"Derived">>),
      converters |-> {<<"Base", "Derived">>}],
     [call |-> Takes(<<"Base">>), leaf |-> Takes(<<"Derived">>), converters |-> {}],
     [call |-> Takes(<<"Base", "Flag">>), leaf |-> Takes(<<"Base", "Flag">>), converters |-> {}]}

DirectSignatures == {g \in Signatures : g.call = g.leaf}

(* asm: inline assembly comes before the call; decls: what B.cpp declares; *)
(* static: the name of C.cpp's static variable, in B.cpp it is "count".    *)
BUnit(asm, kind, decls, sig) ==
    [vars |-> <<Var("llvm.used", FALSE, FALSE, TRUE), Var("count", FALSE, TRUE, TRUE),
                Var("table", TRUE, TRUE, TRUE), Var("shared", FALSE, FALSE, TRUE)>>,
     funcs |-> <<Define("B", Plain,
                     (IF asm THEN <<CallTo("asm", "asm", {}, Plain)>> ELSE <<>>)
                       \o <<CallTo("first", "pointer", {"D"}, sig.call),
                            CallTo("call", kind, IF kind = "direct" THEN {"C"} ELSE {"C", "D"},
                                   sig.call),
                            CallTo("log", "direct", {"log"}, Plain)>>,
                     {"count", "shared"}),
                 Declare("llvm.cos", Plain),
                 Define("match", sig.call, <<>>, {}),
                 Define("D", sig.call, <<>>, {"count"})>>
               \o [i \in DOMAIN decls |->
                    Declare(decls[i], IF decls[i] = "C" THEN sig.leaf ELSE Plain)],
     converters |-> {}, native |-> TRUE]

CUnit(static, sig) ==
    [vars |-> <<Var(static, FALSE, TRUE, TRUE), Var("shared", FALSE, FALSE, FALSE)>>,
     funcs |-> <<Define("C", sig.leaf, <<CallTo("log in C", "direct", {"log"}, Plain)>>,
                        {static, "shared"}),
                 Declare("log", Plain),
                 Define("create", Plain, <<>>, {"C"})>>,
     converters |-> sig.converters, native |-> TRUE]

TwoUnits(b, c) == [u \in MCUnits |-> IF u = "B.cpp" THEN b ELSE c]

Declarations == {<<"log", "C">>, <<"C", "log">>, <<"create", "log">>, <<"log">>}

DirectPrograms ==
    {TwoUnits(BUnit(a, "direct", d, g), CUnit(s, g)) :
        a \in BOOLEAN, d \in {<<"log", "C">>, <<"C", "log">>},
        s \in {"count", "total"}, g \in DirectSignatures}

PointerPrograms ==
    {TwoUnits(BUnit(a, "pointer", d, g), CUnit(s, g)) :
        a \in BOOLEAN, d \in Declarations, s \in {"count", "total"}, g \in Signatures}

(* A unit for another processor, one without target functions, and two     *)
(* programs in which one unit has a static `log` of its own.               *)
OddPrograms ==
    LET g == CHOOSE h \in DirectSignatures : TRUE
        b == BUnit(FALSE, "direct", <<"C", "log">>, g)
        c == CUnit("total", g)
        ownLog == [Define("log", Plain, <<>>, {}) EXCEPT !.local = TRUE]
    IN {TwoUnits([b EXCEPT !.native = FALSE], c),
        TwoUnits([vars |-> <<>>, funcs |-> <<Declare("create", Plain)>>,
                  converters |-> {}, native |-> TRUE], c),
        TwoUnits(b, [c EXCEPT !.funcs = [@ EXCEPT ![2] = ownLog]]),
        TwoUnits([b EXCEPT !.funcs = [@ EXCEPT ![6] = ownLog]], c)}

Static(f) == [f EXCEPT !.local = TRUE]

Refer(f, name) == [f EXCEPT !.uses = @ \cup {name}]

(* Static functions that are decorated: the leaf C, on its own or beside a *)
(* C of B.cpp, and the caller B.  Only in C, where names are not mangled,  *)
(* a static function can have the name of one that is not.                 *)
StaticPrograms ==
    LET g == CHOOSE h \in DirectSignatures : TRUE
        b == BUnit(FALSE, "pointer", <<"create", "log">>, g)
        bC == BUnit(FALSE, "pointer", <<"C", "log", "create">>, g)
        c == CUnit("total", g)
        staticC == [c EXCEPT !.funcs = [@ EXCEPT ![1] = Static(@)]]
        ownC == Define("C", g.leaf, <<>>, {"count"})
        declaresB(m) == [m EXCEPT !.funcs =
                            Append([@ EXCEPT ![1] = Refer(@, "B")], Declare("B", Plain))]
        With(m, f) == [m EXCEPT !.funcs = Append(@, f)]
    IN {\* found only because `create` needs it
        TwoUnits(b, staticC),
        \* another static C, or an external one, in B.cpp
        TwoUnits(With(b, Static(ownC)), staticC),
        TwoUnits(With(b, ownC), staticC),
        TwoUnits(With(BUnit(FALSE, "pointer", <<"log">>, g), Static(ownC)), staticC),
        \* B.cpp means another C, which it declares
        TwoUnits([bC EXCEPT !.funcs = [@ EXCEPT ![1] = Refer(@, "C")]], staticC),
        \* C.cpp means another B, which it declares
        TwoUnits([b EXCEPT !.funcs = [@ EXCEPT ![1] = Static(@)]], declaresB(c))}

MCPrograms == DirectPrograms \cup PointerPrograms \cup OddPrograms \cup StaticPrograms
=============================================================================
